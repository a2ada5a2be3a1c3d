--------------------------- MODULE AccountsProofs ---------------------------
(***************************************************************************)
(* The tables of the accounts keep what they declare, and a refresh token  *)
(* that was replaced is never good again (IInv); of requests that do not   *)
(* overlap, only the last code or token works, sessions know the password, *)
(* and guesses are bounded (SInv): for any number of users, emails,        *)
(* identities and requests, and any limits.                                *)
(***************************************************************************)
EXTENDS Accounts, FiniteSetTheorems, TLAPS

(***************************************************************************)
(* What a request holds.  Until it is done no token bears its name; the    *)
(* user it is about to insert is nobody yet, has an email nobody has, and  *)
(* is not another request's; the lock of a foreign key keeps the user it   *)
(* links alive; and the token it is to replace is still its user's, or     *)
(* went with the user, who does not come back.                             *)
(***************************************************************************)
Replaceable(t, u) ==
  /\ t \in Rows /\ u \in Users
  /\ \/ users[u].life = "deleted"
     \/ tokens[t].life \in {"active", "revoked"} /\ tokens[t].user = u

RequestOK(r, q) ==
  /\ q.pc # "done" => tokens[r].life = "free"
  /\ q.pc \in {"issue", "link", "commitLink", "commitUser"} => q.user \in Users
  /\ q.pc = "commitUser" => /\ users[q.user].life = "free"
                            /\ GetByEmail(users, q.email) = {}
  /\ q.pc = "commitLink" => users[q.user].life = "live"
  /\ q.pc \in {"revoke", "rotate"} => Replaceable(q.row, q.user)
  /\ \A u \in q.list : users[u].life # "free"

RequestsOK == \A r \in Requests : RequestOK(r, req[r])

Apart(p, q) == (p.pc = "commitUser" /\ q.pc = "commitUser")
                 => p.user # q.user /\ p.email # q.email
Exclusive == \A r, s \in Requests : r # s => Apart(req[r], req[s])

TokensOwned ==
  \A t \in Rows : tokens[t].life \in {"active", "revoked"} <=> tokens[t].user # None

IInv == /\ SchemaKept /\ ReplacedIsRevoked
        /\ TokensOwned /\ RequestsOK /\ Exclusive
-----------------------------------------------------------------------------
LEMMA Constants ==
  /\ Old \notin Requests /\ Old \in Rows /\ Requests \subseteq Rows
  /\ None \notin Users /\ None \notin Emails /\ None \notin Identities /\ None \notin Rows
  /\ OTPMaxAttempts \in Nat /\ LoginLockoutMaxFails \in Nat /\ MaxFaults \in Nat
  BY PolicyOK DEF Rows

\* The statements that number codes need finitely many of them.
LEMMA FiniteRows ==
  ASSUME NEW S \in SUBSET Rows
  PROVE  Cardinality(S) \in Nat
<1>1. IsFiniteSet(Rows)
  BY PolicyOK, FS_AddElement DEF Rows
<1> QED
  BY <1>1, FS_Subset, FS_CardinalityType

LEMMA RequestRecords ==
  /\ NewRequest \in Request /\ Done \in Request
  /\ NewRequest.pc = "new" /\ Done.pc = "done" /\ Done.list = {} /\ NewRequest.list = {}
  BY Constants DEF NewRequest, Done, Request, Ops, Steps

(***************************************************************************)
(* The statements: what the tables are after them.                         *)
(***************************************************************************)
Kept(before, after) ==   \* nobody comes, goes or changes email
  \A v \in Users : after[v].life = before[v].life /\ after[v].email = before[v].email

LEMMA UpdateKeeps ==
  ASSUME NEW t \in [Users -> User], NEW u, NEW new,
         u \in Users => /\ new \in User
                        /\ new.life = t[u].life /\ new.email = t[u].email
  PROVE  /\ UpdateUserWhere(t, u, new) \in [Users -> User]
         /\ Kept(t, UpdateUserWhere(t, u, new))
<1>1. CASE u \in Users
  BY <1>1 DEF UpdateUserWhere, Kept
<1>2. CASE u \notin Users
  BY <1>2 DEF UpdateUserWhere, Kept
<1> QED
  BY <1>1, <1>2

LEMMA UpdatesKeep ==
  ASSUME NEW t \in [Users -> User], NEW u
  PROVE  /\ UpdatePassword(t, u) \in [Users -> User] /\ Kept(t, UpdatePassword(t, u))
         /\ MarkEmailVerified(t, u) \in [Users -> User] /\ Kept(t, MarkEmailVerified(t, u))
         /\ RequestDeletion(t, u) \in [Users -> User] /\ Kept(t, RequestDeletion(t, u))
         /\ CancelDeletion(t, u) \in [Users -> User] /\ Kept(t, CancelDeletion(t, u))
<1> DEFINE Fits(new) == u \in Users => /\ new \in User
                          /\ new.life = t[u].life /\ new.email = t[u].email
<1>1. Fits([t[u] EXCEPT !.password = @ + 1])
  BY DEF User
<1>2. Fits([t[u] EXCEPT !.verified = TRUE])
  BY DEF User
<1>3. Fits([t[u] EXCEPT !.pending = TRUE]) /\ Fits([t[u] EXCEPT !.pending = FALSE])
  BY DEF User
<1> QED
  BY <1>1, <1>2, <1>3, UpdateKeeps
     DEF UpdatePassword, MarkEmailVerified, RequestDeletion, CancelDeletion

LEMMA RevokeTyped ==
  ASSUME NEW t \in [Rows -> Token], NEW S
  PROVE  RevokeTokens(t, S) \in [Rows -> Token]
  BY DEF RevokeTokens, Token

LEMMA CreateTokenTyped ==
  ASSUME NEW t \in [Rows -> Token], NEW r \in Rows, NEW u \in Users \cup {None},
         NEW p \in Rows \cup {None}
  PROVE  CreateToken(t, r, u, p) \in [Rows -> Token]
  BY DEF CreateToken, Token

LEMMA CodesTyped ==
  ASSUME NEW t \in [Rows -> Code], NEW c \in Rows \cup {None},
         NEW u \in Users \cup {None}
  PROVE  /\ CreateCode(t, c, u) \in [Rows -> Code]
         /\ IncrementAttempts(t, c) \in [Rows -> Code]
         /\ ConsumeCode(t, c) \in [Rows -> Code]
         /\ DeleteCodes(t, u) \in [Rows -> Code]
<1>1. 1 + Cardinality({d \in Rows : t[d].at > 0}) \in Nat
  BY FiniteRows
<1>2. CreateCode(t, c, u) \in [Rows -> Code]
  BY <1>1, Constants DEF CreateCode, Code
<1>3. IncrementAttempts(t, c) \in [Rows -> Code]
  <2>1. CASE c \in Rows
    <3>1. [t[c] EXCEPT !.attempts = @ + 1] \in Code
      BY <2>1 DEF Code
    <3> QED
      BY <2>1, <3>1 DEF IncrementAttempts
  <2>2. CASE c \notin Rows
    BY <2>2 DEF IncrementAttempts
  <2> QED
    BY <2>1, <2>2
<1>4. ConsumeCode(t, c) \in [Rows -> Code]
  <2>1. CASE c \in Rows
    <3>1. [t[c] EXCEPT !.life = "consumed"] \in Code
      BY <2>1 DEF Code
    <3> QED
      BY <2>1, <3>1 DEF ConsumeCode
  <2>2. CASE c \notin Rows
    BY <2>2 DEF ConsumeCode
  <2> QED
    BY <2>1, <2>2
<1>5. DeleteCodes(t, u) \in [Rows -> Code]
  BY DEF DeleteCodes, Code, FreeCode
<1> QED
  BY <1>2, <1>3, <1>4, <1>5

LEMMA ResetsTyped ==
  ASSUME NEW t \in [Rows -> Reset], NEW p \in Rows \cup {None},
         NEW u \in Users \cup {None}
  PROVE  /\ CreateReset(t, p, u) \in [Rows -> Reset]
         /\ ConsumeReset(t, p) \in [Rows -> Reset]
         /\ DeleteResets(t, u) \in [Rows -> Reset]
  BY Constants DEF CreateReset, ConsumeReset, DeleteResets, Reset, FreeReset
-----------------------------------------------------------------------------
(***************************************************************************)
(* A step that makes and deletes no user and at most revokes tokens.       *)
(***************************************************************************)
LEMMA Mild ==
  ASSUME IInv, TypeOK', NEW r \in Requests, NEW new \in Request, NEW S,
         req' = [req EXCEPT ![r] = new], RequestOK(r, new),
         \A s \in Requests \ {r} : Apart(new, req[s]),
         Kept(users, users'), tokens' = RevokeTokens(tokens, S), links' = links,
         \A c \in Rows : codes'[c].user # None => users[codes'[c].user].life = "live",
         \A p \in Rows : resets'[p].user # None => users[resets'[p].user].life = "live"
  PROVE  IInv'
<1>1. /\ users \in [Users -> User] /\ users' \in [Users -> User]
      /\ tokens \in [Rows -> Token] /\ tokens' \in [Rows -> Token]
      /\ codes' \in [Rows -> Code] /\ resets' \in [Rows -> Reset]
      /\ links \in [Identities -> Users \cup {None}]
      /\ req \in [Requests -> Request]
  BY DEF IInv, SchemaKept, TypeOK
<1>2. \A v \in Users : users'[v].life = users[v].life /\ users'[v].email = users[v].email
  BY DEF Kept
<1>3. \A t \in Rows :
        /\ tokens'[t].user = tokens[t].user /\ tokens'[t].parent = tokens[t].parent
        /\ \/ tokens'[t].life = tokens[t].life
           \/ tokens[t].life = "active" /\ tokens'[t].life = "revoked"
  BY <1>1 DEF RevokeTokens, Token
<1>4. OneUserPerEmail'
  BY <1>2 DEF IInv, SchemaKept, OneUserPerEmail, Live
<1>5. NoOrphans'
  <2>1. \A c \in Rows : codes'[c].user # None => users'[codes'[c].user].life = "live"
    BY <1>1, <1>2 DEF Code
  <2>2. \A p \in Rows : resets'[p].user # None => users'[resets'[p].user].life = "live"
    BY <1>1, <1>2 DEF Reset
  <2>3. \A t \in Rows : tokens'[t].user # None => users'[tokens'[t].user].life = "live"
    BY <1>1, <1>2, <1>3 DEF Token, IInv, SchemaKept, NoOrphans
  <2>4. \A i \in Identities : links'[i] # None => users'[links'[i]].life = "live"
    BY <1>1, <1>2 DEF IInv, SchemaKept, NoOrphans
  <2> QED
    BY <2>1, <2>2, <2>3, <2>4 DEF NoOrphans
<1>6. ReplacedIsRevoked'
  BY <1>1, <1>3 DEF IInv, ReplacedIsRevoked, Token
<1>7. TokensOwned'
  BY <1>3 DEF IInv, TokensOwned
<1>8. RequestsOK'
  <2> SUFFICES ASSUME NEW s \in Requests  PROVE RequestOK(s, req[s])'
    BY DEF RequestsOK
  <2>1. PICK q \in Request : q = req'[s]
    BY <1>1
  <2>2. RequestOK(s, q)
    BY <1>1, <2>1 DEF IInv, RequestsOK
  <2>3. s \in Rows /\ (tokens[s].life = "free" => tokens'[s].life = "free")
    BY <1>3, Constants
  <2>4. q.list \subseteq Users /\ \A u \in q.list : users'[u].life # "free"
    BY <1>2, <2>2 DEF RequestOK, Request
  <2>5. q.pc = "commitUser" => /\ users'[q.user].life = "free"
                               /\ GetByEmail(users', q.email) = {}
    BY <1>2, <2>2 DEF RequestOK, GetByEmail, Live
  <2>6. q.pc \in {"revoke", "rotate"} => Replaceable(q.row, q.user)'
    BY <1>2, <1>3, <2>2 DEF RequestOK, Replaceable
  <2>7. q.pc = "commitLink" => users'[q.user].life = "live"
    BY <1>2, <2>2 DEF RequestOK
  <2>8. /\ q.pc \in {"issue", "link", "commitLink", "commitUser"} => q.user \in Users
        /\ q.pc # "done" => tokens'[s].life = "free"
    BY <2>2, <2>3 DEF RequestOK
  <2>9. RequestOK(s, q)'
    BY <2>4, <2>5, <2>6, <2>7, <2>8 DEF RequestOK
  <2> QED
    BY <2>1, <2>9
<1>9. Exclusive'
  BY <1>1 DEF IInv, Exclusive, Apart
<1> QED
  BY <1>4, <1>5, <1>6, <1>7, <1>8, <1>9 DEF IInv, SchemaKept

\* A step that writes nothing.
LEMMA Quiet ==
  ASSUME IInv, NEW r \in Requests, NEW new \in Request,
         req' = [req EXCEPT ![r] = new], overlapped' \in BOOLEAN,
         UNCHANGED <<db, history>>, RequestOK(r, new),
         \A s \in Requests \ {r} : Apart(new, req[s])
  PROVE  IInv'
<1>1. TypeOK'
  BY DEF IInv, SchemaKept, TypeOK, db, history
<1>2. tokens' = RevokeTokens(tokens, {})
  BY DEF IInv, SchemaKept, TypeOK, db, RevokeTokens
<1>3. Kept(users, users') /\ links' = links
  BY DEF Kept, db
<1>4. /\ \A c \in Rows : codes'[c].user # None => users[codes'[c].user].life = "live"
      /\ \A p \in Rows : resets'[p].user # None => users[resets'[p].user].life = "live"
  BY DEF IInv, SchemaKept, NoOrphans, db
<1> QED
  BY <1>1, <1>2, <1>3, <1>4, Mild

LEMMA DoneOK ==
  ASSUME NEW r \in Requests
  PROVE  RequestOK(r, Done) /\ \A q : Apart(Done, q)
  BY RequestRecords DEF RequestOK, Apart

LEMMA FinishIInv ==
  ASSUME IInv, NEW r \in Requests, Finish(r), UNCHANGED <<db, history>>
  PROVE  IInv'
<1>1. overlapped' \in BOOLEAN
  BY DEF Finish, Go, IInv, SchemaKept, TypeOK
<1> QED
  BY <1>1, DoneOK, RequestRecords, Quiet DEF Finish, Go

\* A request goes on without a write; the condition of its new step is met.
LEMMA GoIInv ==
  ASSUME IInv, NEW r \in Requests, NEW new \in Request, Go(r, new),
         UNCHANGED <<db, history>>,
         new.pc # "commitUser", req[r].pc # "done", new.list = req[r].list,
         new.pc \in {"issue", "link", "commitLink"} => new.user \in Users,
         new.pc = "commitLink" => users[new.user].life = "live",
         new.pc \in {"revoke", "rotate"} => Replaceable(new.row, new.user)
  PROVE  IInv'
<1>1. RequestOK(r, req[r])
  BY DEF IInv, RequestsOK
<1>2. RequestOK(r, new) /\ \A q : Apart(new, q)
  BY <1>1 DEF RequestOK, Apart
<1>3. overlapped' \in BOOLEAN
  BY DEF Go, IInv, SchemaKept, TypeOK
<1> QED
  BY <1>2, <1>3, Quiet DEF Go

-----------------------------------------------------------------------------
(***************************************************************************)
(* What arrives.                                                           *)
(***************************************************************************)
LEMMA StartIInv ==
  ASSUME IInv, NEW r \in Requests, NEW new \in Request, Start(r, new),
         new.pc \notin {"link", "commitLink", "commitUser", "rotate"},
         new.pc = "issue" => new.user \in Users,
         new.pc = "revoke" => Replaceable(new.row, new.user),
         \A u \in new.list : users[u].life # "free"
  PROVE  IInv'
<1>1. RequestOK(r, req[r])
  BY DEF IInv, RequestsOK
<1>2. RequestOK(r, new) /\ \A q : Apart(new, q)
  BY <1>1 DEF RequestOK, Apart, Start
<1>3. overlapped' \in BOOLEAN
  BY DEF Start, UnderWay, IInv, SchemaKept, TypeOK
<1> QED
  BY <1>2, <1>3, Quiet DEF Start

LEMMA RefuseIInv ==
  ASSUME IInv, NEW r \in Requests, Refuse(r)
  PROVE  IInv'
  BY RequestRecords, StartIInv DEF Refuse

\* A request about a user and nothing else.
LEMMA AboutUser ==
  ASSUME IInv, NEW r \in Requests, NEW pc \in Steps, NEW op \in Ops,
         NEW u \in Users,
         pc \notin {"link", "commitLink", "commitUser", "rotate", "issue", "revoke"},
         Replacing(r, u, op, pc)
  PROVE  IInv'
<1> DEFINE new == [NewRequest EXCEPT !.pc = pc, !.op = op, !.user = u]
<1>1. new \in Request /\ new.pc = pc /\ new.list = {}
  BY DEF NewRequest, Request
<1>2. Start(r, new)
  BY DEF Replacing
<1> QED
  BY <1>1, <1>2, StartIInv

\* A request about a row and its user.
LEMMA AboutRow ==
  ASSUME IInv, NEW r \in Requests, NEW pc \in Steps, NEW op \in Ops,
         NEW u \in Users \cup {None}, NEW t \in Rows,
         pc \notin {"link", "commitLink", "commitUser", "rotate", "issue"},
         pc = "revoke" => Replaceable(t, u),
         Start(r, [NewRequest EXCEPT !.pc = pc, !.op = op, !.row = t, !.user = u])
  PROVE  IInv'
<1> DEFINE new == [NewRequest EXCEPT !.pc = pc, !.op = op, !.row = t, !.user = u]
<1>1. new \in Request /\ new.pc = pc /\ new.row = t /\ new.user = u /\ new.list = {}
  BY DEF NewRequest, Request
<1> QED
  BY <1>1, StartIInv

LEMMA UsingIInv ==
  ASSUME IInv, NEW r \in Requests, NEW pc \in Steps, NEW op \in Ops, NEW t \in Rows,
         pc \in {"sweep", "revoke", "revokeOne"},
         pc = "revoke" => tokens[t].life = "active",
         Using(r, op, pc, t)
  PROVE  IInv'
<1>1. tokens[t] \in Token
  BY DEF IInv, SchemaKept, TypeOK
<1>2. PICK u : u = tokens[t].user
  OBVIOUS
<1>3. pc = "revoke" => Replaceable(t, u)
  BY <1>1, <1>2 DEF IInv, TokensOwned, Replaceable, Token
<1>4. u \in Users \cup {None}
  BY <1>1, <1>2 DEF Token
<1>5. Start(r, [NewRequest EXCEPT !.pc = pc, !.op = op, !.row = t, !.user = u])
  BY <1>2 DEF Using
<1> QED
  BY <1>3, <1>4, <1>5, AboutRow

LEMMA CallersTyped == Callers \subseteq Users
  BY DEF Callers

LEMMA EmailsTyped ==
  ASSUME NEW e \in Emails
  PROVE  GetByEmail(users, e) = {u \in Users : users[u].life = "live" /\ users[u].email = e}
  BY DEF GetByEmail, Live

LEMMA ArriveIInv ==
  ASSUME IInv, NEW r \in Requests, Arrive(r)
  PROVE  IInv'
<1> USE DEF Steps, Ops
<1>1. CASE HandleRegister(r)
  <2>1. PICK e \in Emails : Register(r, e)
    BY <1>1 DEF HandleRegister
  <2>2. [NewRequest EXCEPT !.pc = "insertUser", !.op = "register", !.email = e] \in Request
    BY DEF NewRequest, Request
  <2> QED
    BY <2>1, <2>2, RefuseIInv, StartIInv DEF Register, NewRequest
<1>2. CASE HandleLogin(r)
  <2>1. PICK e \in Emails : Login(r, e)
    BY <1>2 DEF HandleLogin
  <2>2. [NewRequest EXCEPT !.pc = "findUser", !.op = "login", !.email = e] \in Request
    BY DEF NewRequest, Request
  <2> QED
    BY <2>1, <2>2, RefuseIInv, StartIInv DEF Login, NewRequest
<1>3. CASE HandleRefresh(r)
  BY <1>3, UsingIInv, RefuseIInv DEF HandleRefresh, Refresh
<1>4. CASE HandleLogout(r)
  BY <1>4, UsingIInv, RefuseIInv DEF HandleLogout, Logout
<1>5. CASE HandleLogoutAll(r)
  <2>1. PICK u \in Users : LogoutAll(r, u)
    BY <1>5, CallersTyped DEF HandleLogoutAll
  <2>2. Refuse(r) \/ Replacing(r, u, "logoutAll", "sweep")
    BY <2>1 DEF LogoutAll, Replacing
  <2> QED
    BY <2>2, AboutUser, RefuseIInv
<1>6. CASE HandleRevokeSession(r)
  BY <1>6, UsingIInv, RefuseIInv DEF HandleRevokeSession, RevokeSession
<1>7. CASE HandleDeleteAccount(r)
  <2>1. PICK u \in Users : RequestAccountDeletion(r, u)
    BY <1>7, CallersTyped DEF HandleDeleteAccount
  <2>2. Refuse(r) \/ Replacing(r, u, "delete", "update")
    BY <2>1 DEF RequestAccountDeletion, Replacing
  <2> QED
    BY <2>2, AboutUser, RefuseIInv
<1>8. CASE HandleCancelDeletion(r)
  <2>1. PICK u \in Users : CancelAccountDeletion(r, u)
    BY <1>8, CallersTyped DEF HandleCancelDeletion
  <2>2. Refuse(r) \/ Replacing(r, u, "cancel", "cancel")
    BY <2>1 DEF CancelAccountDeletion, Replacing
  <2> QED
    BY <2>2, AboutUser, RefuseIInv
<1>9. CASE HandleVerifyEmail(r)
  <2>1. PICK e \in Emails : VerifyEmail(r, e)
    BY <1>9 DEF HandleVerifyEmail
  <2>2. CASE Refuse(r)
    BY <2>2, RefuseIInv
  <2>3. CASE ~Refuse(r)
    <3>1. PICK u \in Users, c \in Rows :
            Start(r, [NewRequest EXCEPT !.pc = "check", !.op = "verify", !.user = u,
                                        !.row = c])
      BY <2>1, <2>3, EmailsTyped DEF VerifyEmail, GetActiveByUserID, ActiveCodes
    <3>2. [NewRequest EXCEPT !.pc = "check", !.op = "verify", !.user = u, !.row = c]
            = [NewRequest EXCEPT !.pc = "check", !.op = "verify", !.row = c, !.user = u]
      BY DEF NewRequest
    <3> QED
      BY <3>1, <3>2, AboutRow, ZenonT(60)
  <2> QED
    BY <2>2, <2>3
<1>10. CASE HandleResendVerification(r)
  <2>1. PICK e \in Emails : ResendVerification(r, e)
    BY <1>10 DEF HandleResendVerification
  <2>2. Refuse(r) \/ \E u \in Users : Replacing(r, u, "resend", "dropCodes")
    BY <2>1, EmailsTyped DEF ResendVerification
  <2> QED
    BY <2>2, AboutUser, RefuseIInv
<1>11. CASE HandleForgotPassword(r)
  <2>1. PICK e \in Emails : ForgotPassword(r, e)
    BY <1>11 DEF HandleForgotPassword
  <2>2. Refuse(r) \/ \E u \in Users : Replacing(r, u, "forgot", "dropResets")
    BY <2>1, EmailsTyped DEF ForgotPassword
  <2> QED
    BY <2>2, AboutUser, RefuseIInv
<1>12. CASE HandleResetPassword(r)
  <2>1. PICK p \in Rows : ResetPassword(r, p)
    BY <1>12 DEF HandleResetPassword
  <2>2. PICK u : u = resets[p].user
    OBVIOUS
  <2>3. u \in Users \cup {None}
    BY <2>2 DEF IInv, SchemaKept, TypeOK, Reset
  <2>4. CASE Start(r, [NewRequest EXCEPT !.pc = "update", !.op = "reset", !.row = p,
                                         !.user = resets[p].user])
    BY <2>2, <2>3, <2>4, AboutRow, ZenonT(60)
  <2> QED
    BY <2>1, <2>4, RefuseIInv DEF ResetPassword
<1>13. CASE HandleChangePassword(r)
  <2>1. PICK u \in Users : ChangePassword(r, u)
    BY <1>13, CallersTyped DEF HandleChangePassword
  <2>2. Refuse(r) \/ Replacing(r, u, "change", "update")
    BY <2>1 DEF ChangePassword, Replacing
  <2> QED
    BY <2>2, AboutUser, RefuseIInv
<1>14. CASE HandleGoogleCallback(r)
  <2>1. PICK i \in Identities, e \in Emails : FindOrCreateOAuthUser(r, i, e)
    BY <1>14 DEF HandleGoogleCallback
  <2> DEFINE as == [NewRequest EXCEPT !.op = "oauth", !.identity = i, !.email = e]
  <2>2. PICK u : u = links[i]
    OBVIOUS
  <2>3. u \in Users \cup {None}
    BY <2>2 DEF IInv, SchemaKept, TypeOK
  <2>4. CASE u = None
    <3>1. /\ [as EXCEPT !.pc = "oauthEmail"] \in Request
          /\ [as EXCEPT !.pc = "oauthEmail"].pc = "oauthEmail"
          /\ [as EXCEPT !.pc = "oauthEmail"].list = {}
      BY DEF NewRequest, Request
    <3>2. Start(r, [as EXCEPT !.pc = "oauthEmail"])
      BY <2>1, <2>2, <2>4 DEF FindOrCreateOAuthUser, GetOAuthAccount
    <3> QED
      BY <3>1, <3>2, StartIInv
  <2>5. CASE u # None
    <3>1. PICK n : n = users[u].password
      OBVIOUS
    <3>2. n \in Nat /\ u \in Users
      BY <2>3, <2>5, <3>1 DEF IInv, SchemaKept, TypeOK, User
    <3> DEFINE new == [as EXCEPT !.pc = "issue", !.user = u, !.pw = n]
    <3>3. new \in Request /\ new.pc = "issue" /\ new.list = {} /\ new.user = u
      BY <3>2 DEF NewRequest, Request
    <3>4. Start(r, new)
      BY <2>1, <2>2, <2>5, <3>1 DEF FindOrCreateOAuthUser, GetOAuthAccount
    <3> QED
      BY <3>2, <3>3, <3>4, StartIInv
  <2> QED
    BY <2>4, <2>5
<1>15. CASE Purge(r)
  <2>1. PICK due \in SUBSET ListExpiredDeletions(users) :
          Start(r, [NewRequest EXCEPT !.pc = "purge", !.op = "purge", !.list = due])
    BY <1>15 DEF Purge
  <2>2. due \subseteq Users /\ \A u \in due : users[u].life # "free"
    BY DEF ListExpiredDeletions, Live
  <2>3. [NewRequest EXCEPT !.pc = "purge", !.op = "purge", !.list = due] \in Request
    BY <2>2 DEF NewRequest, Request
  <2> QED
    BY <2>1, <2>2, <2>3, StartIInv DEF NewRequest
<1> QED
  BY <1>1, <1>2, <1>3, <1>4, <1>5, <1>6, <1>7, <1>8, <1>9, <1>10, <1>11, <1>12, <1>13,
     <1>14, <1>15 DEF Arrive
-----------------------------------------------------------------------------
(***************************************************************************)
(* What a request does, first the steps that write nothing.                *)
(***************************************************************************)
LEMMA InsertUserIInv ==
  ASSUME IInv, NEW r \in Requests, InsertUser(r)
  PROVE  IInv'
<1>1. PICK q \in Request : q = req[r]
  BY DEF IInv, SchemaKept, TypeOK
<1>2. q.pc = "insertUser" /\ RequestOK(r, q)
  BY <1>1 DEF InsertUser, At, IInv, RequestsOK
<1>3. CASE GetByEmail(users, q.email) # {}
  BY <1>1, <1>3, FinishIInv DEF InsertUser
<1>4. CASE GetByEmail(users, q.email) = {}
  <2>1. PICK u \in Users : /\ users[u].life = "free" /\ \A s \in Requests : req[s].user # u
                           /\ Go(r, [q EXCEPT !.pc = "commitUser", !.user = u])
    BY <1>1, <1>4 DEF InsertUser
  <2> DEFINE new == [q EXCEPT !.pc = "commitUser", !.user = u]
  <2>2. /\ new \in Request /\ new.pc = "commitUser" /\ new.user = u
        /\ new.email = q.email /\ new.list = q.list
    BY DEF Request, Steps
  <2> HIDE DEF new
  <2>3. RequestOK(r, new)
    BY <1>2, <1>4, <2>1, <2>2 DEF RequestOK
  <2>4. \A s \in Requests \ {r} : Apart(new, req[s])
    BY <1>1, <2>1, <2>2 DEF Apart, InsertUser, Inserting, At
  <2>5. /\ req' = [req EXCEPT ![r] = new] /\ overlapped' \in BOOLEAN
        /\ UNCHANGED <<db, history>>
    BY <2>1 DEF Go, InsertUser, IInv, SchemaKept, TypeOK, new
  <2> QED
    BY <2>2, <2>3, <2>4, <2>5, Quiet
<1> QED
  BY <1>3, <1>4

\* The request goes on with what it holds and what it has read.
GoesTo(r, pc, u, n, S) ==
  /\ Go(r, [req[r] EXCEPT !.pc = pc, !.user = u, !.pw = n, !.sees = S])
  /\ req[r].pc # "done" /\ UNCHANGED <<db, history>>

MayGo(r, pc, u) ==
  /\ pc \in Steps \ {"commitUser", "revoke"}
  /\ u = req[r].user \/ u \in Users
  /\ pc \in {"issue", "link", "commitLink"} => u \in Users
  /\ pc = "commitLink" => users[u].life = "live"
  /\ pc = "rotate" => Replaceable(req[r].row, u)

LEMMA GoesOn ==
  ASSUME IInv, NEW r \in Requests, NEW pc, NEW u, NEW n \in Nat, NEW S \in SUBSET Rows,
         MayGo(r, pc, u), GoesTo(r, pc, u, n, S)
  PROVE  IInv'
<1>1. PICK q \in Request : q = req[r]
  BY DEF IInv, SchemaKept, TypeOK
<1> DEFINE new == [q EXCEPT !.pc = pc, !.user = u, !.pw = n, !.sees = S]
<1>2. pc \in Steps /\ u \in Users \cup {None}
  BY <1>1 DEF MayGo, Request
<1>3. /\ new \in Request /\ new.pc = pc /\ new.user = u /\ new.list = q.list
      /\ new.row = q.row
  BY <1>2 DEF Request
<1>4. Go(r, new) /\ q.pc # "done" /\ UNCHANGED <<db, history>>
  BY <1>1 DEF GoesTo
<1> HIDE DEF new
<1>5. /\ new.pc # "commitUser" /\ new.pc # "revoke"
      /\ new.pc \in {"issue", "link", "commitLink"} => new.user \in Users
      /\ new.pc = "commitLink" => users[new.user].life = "live"
      /\ new.pc = "rotate" => Replaceable(new.row, new.user)
  BY <1>1, <1>3 DEF MayGo
<1> QED
  BY <1>1, <1>3, <1>4, <1>5, GoIInv

LEMMA ReadingSteps ==
  ASSUME IInv, NEW r \in Requests,
         \/ LoginPasses(r) \/ RefreshRevoke(r) \/ Sweep(r) \/ UpdateUser(r)
         \/ OAuthEmail(r) \/ LinkAccount(r)
  PROVE  IInv'
<1>1. PICK q \in Request : q = req[r]
  BY DEF IInv, SchemaKept, TypeOK
<1>2. q.pw \in Nat /\ q.sees \in SUBSET Rows
  BY DEF Request
<1>3. RequestOK(r, q)
  BY <1>1 DEF IInv, RequestsOK
<1>4. CASE LoginPasses(r)
  <2>1. PICK u \in Users : Go(r, [q EXCEPT !.pc = "issue", !.user = u,
                                           !.pw = users[u].password])
    BY <1>1, <1>4 DEF LoginPasses, GetByEmail, Live
  <2>2. PICK n : n = users[u].password
    OBVIOUS
  <2>3. n \in Nat
    BY <2>2 DEF IInv, SchemaKept, TypeOK, User
  <2>4. Go(r, [q EXCEPT !.pc = "issue", !.user = u, !.pw = n, !.sees = q.sees])
    BY <1>2, <2>1, <2>2 DEF Request
  <2>5. GoesTo(r, "issue", u, n, q.sees)
    BY <1>1, <1>4, <2>4 DEF LoginPasses, At, GoesTo
  <2>6. MayGo(r, "issue", u)
    BY DEF MayGo, Steps
  <2> QED
    BY <1>2, <2>3, <2>5, <2>6, GoesOn
<1>5. CASE RefreshRevoke(r)
  <2>1. Go(r, [q EXCEPT !.pc = "rotate", !.user = q.user, !.pw = q.pw, !.sees = q.sees])
    BY <1>1, <1>5 DEF RefreshRevoke, Request
  <2>2. q.pc = "revoke" /\ Replaceable(q.row, q.user)
    BY <1>1, <1>3, <1>5 DEF RefreshRevoke, At, RequestOK
  <2>3. GoesTo(r, "rotate", q.user, q.pw, q.sees)
    BY <1>1, <1>5, <2>1, <2>2 DEF RefreshRevoke, GoesTo
  <2>4. MayGo(r, "rotate", q.user)
    BY <1>1, <2>2 DEF MayGo, Steps
  <2> QED
    BY <1>2, <2>3, <2>4, GoesOn
<1>6. CASE Sweep(r)
  <2>1. PICK S : S = ActiveTokens(tokens, q.user)
    OBVIOUS
  <2>2. S \in SUBSET Rows
    BY <2>1 DEF ActiveTokens
  <2>3. Go(r, [q EXCEPT !.pc = "swept", !.user = q.user, !.pw = q.pw, !.sees = S])
    BY <1>1, <1>6, <2>1 DEF Sweep, Request
  <2>4. GoesTo(r, "swept", q.user, q.pw, S)
    BY <1>1, <1>6, <2>3 DEF Sweep, At, GoesTo
  <2>5. MayGo(r, "swept", q.user)
    BY <1>1 DEF MayGo, Steps
  <2> QED
    BY <1>2, <2>2, <2>4, <2>5, GoesOn
<1>7. CASE UpdateUser(r)
  <2>1. CASE Finish(r)
    BY <1>7, <2>1, FinishIInv DEF UpdateUser
  <2>2. CASE Go(r, [req[r] EXCEPT !.pc = "sweep"])
    <3>1. Go(r, [q EXCEPT !.pc = "sweep", !.user = q.user, !.pw = q.pw, !.sees = q.sees])
      BY <1>1, <2>2 DEF Request
    <3>2. GoesTo(r, "sweep", q.user, q.pw, q.sees)
      BY <1>1, <1>7, <3>1 DEF UpdateUser, At, GoesTo
    <3>3. MayGo(r, "sweep", q.user)
      BY <1>1 DEF MayGo, Steps
    <3> QED
      BY <1>2, <3>2, <3>3, GoesOn
  <2> QED
    BY <1>7, <2>1, <2>2 DEF UpdateUser
<1>8. CASE OAuthEmail(r)
  <2>1. CASE \E u \in GetByEmail(users, q.email) :
               Go(r, [q EXCEPT !.pc = "link", !.user = u])
    <3>1. PICK u \in Users : Go(r, [q EXCEPT !.pc = "link", !.user = u])
      BY <2>1 DEF GetByEmail, Live
    <3>2. Go(r, [q EXCEPT !.pc = "link", !.user = u, !.pw = q.pw, !.sees = q.sees])
      BY <3>1 DEF Request
    <3>3. GoesTo(r, "link", u, q.pw, q.sees)
      BY <1>1, <1>8, <3>2 DEF OAuthEmail, At, GoesTo
    <3>4. MayGo(r, "link", u)
      BY DEF MayGo, Steps
    <3> QED
      BY <1>2, <3>3, <3>4, GoesOn
  <2>2. CASE Go(r, [q EXCEPT !.pc = "insertUser"])
    <3>1. Go(r, [q EXCEPT !.pc = "insertUser", !.user = q.user, !.pw = q.pw,
                          !.sees = q.sees])
      BY <2>2 DEF Request
    <3>2. GoesTo(r, "insertUser", q.user, q.pw, q.sees)
      BY <1>1, <1>8, <3>1 DEF OAuthEmail, At, GoesTo
    <3>3. MayGo(r, "insertUser", q.user)
      BY <1>1 DEF MayGo, Steps
    <3> QED
      BY <1>2, <3>2, <3>3, GoesOn
  <2> QED
    BY <1>1, <1>8, <2>1, <2>2 DEF OAuthEmail
<1>9. CASE LinkAccount(r)
  <2>1. CASE Finish(r)
    BY <1>9, <2>1, FinishIInv DEF LinkAccount
  <2>2. CASE ~Finish(r)
    <3>1. users[q.user].life = "live" /\ Go(r, [q EXCEPT !.pc = "commitLink"])
      BY <1>1, <1>9, <2>2 DEF LinkAccount
    <3>2. q.pc = "link" /\ q.user \in Users
      BY <1>1, <1>3, <1>9 DEF LinkAccount, At, RequestOK
    <3>3. Go(r, [q EXCEPT !.pc = "commitLink", !.user = q.user, !.pw = q.pw,
                          !.sees = q.sees])
      BY <3>1 DEF Request
    <3>4. GoesTo(r, "commitLink", q.user, q.pw, q.sees)
      BY <1>1, <1>9, <3>2, <3>3 DEF LinkAccount, GoesTo
    <3>5. MayGo(r, "commitLink", q.user)
      BY <1>1, <3>1, <3>2 DEF MayGo, Steps
    <3> QED
      BY <1>2, <3>4, <3>5, GoesOn
  <2> QED
    BY <2>1, <2>2
<1> QED
  BY <1>4, <1>5, <1>6, <1>7, <1>8, <1>9

PurgesOn(r, new) == /\ req' = [req EXCEPT ![r] = new] /\ RequestOK(r, new)
                    /\ new.pc = "purge" \/ new.pc = "done"

LEMMA PurgeGoesOn ==
  ASSUME NEW r \in Requests, NEW u \in req[r].list, IInv, At(r, "purge"),
         Purged(r, u)
  PROVE  /\ users[u].life # "free"
         /\ \E new \in Request : PurgesOn(r, new)
<1>1. PICK q \in Request : q = req[r]
  BY DEF IInv, SchemaKept, TypeOK
<1>2. RequestOK(r, q) /\ q.pc = "purge"
  BY <1>1 DEF IInv, RequestsOK, At
<1>3. users[u].life # "free"
  BY <1>1, <1>2 DEF RequestOK
<1>4. CASE q.list = {u}
  <2>1. PurgesOn(r, Done)
    BY <1>1, <1>4, DoneOK, RequestRecords DEF Purged, Go, PurgesOn
  <2> QED
    BY <1>3, <2>1, RequestRecords
<1>5. CASE q.list # {u}
  <2> DEFINE new == [q EXCEPT !.list = @ \ {u}]
  <2>1. new \in Request /\ new.pc = "purge" /\ new.list \subseteq q.list
    BY <1>2 DEF Request
  <2>2. req' = [req EXCEPT ![r] = new]
    BY <1>1, <1>5 DEF Purged, Go
  <2> HIDE DEF new
  <2>3. RequestOK(r, new)
    BY <1>2, <2>1 DEF RequestOK
  <2>4. PurgesOn(r, new)
    BY <2>1, <2>2, <2>3 DEF PurgesOn
  <2> QED
    BY <1>3, <2>1, <2>4
<1> QED
  BY <1>4, <1>5

LEMMA IdleSteps ==
  ASSUME IInv, NEW r \in Requests,
         PurgeNothing(r) \/ Abort(r) \/ \E u \in Users : PurgeSkips(r, u)
  PROVE  IInv'
<1>1. CASE PurgeNothing(r)
  BY <1>1, FinishIInv DEF PurgeNothing
<1>2. CASE Abort(r)
  BY <1>2, FinishIInv DEF Abort
<1>3. ASSUME NEW u \in Users, PurgeSkips(r, u)  PROVE IInv'
  <2>1. overlapped' \in BOOLEAN
    BY <1>3 DEF PurgeSkips, Purged, Go, IInv, SchemaKept, TypeOK
  <2>2. PICK new \in Request : PurgesOn(r, new)
    BY <1>3, PurgeGoesOn DEF PurgeSkips
  <2>3. \A q : Apart(new, q)
    BY <2>2 DEF Apart, PurgesOn
  <2> QED
    BY <1>3, <2>1, <2>2, <2>3, Quiet DEF PurgeSkips, PurgesOn
<1> QED
  BY <1>1, <1>2, <1>3
-----------------------------------------------------------------------------
\* What a new token and the revocation of the one it replaces do to the table.
Replaces(old, new, r, u, p) ==
  /\ new[r].life = "active" /\ new[r].user = u /\ new[r].parent = p
  /\ \A t \in Rows : t # r =>
       /\ new[t].user = old[t].user /\ new[t].parent = old[t].parent
       /\ \/ new[t].life = old[t].life
          \/ old[t].life = "active" /\ new[t].life = "revoked"
  /\ p # None => p # r /\ new[p].life = "revoked" /\ new[p].user = u

LEMMA Replacement ==
  ASSUME NEW old \in [Rows -> Token], NEW r \in Rows, NEW u \in Users,
         NEW p \in Rows \cup {None}, old[r].life = "free",
         p # None => old[p].life \in {"active", "revoked"} /\ old[p].user = u,
         NEW new, new = CreateToken(RevokeTokens(old, {p}), r, u, p)
  PROVE  Replaces(old, new, r, u, p)
<1> DEFINE mid == RevokeTokens(old, {p})
<1>2. mid \in [Rows -> Token]
  BY RevokeTyped
<1>3. \A t \in Rows :
        /\ mid[t].user = old[t].user /\ mid[t].parent = old[t].parent
        /\ mid[t].life = IF t = p /\ old[t].life = "active" THEN "revoked" ELSE old[t].life
  BY DEF RevokeTokens, Token
<1> HIDE DEF mid
<1>4. new = [mid EXCEPT ![r] = [life |-> "active", user |-> u, parent |-> p]]
  BY DEF CreateToken, mid
<1>5. new[r] = [life |-> "active", user |-> u, parent |-> p]
  BY <1>2, <1>4
<1>6. \A t \in Rows : t # r => new[t] = mid[t]
  BY <1>2, <1>4
<1>7. new[r].life = "active" /\ new[r].user = u /\ new[r].parent = p
  BY <1>5
<1>8. \A t \in Rows : t # r =>
        /\ new[t].user = old[t].user /\ new[t].parent = old[t].parent
        /\ \/ new[t].life = old[t].life
           \/ old[t].life = "active" /\ new[t].life = "revoked"
  BY <1>3, <1>6
<1>9. ASSUME p # None  PROVE p # r /\ new[p].life = "revoked" /\ new[p].user = u
  <2>1. p \in Rows /\ p # r
    BY <1>9
  <2> QED
    BY <1>3, <1>6, <1>9, <2>1
<1> QED
  BY <1>7, <1>8, <1>9 DEF Replaces

\* So what was said of the replaced tokens can be said of them after it.
AllRevoked(tab) ==
  \A t \in Rows : tab[t].parent # None =>
    /\ tab[tab[t].parent].life = "revoked"
    /\ tab[tab[t].parent].user = tab[t].user

LEMMA ReplacedAfter ==
  ASSUME NEW old \in [Rows -> Token], NEW new \in [Rows -> Token],
         NEW r \in Rows, NEW u \in Users, NEW p \in Rows \cup {None},
         old[r].life = "free", AllRevoked(old), Replaces(old, new, r, u, p)
  PROVE  AllRevoked(new)
<1> SUFFICES ASSUME NEW t \in Rows, new[t].parent # None
             PROVE  /\ new[new[t].parent].life = "revoked"
                    /\ new[new[t].parent].user = new[t].user
  BY DEF AllRevoked
<1>1. CASE t = r
  BY <1>1 DEF Replaces
<1>2. CASE t # r
  <2>1. PICK o \in Rows : o = old[t].parent
    BY <1>2 DEF Token, Replaces
  <2>2. o # None /\ old[o].life = "revoked" /\ old[o].user = old[t].user
    BY <1>2, <2>1 DEF AllRevoked, Replaces
  <2>3. o # r
    BY <2>2
  <2> QED
    BY <1>2, <2>1, <2>2, <2>3 DEF Replaces
<1> QED
  BY <1>1, <1>2

(***************************************************************************)
(* A request ends with a new token of a user: one there is, or the one the *)
(* request inserts with it.  A token that it replaces was the user's.      *)
(***************************************************************************)
UserEnters(r, u) ==
  /\ users'[u].life = "live"
  /\ \A v \in Users : v # u => users'[v].life = users[v].life
                                 /\ users'[v].email = users[v].email
  /\ \/ users[u].life = "live" /\ users'[u].email = users[u].email
     \/ At(r, "commitUser") /\ req[r].user = u /\ users'[u].email = req[r].email

TokenEnters(r, u, p) ==
  /\ tokens' = CreateToken(RevokeTokens(tokens, {p}), r, u, p)
  /\ p # None => tokens[p].life \in {"active", "revoked"} /\ tokens[p].user = u

OthersFollow(u) ==
  /\ \A c \in Rows : codes'[c].user \in {None, u, codes[c].user}
  /\ resets' = resets
  /\ \A i \in Identities : links'[i] \in {u, links[i]}

LEMMA TokenAdded ==
  ASSUME IInv, TypeOK', NEW r \in Requests, req' = [req EXCEPT ![r] = Done],
         req[r].pc # "done", NEW u \in Users, NEW p \in Rows \cup {None},
         UserEnters(r, u), TokenEnters(r, u, p), OthersFollow(u)
  PROVE  IInv'
<1>1. /\ users \in [Users -> User] /\ users' \in [Users -> User]
      /\ tokens \in [Rows -> Token] /\ tokens' \in [Rows -> Token]
      /\ codes \in [Rows -> Code] /\ codes' \in [Rows -> Code]
      /\ resets \in [Rows -> Reset]
      /\ links \in [Identities -> Users \cup {None}]
      /\ req \in [Requests -> Request] /\ r \in Rows
  BY Constants DEF IInv, SchemaKept, TypeOK
<1>2. RequestOK(r, req[r])
  BY DEF IInv, RequestsOK
<1>3. /\ tokens[r].life = "free"
      /\ users[u].life = "free" => GetByEmail(users, users'[u].email) = {}
      /\ users[u].life \in {"live", "free"}
  BY <1>2 DEF RequestOK, At, UserEnters
<1>4. \A v \in Users : users[v].life = "live" => /\ users'[v].life = "live"
                                                 /\ users'[v].email = users[v].email
  BY <1>2 DEF RequestOK, At, UserEnters
<1>5. Replaces(tokens, tokens', r, u, p)
  BY <1>1, <1>3, Replacement DEF TokenEnters
<1>6. OneUserPerEmail'
  <2> SUFFICES ASSUME NEW v \in Users, NEW w \in Users,
                      users'[v].life = "live", users'[w].life = "live",
                      users'[v].email = users'[w].email
               PROVE  v = w
    BY DEF OneUserPerEmail, Live
  <2>1. CASE users[u].life = "live"
    BY <1>2, <2>1 DEF IInv, SchemaKept, OneUserPerEmail, Live, RequestOK, At, UserEnters
  <2>2. CASE users[u].life = "free"
    BY <1>3, <2>2 DEF IInv, SchemaKept, OneUserPerEmail, Live, GetByEmail, UserEnters
  <2> QED
    BY <1>3, <2>1, <2>2
<1>7. NoOrphans'
  <2>1. \A c \in Rows : codes'[c].user # None => users'[codes'[c].user].life = "live"
    BY <1>1, <1>4 DEF Code, IInv, SchemaKept, NoOrphans, OthersFollow, UserEnters
  <2>2. \A q \in Rows : resets'[q].user # None => users'[resets'[q].user].life = "live"
    BY <1>1, <1>4 DEF Reset, IInv, SchemaKept, NoOrphans, OthersFollow
  <2>3. \A t \in Rows : tokens'[t].user # None => users'[tokens'[t].user].life = "live"
    BY <1>1, <1>4, <1>5 DEF Token, IInv, SchemaKept, NoOrphans, UserEnters, Replaces
  <2>4. \A i \in Identities : links'[i] # None => users'[links'[i]].life = "live"
    BY <1>1, <1>4 DEF IInv, SchemaKept, NoOrphans, OthersFollow, UserEnters
  <2> QED
    BY <2>1, <2>2, <2>3, <2>4 DEF NoOrphans
<1>8. ReplacedIsRevoked'
  <2>1. AllRevoked(tokens)
    BY DEF IInv, ReplacedIsRevoked, AllRevoked
  <2>2. AllRevoked(tokens')
    BY <1>1, <1>3, <1>5, <2>1, ReplacedAfter
  <2> QED
    BY <2>2 DEF ReplacedIsRevoked, AllRevoked
<1>9. TokensOwned'
  BY <1>1, <1>5, Constants DEF IInv, TokensOwned, Token, Replaces
<1>10. RequestsOK'
  <2> SUFFICES ASSUME NEW s \in Requests  PROVE RequestOK(s, req[s])'
    BY DEF RequestsOK
  <2>1. PICK q \in Request : q = req'[s]
    BY <1>1, RequestRecords
  <2>2. CASE s = r
    <3>1. q.pc = "done" /\ q.list = {}
      BY <1>1, <2>1, <2>2, RequestRecords
    <3>2. RequestOK(s, q)'
      BY <3>1 DEF RequestOK
    <3> QED
      BY <2>1, <3>2
  <2>3. CASE s # r
    <3>1. q = req[s] /\ RequestOK(s, q)
      BY <1>1, <2>1, <2>3 DEF IInv, RequestsOK
    <3>2. s \in Rows /\ (tokens[s].life = "free" => tokens'[s].life = "free")
      BY <1>5, <2>3, Constants DEF Replaces
    <3>3. q.list \subseteq Users /\ \A v \in q.list : users'[v].life # "free"
      BY <1>4, <3>1 DEF RequestOK, Request, UserEnters
    <3>4. q.pc = "commitUser" => /\ users'[q.user].life = "free"
                                 /\ GetByEmail(users', q.email) = {}
      <4> SUFFICES ASSUME q.pc = "commitUser"
                   PROVE  users'[q.user].life = "free" /\ GetByEmail(users', q.email) = {}
        OBVIOUS
      <4>1. /\ q.user \in Users /\ users[q.user].life = "free"
            /\ GetByEmail(users, q.email) = {}
        BY <3>1 DEF RequestOK
      <4>2. users[u].life = "live" \/ (u # q.user /\ users'[u].email # q.email)
        <5>1. Apart(req[r], req[s])
          BY <2>3 DEF IInv, Exclusive
        <5> QED
          BY <3>1, <5>1 DEF Apart, At, UserEnters
      <4>3. u # q.user /\ users'[u].email # q.email
        BY <1>4, <4>1, <4>2 DEF GetByEmail, Live
      <4> QED
        BY <4>1, <4>3 DEF GetByEmail, Live, UserEnters
    <3>5. q.pc \in {"revoke", "rotate"} => Replaceable(q.row, q.user)'
      BY <1>3, <1>4, <1>5, <3>1 DEF RequestOK, Replaceable, UserEnters, Replaces
    <3>6. q.pc = "commitLink" => users'[q.user].life = "live"
      BY <1>4, <3>1 DEF RequestOK
    <3>7. /\ q.pc \in {"issue", "link", "commitLink", "commitUser"} => q.user \in Users
          /\ q.pc # "done" => tokens'[s].life = "free"
      BY <3>1, <3>2 DEF RequestOK
    <3>8. RequestOK(s, q)'
      BY <3>3, <3>4, <3>5, <3>6, <3>7 DEF RequestOK
    <3> QED
      BY <2>1, <3>8
  <2> QED
    BY <2>2, <2>3
<1>11. Exclusive'
  BY <1>1, RequestRecords DEF IInv, Exclusive, Apart
<1> QED
  BY <1>6, <1>7, <1>8, <1>9, <1>10, <1>11 DEF IInv, SchemaKept
-----------------------------------------------------------------------------
(***************************************************************************)
(* The requests that end, or go on, with a write that is mild.             *)
(***************************************************************************)
LEMMA Counted ==
  ASSUME NEW D, NEW f \in [D -> Nat], NEW x
  PROVE  [f EXCEPT ![x] = @ + 1] \in [D -> Nat]
<1>1. CASE x \in D
  BY <1>1
<1>2. CASE x \notin D
  BY <1>2
<1> QED
  BY <1>1, <1>2

LEMMA LoggedTyped ==
  ASSUME TypeOK, faults' = faults \/ (faults < MaxFaults /\ faults' = faults + 1)
  PROVE  faults' \in 0..MaxFaults
  BY Constants DEF TypeOK

\* What the statements on the codes and the reset tokens leave referring to.
CodesReferTo(after) ==
  \A c \in Rows : after[c].user # None => users[after[c].user].life = "live"

LEMMA CodesRefer ==
  ASSUME IInv, NEW c, NEW u \in Users \cup {None}
  PROVE  /\ users[u].life = "live" => CodesReferTo(CreateCode(codes, c, u))
         /\ CodesReferTo(IncrementAttempts(codes, c))
         /\ CodesReferTo(ConsumeCode(codes, c))
         /\ CodesReferTo(DeleteCodes(codes, u))
         /\ users[u].life = "live" => CodesReferTo(CreateReset(resets, c, u))
         /\ CodesReferTo(ConsumeReset(resets, c))
         /\ CodesReferTo(DeleteResets(resets, u))
         /\ CodesReferTo(codes) /\ CodesReferTo(resets)
<1>1. codes \in [Rows -> Code] /\ resets \in [Rows -> Reset]
  BY DEF IInv, SchemaKept, TypeOK
<1>2. CodesReferTo(codes) /\ CodesReferTo(resets)
  BY DEF IInv, SchemaKept, NoOrphans, CodesReferTo
<1>3. CodesReferTo(DeleteCodes(codes, u)) /\ CodesReferTo(DeleteResets(resets, u))
  BY <1>2 DEF CodesReferTo, DeleteCodes, DeleteResets, FreeCode, FreeReset
<1>4. \A d \in Rows : IncrementAttempts(codes, c)[d].user = codes[d].user
  BY <1>1 DEF IncrementAttempts, Code
<1>5. \A d \in Rows : ConsumeCode(codes, c)[d].user = codes[d].user
  BY <1>1 DEF ConsumeCode, Code
<1>6. \A d \in Rows : ConsumeReset(resets, c)[d].user = resets[d].user
  BY <1>1 DEF ConsumeReset, Reset
<1>7. \A d \in Rows : CreateCode(codes, c, u)[d].user \in {u, codes[d].user}
  <2> DEFINE new == [life |-> "active", user |-> u, attempts |-> 0,
                     at |-> 1 + Cardinality({d \in Rows : codes[d].at > 0})]
  <2>1. new.user = u /\ CreateCode(codes, c, u) = [codes EXCEPT ![c] = new]
    BY DEF CreateCode
  <2> HIDE DEF new
  <2> QED
    BY <1>1, <2>1
<1>8. \A d \in Rows : CreateReset(resets, c, u)[d].user \in {u, resets[d].user}
  BY <1>1 DEF CreateReset
<1>9. \A after : (\A d \in Rows : after[d].user = codes[d].user) => CodesReferTo(after)
  BY <1>2 DEF CodesReferTo
<1>10. \A after : (\A d \in Rows : after[d].user = resets[d].user) => CodesReferTo(after)
  BY <1>2 DEF CodesReferTo
<1>11. users[u].life = "live" => CodesReferTo(CreateCode(codes, c, u))
  BY <1>2, <1>7 DEF CodesReferTo
<1>12. users[u].life = "live" => CodesReferTo(CreateReset(resets, c, u))
  BY <1>2, <1>8 DEF CodesReferTo
<1> QED
  BY <1>2, <1>3, <1>4, <1>5, <1>6, <1>9, <1>10, <1>11, <1>12

\* The tables but users and tokens, and the history, after a mild step.
RestTyped ==
  /\ codes' \in [Rows -> Code] /\ resets' \in [Rows -> Reset]
  /\ failures' \in [Emails -> Nat]
  /\ root' \in [Rows -> Rows] /\ knows' \in [Rows -> Nat]
  /\ guesses' \in [Rows \cup Emails -> Nat] /\ uses' \in [Rows -> Nat]
  /\ faults' \in 0..MaxFaults

RestRefers == CodesReferTo(codes') /\ CodesReferTo(resets')

UsersKept == users' \in [Users -> User] /\ Kept(users, users')

LEMMA MildFinish ==
  ASSUME IInv, NEW r \in Requests, Finish(r), UsersKept, RestTyped, RestRefers,
         NEW S, tokens' = RevokeTokens(tokens, S), links' = links
  PROVE  IInv'
<1>1. req' = [req EXCEPT ![r] = Done] /\ overlapped' = overlapped
  BY DEF Finish, Go
<1>2. TypeOK'
  <2>1. tokens' \in [Rows -> Token]
    BY RevokeTyped DEF IInv, SchemaKept, TypeOK
  <2>2. req' \in [Requests -> Request] /\ overlapped' \in BOOLEAN
        /\ links' \in [Identities -> Users \cup {None}]
    BY <1>1, RequestRecords DEF IInv, SchemaKept, TypeOK
  <2> QED
    BY <2>1, <2>2 DEF TypeOK, RestTyped, UsersKept
<1> QED
  BY <1>1, <1>2, DoneOK, RequestRecords, Mild DEF RestRefers, CodesReferTo, UsersKept

\* What each of these leaves alone.
LEMMA Unchanging ==
  ASSUME IInv
  PROVE  /\ users' = users => UsersKept
         /\ tokens' = tokens => tokens' = RevokeTokens(tokens, {})
         /\ UNCHANGED <<codes, resets, failures, history>> => RestTyped /\ RestRefers
<1>1. users' = users => UsersKept
  BY DEF UsersKept, Kept, IInv, SchemaKept, TypeOK
<1>2. tokens' = tokens => tokens' = RevokeTokens(tokens, {})
  BY DEF IInv, SchemaKept, TypeOK, RevokeTokens
<1>3. UNCHANGED <<codes, resets, failures, history>> => RestTyped
  BY DEF RestTyped, history, IInv, SchemaKept, TypeOK
<1>4. UNCHANGED <<codes, resets, failures, history>> => RestRefers
  BY CodesRefer, Constants DEF RestRefers
<1> QED
  BY <1>1, <1>2, <1>3, <1>4

LEMMA RequestTyped ==
  ASSUME IInv, NEW r \in Requests
  PROVE  req[r] \in Request /\ req[r].user \in Users \cup {None}
         /\ req[r].row \in Rows \cup {None}
<1>1. req[r] \in Request
  BY DEF IInv, SchemaKept, TypeOK
<1> QED
  BY <1>1 DEF Request

LEMMA RevokeOneIInv ==
  ASSUME IInv, NEW r \in Requests, RevokeOne(r)
  PROVE  IInv'
<1>1. /\ Finish(r) /\ tokens' = RevokeTokens(tokens, {req[r].row})
      /\ users' = users /\ links' = links
      /\ UNCHANGED <<codes, resets, failures, history>>
  BY DEF RevokeOne, Revoke
<1> QED
  BY <1>1, Unchanging, MildFinish

LEMMA LoginFailsIInv ==
  ASSUME IInv, NEW r \in Requests, LoginFails(r)
  PROVE  IInv'
<1>1. PICK e : e = req[r].email
  OBVIOUS
<1>2. /\ Finish(r) /\ users' = users /\ tokens' = tokens /\ links' = links
      /\ codes' = codes /\ resets' = resets
  BY DEF LoginFails
<1>3. failures' = [failures EXCEPT ![e] = @ + 1] \/ failures' = failures
  BY <1>1 DEF LoginFails, Logged, RecordFailure
<1>4. /\ guesses' = [guesses EXCEPT ![e] = @ + 1]
      /\ UNCHANGED <<root, knows, uses>>
      /\ faults' = faults \/ (faults < MaxFaults /\ faults' = faults + 1)
  BY <1>1 DEF LoginFails, Logged
<1>5. failures' \in [Emails -> Nat] /\ guesses' \in [Rows \cup Emails -> Nat]
  BY <1>3, <1>4, Counted DEF IInv, SchemaKept, TypeOK
<1>6. faults' \in 0..MaxFaults
  BY <1>4, LoggedTyped DEF IInv, SchemaKept
<1>7. RestTyped
  BY <1>2, <1>4, <1>5, <1>6 DEF RestTyped, IInv, SchemaKept, TypeOK
<1>8. RestRefers
  BY <1>2, CodesRefer, Constants DEF RestRefers
<1> QED
  BY <1>2, <1>7, <1>8, Unchanging, MildFinish

LEMMA WrongCodeIInv ==
  ASSUME IInv, NEW r \in Requests, WrongCode(r)
  PROVE  IInv'
<1>1. PICK c \in Rows \cup {None} : c = req[r].row
  BY RequestTyped
<1>2. /\ Finish(r) /\ users' = users /\ tokens' = tokens /\ links' = links
      /\ failures' = failures /\ resets' = resets
  BY DEF WrongCode
<1>3. codes' = IncrementAttempts(codes, c) \/ codes' = codes
  BY <1>1 DEF WrongCode, Logged
<1>4. /\ guesses' = [guesses EXCEPT ![c] = @ + 1]
      /\ UNCHANGED <<root, knows, uses>>
      /\ faults' = faults \/ (faults < MaxFaults /\ faults' = faults + 1)
  BY <1>1 DEF WrongCode, Logged
<1>5. codes' \in [Rows -> Code]
  <2>1. PICK u \in Users \cup {None} : u = req[r].user
    BY RequestTyped
  <2>2. codes \in [Rows -> Code]
    BY DEF IInv, SchemaKept, TypeOK
  <2>3. IncrementAttempts(codes, c) \in [Rows -> Code]
    BY <2>1, <2>2, CodesTyped
  <2> QED
    BY <1>3, <2>2, <2>3
<1>6. guesses' \in [Rows \cup Emails -> Nat]
  BY <1>4, Counted DEF IInv, SchemaKept, TypeOK
<1>7. faults' \in 0..MaxFaults
  BY <1>4, LoggedTyped DEF IInv, SchemaKept
<1>8. RestTyped
  BY <1>2, <1>4, <1>5, <1>6, <1>7 DEF RestTyped, IInv, SchemaKept, TypeOK
<1>9. RestRefers
  BY <1>2, <1>3, CodesRefer, Constants DEF RestRefers
<1> QED
  BY <1>2, <1>8, <1>9, Unchanging, MildFinish

LEMMA RightCodeIInv ==
  ASSUME IInv, NEW r \in Requests, RightCode(r)
  PROVE  IInv'
<1>1. PICK c \in Rows \cup {None} : c = req[r].row
  BY RequestTyped
<1>2. PICK u \in Users \cup {None} : u = req[r].user
  BY RequestTyped
<1>3. /\ Finish(r) /\ tokens' = tokens /\ links' = links
      /\ UNCHANGED <<failures, resets, history>>
      /\ codes' = ConsumeCode(codes, c) /\ users' = MarkEmailVerified(users, u)
  BY <1>1, <1>2 DEF RightCode
<1>4. UsersKept
  BY <1>3, UpdatesKeep DEF UsersKept, IInv, SchemaKept, TypeOK
<1>5. codes' \in [Rows -> Code]
  BY <1>2, <1>3, CodesTyped DEF IInv, SchemaKept, TypeOK
<1>6. RestTyped
  BY <1>3, <1>5 DEF history, RestTyped, IInv, SchemaKept, TypeOK
<1>7. RestRefers
  BY <1>3, CodesRefer, Constants DEF RestRefers
<1> QED
  BY <1>3, <1>4, <1>6, <1>7, Unchanging, MildFinish

LEMMA CancelIInv ==
  ASSUME IInv, NEW r \in Requests, Cancel(r)
  PROVE  IInv'
<1>1. /\ Finish(r) /\ tokens' = tokens /\ links' = links
      /\ UNCHANGED <<codes, resets, failures, history>>
      /\ users' = CancelDeletion(users, req[r].user)
  BY DEF Cancel
<1>2. UsersKept
  BY <1>1, UpdatesKeep DEF UsersKept, IInv, SchemaKept, TypeOK
<1> QED
  BY <1>1, <1>2, Unchanging, MildFinish

LEMMA InsertCodeIInv ==
  ASSUME IInv, NEW r \in Requests, InsertCode(r)
  PROVE  IInv'
<1>1. PICK u \in Users \cup {None} : u = req[r].user
  BY RequestTyped
<1>2. /\ Finish(r) /\ users' = users /\ tokens' = tokens /\ links' = links
      /\ UNCHANGED <<failures, resets, history>>
  BY DEF InsertCode
<1>3. codes' = codes \/ (users[u].life = "live" /\ codes' = CreateCode(codes, r, u))
  BY <1>1 DEF InsertCode
<1>4. codes' \in [Rows -> Code]
  BY <1>1, <1>3, CodesTyped, Constants DEF IInv, SchemaKept, TypeOK
<1>5. RestTyped
  BY <1>2, <1>4 DEF history, RestTyped, IInv, SchemaKept, TypeOK
<1>6. RestRefers
  BY <1>1, <1>2, <1>3, CodesRefer, Constants DEF RestRefers
<1> QED
  BY <1>2, <1>5, <1>6, Unchanging, MildFinish

LEMMA InsertResetIInv ==
  ASSUME IInv, NEW r \in Requests, InsertReset(r)
  PROVE  IInv'
<1>1. PICK u \in Users \cup {None} : u = req[r].user
  BY RequestTyped
<1>2. /\ Finish(r) /\ users' = users /\ tokens' = tokens /\ links' = links
      /\ UNCHANGED <<failures, codes, history>>
  BY DEF InsertReset
<1>3. resets' = resets \/ (users[u].life = "live" /\ resets' = CreateReset(resets, r, u))
  BY <1>1 DEF InsertReset
<1>4. resets' \in [Rows -> Reset]
  BY <1>1, <1>3, ResetsTyped, Constants DEF IInv, SchemaKept, TypeOK
<1>5. RestTyped
  BY <1>2, <1>4 DEF history, RestTyped, IInv, SchemaKept, TypeOK
<1>6. RestRefers
  BY <1>1, <1>2, <1>3, CodesRefer, Constants DEF RestRefers
<1> QED
  BY <1>2, <1>5, <1>6, Unchanging, MildFinish

LEMMA CommitSweepIInv ==
  ASSUME IInv, NEW r \in Requests, CommitSweep(r)
  PROVE  IInv'
<1>1. PICK p \in Rows \cup {None} : p = req[r].row
  BY RequestTyped
<1>2. /\ Finish(r) /\ links' = links /\ UNCHANGED <<codes, failures>>
      /\ UNCHANGED <<root, knows, guesses, faults>>
      /\ tokens' = RevokeTokens(tokens, req[r].sees)
  BY DEF CommitSweep
<1>3. \/ resets' = resets /\ uses' = uses
      \/ resets' = ConsumeReset(resets, p) /\ uses' = [uses EXCEPT ![p] = @ + 1]
  BY <1>1 DEF CommitSweep
<1>4. UsersKept
  <2>1. \/ users' = UpdatePassword(users, req[r].user)
        \/ users' = RequestDeletion(users, req[r].user)
        \/ users' = users
    BY DEF CommitSweep, UsersOf
  <2> QED
    BY <2>1, UpdatesKeep, Unchanging DEF UsersKept, IInv, SchemaKept, TypeOK
<1>5. resets' \in [Rows -> Reset] /\ uses' \in [Rows -> Nat]
  <2>1. ConsumeReset(resets, p) \in [Rows -> Reset]
    BY RequestTyped, ResetsTyped DEF IInv, SchemaKept, TypeOK
  <2>2. [uses EXCEPT ![p] = @ + 1] \in [Rows -> Nat]
    BY Counted DEF IInv, SchemaKept, TypeOK
  <2> QED
    BY <1>3, <2>1, <2>2 DEF IInv, SchemaKept, TypeOK
<1>6. RestTyped
  BY <1>2, <1>5 DEF RestTyped, IInv, SchemaKept, TypeOK
<1>7. RestRefers
  BY <1>2, <1>3, CodesRefer, Constants DEF RestRefers
<1> QED
  BY <1>2, <1>4, <1>6, <1>7, MildFinish

\* The two that go on after a DELETE.
LEMMA Dropped ==
  ASSUME IInv, NEW r \in Requests, NEW pc \in {"insertCode", "insertReset"},
         Go(r, [req[r] EXCEPT !.pc = pc]), req[r].pc # "done",
         users' = users, tokens' = tokens, UNCHANGED <<links, failures, history>>,
         codes' \in [Rows -> Code], resets' \in [Rows -> Reset], RestRefers
  PROVE  IInv'
<1>1. PICK q \in Request : q = req[r]
  BY DEF IInv, SchemaKept, TypeOK
<1>2. PICK new : new = [q EXCEPT !.pc = pc]
  OBVIOUS
<1>3. new \in Request /\ new.pc = pc /\ new.list = q.list
  BY <1>2 DEF Request, Steps
<1>4. RequestOK(r, q) /\ q.pc # "done"
  BY <1>1 DEF IInv, RequestsOK
<1>5. RequestOK(r, new) /\ \A s : Apart(new, s)
  BY <1>3, <1>4 DEF RequestOK, Apart
<1>6. req' = [req EXCEPT ![r] = new] /\ overlapped' = overlapped
  BY <1>1, <1>2 DEF Go
<1>7. req' \in [Requests -> Request]
  BY <1>3, <1>6 DEF IInv, SchemaKept, TypeOK
<1>8. TypeOK'
  BY <1>6, <1>7 DEF IInv, SchemaKept, TypeOK, history
<1> QED
  BY <1>3, <1>5, <1>6, <1>8, Unchanging, Mild DEF RestRefers, CodesReferTo, UsersKept

LEMMA DropCodesIInv ==
  ASSUME IInv, NEW r \in Requests, DropCodes(r)
  PROVE  IInv'
<1>1. PICK u \in Users \cup {None} : u = req[r].user
  BY RequestTyped
<1>2. /\ Go(r, [req[r] EXCEPT !.pc = "insertCode"]) /\ req[r].pc # "done"
      /\ users' = users /\ tokens' = tokens /\ resets' = resets
      /\ UNCHANGED <<links, failures, history>>
      /\ codes' = DeleteCodes(codes, u)
  BY <1>1 DEF DropCodes, At
<1>3. RestRefers
  BY <1>2, CodesRefer DEF RestRefers
<1>4. codes \in [Rows -> Code] /\ resets' \in [Rows -> Reset]
  BY <1>2 DEF IInv, SchemaKept, TypeOK
<1>5. codes' \in [Rows -> Code]
  BY <1>2, <1>4, RequestTyped, CodesTyped
<1> QED
  BY <1>2, <1>3, <1>4, <1>5, Dropped

LEMMA DropResetsIInv ==
  ASSUME IInv, NEW r \in Requests, DropResets(r)
  PROVE  IInv'
<1>1. PICK u \in Users \cup {None} : u = req[r].user
  BY RequestTyped
<1>2. /\ Go(r, [req[r] EXCEPT !.pc = "insertReset"]) /\ req[r].pc # "done"
      /\ users' = users /\ tokens' = tokens /\ codes' = codes
      /\ UNCHANGED <<links, failures, history>>
      /\ resets' = DeleteResets(resets, u)
  BY <1>1 DEF DropResets, At
<1>3. RestRefers
  BY <1>2, CodesRefer DEF RestRefers
<1>4. codes' \in [Rows -> Code] /\ resets \in [Rows -> Reset]
  BY <1>2 DEF IInv, SchemaKept, TypeOK
<1>5. resets' \in [Rows -> Reset]
  BY <1>2, <1>4, RequestTyped, ResetsTyped
<1> QED
  BY <1>2, <1>3, <1>4, <1>5, Dropped

LEMMA WindowPassesIInv ==
  ASSUME IInv, NEW e \in Emails, WindowPasses(e)
  PROVE  IInv'
<1>1. /\ users' = users /\ tokens' = tokens /\ codes' = codes /\ resets' = resets
      /\ links' = links /\ req' = req
  BY DEF WindowPasses
<1>2. TypeOK'
  BY <1>1 DEF WindowPasses, IInv, SchemaKept, TypeOK
<1>3. OneUserPerEmail' /\ NoOrphans'
  BY <1>1 DEF IInv, SchemaKept, OneUserPerEmail, NoOrphans, Live
<1>4. ReplacedIsRevoked' /\ TokensOwned' /\ Exclusive'
  BY <1>1 DEF IInv, ReplacedIsRevoked, TokensOwned, Exclusive
<1>5. RequestsOK'
  BY <1>1 DEF IInv, RequestsOK, RequestOK, Replaceable, GetByEmail, Live
<1> QED
  BY <1>2, <1>3, <1>4, <1>5 DEF IInv, SchemaKept
-----------------------------------------------------------------------------
(***************************************************************************)
(* The requests that end with a new token.                                 *)
(***************************************************************************)
LEMMA RevokeNone ==
  ASSUME NEW old \in [Rows -> Token]
  PROVE  RevokeTokens(old, {None}) = old
  BY Constants DEF RevokeTokens

LEMMA NewSessionTyped ==
  ASSUME IInv, NEW r \in Requests, NEW u, NEW pw \in Nat, NewSession(r, u, pw)
  PROVE  /\ root' \in [Rows -> Rows] /\ knows' \in [Rows -> Nat]
         /\ UNCHANGED <<guesses, uses, faults>>
<1>1. r \in Rows /\ root \in [Rows -> Rows] /\ knows \in [Rows -> Nat]
  BY Constants DEF IInv, SchemaKept, TypeOK
<1> QED
  BY <1>1 DEF NewSession

TokenUser(old, new, u, e) ==   \* the user a token is made for, after it
  /\ new[u].life = "live"
  /\ \A v \in Users : v # u => new[v].life = old[v].life /\ new[v].email = old[v].email
  /\ \/ old[u].life = "live" /\ new[u].email = old[u].email
     \/ new[u].email = e

LEMMA CreateUserTyped ==
  ASSUME NEW old \in [Users -> User], NEW u \in Users, NEW e \in Emails \cup {None},
         NEW row \in User, row.life = "live", row.email = e,
         NEW new, new = [old EXCEPT ![u] = row]
  PROVE  new \in [Users -> User] /\ TokenUser(old, new, u, e) /\ new[u].email = e
  BY DEF TokenUser

LEMMA LinkTyped ==
  ASSUME NEW old \in [Identities -> Users \cup {None}], NEW i, NEW u \in Users
  PROVE  /\ CreateOAuthAccount(old, i, u) \in [Identities -> Users \cup {None}]
         /\ \A j \in Identities : CreateOAuthAccount(old, i, u)[j] \in {u, old[j]}
<1>1. CASE i \in Identities
  BY <1>1 DEF CreateOAuthAccount
<1>2. CASE i \notin Identities
  BY <1>2 DEF CreateOAuthAccount
<1> QED
  BY <1>1, <1>2

\* The types after one of these requests, from what it has written.
LEMMA TokenAddedTyped ==
  ASSUME IInv, NEW r \in Requests, Finish(r), req[r].pc # "done",
         NEW u \in Users, NEW p \in Rows \cup {None},
         TokenEnters(r, u, p), OthersFollow(u), UserEnters(r, u),
         users' \in [Users -> User], codes' \in [Rows -> Code],
         links' \in [Identities -> Users \cup {None}], failures' = failures,
         root' \in [Rows -> Rows], knows' \in [Rows -> Nat],
         UNCHANGED <<guesses, uses, faults>>
  PROVE  IInv'
<1>1. req' = [req EXCEPT ![r] = Done] /\ overlapped' = overlapped
  BY DEF Finish, Go
<1>2. req' \in [Requests -> Request] /\ overlapped' \in BOOLEAN
  BY <1>1, RequestRecords DEF IInv, SchemaKept, TypeOK
<1>3. tokens \in [Rows -> Token] /\ r \in Rows /\ resets \in [Rows -> Reset]
  BY Constants DEF IInv, SchemaKept, TypeOK
<1>4. RevokeTokens(tokens, {p}) \in [Rows -> Token]
  BY <1>3, RevokeTyped
<1>5. tokens' \in [Rows -> Token]
  BY <1>3, <1>4, CreateTokenTyped DEF TokenEnters
<1>6. resets' \in [Rows -> Reset]
  BY <1>3 DEF OthersFollow
<1>7. TypeOK'
  BY <1>2, <1>5, <1>6 DEF IInv, SchemaKept, TypeOK
<1> QED
  BY <1>1, <1>7, TokenAdded

\* A user that there is, and whose row at most a flag of changes.
LEMMA LiveEnters ==
  ASSUME IInv, NEW r \in Requests, NEW u \in Users, users[u].life = "live",
         UsersKept
  PROVE  UserEnters(r, u)
  BY DEF UsersKept, Kept, UserEnters

LEMMA IssueTokenIInv ==
  ASSUME IInv, NEW r \in Requests, IssueToken(r)
  PROVE  IInv'
<1>1. PICK q \in Request : q = req[r]
  BY DEF IInv, SchemaKept, TypeOK
<1>2. RequestOK(r, q) /\ q.pc = "issue"
  BY <1>1 DEF IInv, RequestsOK, IssueToken, At
<1>3. PICK u \in Users : u = q.user
  BY <1>2 DEF RequestOK
<1>4. /\ Finish(r) /\ users' = users /\ codes' = codes /\ resets' = resets
      /\ links' = links /\ failures' = failures
  BY DEF IssueToken
<1>5. CASE users[u].life = "live"
  <2>1. PICK pw \in Nat : pw = q.pw
    BY DEF Request
  <2>2. tokens' = CreateToken(tokens, r, u, None) /\ NewSession(r, u, pw)
    BY <1>1, <1>3, <1>5, <2>1 DEF IssueToken
  <2>3. TokenEnters(r, u, None)
    BY <2>2, RevokeNone DEF TokenEnters, IInv, SchemaKept, TypeOK
  <2>4. OthersFollow(u)
    BY <1>4 DEF OthersFollow
  <2>5. UserEnters(r, u)
    BY <1>4, <1>5, LiveEnters, Unchanging
  <2>6. /\ users' \in [Users -> User] /\ codes' \in [Rows -> Code]
        /\ links' \in [Identities -> Users \cup {None}]
    BY <1>4 DEF IInv, SchemaKept, TypeOK
  <2>7. req[r].pc # "done"
    BY <1>1, <1>2
  <2> QED
    BY <1>4, <2>2, <2>3, <2>4, <2>5, <2>6, <2>7, NewSessionTyped, TokenAddedTyped
<1>6. CASE users[u].life # "live"
  <2>1. UNCHANGED <<db, history>>
    BY <1>1, <1>3, <1>4, <1>6 DEF IssueToken, db, history
  <2> QED
    BY <1>4, <2>1, FinishIInv
<1> QED
  BY <1>5, <1>6

LEMMA RotateIInv ==
  ASSUME IInv, NEW r \in Requests, Rotate(r)
  PROVE  IInv'
<1>1. PICK q \in Request : q = req[r]
  BY DEF IInv, SchemaKept, TypeOK
<1>2. RequestOK(r, q) /\ q.pc = "rotate"
  BY <1>1 DEF IInv, RequestsOK, Rotate, At
<1>3. PICK u \in Users, p \in Rows : u = q.user /\ p = q.row
  BY <1>2 DEF RequestOK, Replaceable
<1>4. /\ Finish(r) /\ users' = users /\ codes' = codes /\ resets' = resets
      /\ links' = links /\ failures' = failures
  BY DEF Rotate
<1>5. CASE users[u].life = "live"
  <2>1. /\ tokens' = CreateToken(RevokeTokens(tokens, {p}), r, u, p)
        /\ root' = [root EXCEPT ![r] = root[p]]
        /\ knows' = [knows EXCEPT ![r] = knows[p]]
        /\ UNCHANGED <<guesses, uses, faults>>
    BY <1>1, <1>3, <1>5 DEF Rotate, Revoke, Child
  <2>2. root' \in [Rows -> Rows] /\ knows' \in [Rows -> Nat]
    BY <2>1 DEF IInv, SchemaKept, TypeOK
  <2>3. TokenEnters(r, u, p)
    BY <1>2, <1>3, <1>5, <2>1 DEF TokenEnters, RequestOK, Replaceable
  <2>4. OthersFollow(u)
    BY <1>4 DEF OthersFollow
  <2>5. UserEnters(r, u)
    BY <1>4, <1>5, LiveEnters, Unchanging
  <2>6. /\ users' \in [Users -> User] /\ codes' \in [Rows -> Code]
        /\ links' \in [Identities -> Users \cup {None}]
    BY <1>4 DEF IInv, SchemaKept, TypeOK
  <2>7. req[r].pc # "done"
    BY <1>1, <1>2
  <2> QED
    BY <1>4, <2>1, <2>2, <2>3, <2>4, <2>5, <2>6, <2>7, TokenAddedTyped
<1>6. CASE users[u].life # "live"
  <2>1. UNCHANGED <<db, history>>
    BY <1>1, <1>3, <1>4, <1>6 DEF Rotate, db, history
  <2> QED
    BY <1>4, <2>1, FinishIInv
<1> QED
  BY <1>5, <1>6

LEMMA CommitLinkIInv ==
  ASSUME IInv, NEW r \in Requests, CommitLink(r)
  PROVE  IInv'
<1>1. PICK q \in Request : q = req[r]
  BY DEF IInv, SchemaKept, TypeOK
<1>2. RequestOK(r, q) /\ q.pc = "commitLink" /\ req[r].pc # "done"
  BY <1>1 DEF IInv, RequestsOK, CommitLink, At
<1>3. PICK u \in Users : u = q.user
  BY <1>2 DEF RequestOK
<1>4. users \in [Users -> User] /\ users[u].life = "live" /\ users[u].password \in Nat
  BY <1>2, <1>3 DEF RequestOK, IInv, SchemaKept, TypeOK, User
<1>5. PICK pw \in Nat : pw = users[u].password
  BY <1>4
<1>6. /\ Finish(r) /\ users' = MarkEmailVerified(users, u)
      /\ codes' = codes /\ resets' = resets /\ failures' = failures
      /\ links' = CreateOAuthAccount(links, q.identity, u)
      /\ tokens' = CreateToken(tokens, r, u, None) /\ NewSession(r, u, pw)
  BY <1>1, <1>3, <1>5 DEF CommitLink
<1>7. TokenEnters(r, u, None)
  BY <1>6, RevokeNone DEF TokenEnters, IInv, SchemaKept, TypeOK
<1>8. /\ links' \in [Identities -> Users \cup {None}]
      /\ \A j \in Identities : links'[j] \in {u, links[j]}
  BY <1>6, LinkTyped DEF IInv, SchemaKept, TypeOK
<1>9. OthersFollow(u) /\ codes' \in [Rows -> Code]
  BY <1>6, <1>8 DEF OthersFollow, IInv, SchemaKept, TypeOK
<1>10. UsersKept /\ users' \in [Users -> User]
  BY <1>4, <1>6, UpdatesKeep DEF UsersKept
<1>11. UserEnters(r, u)
  BY <1>4, <1>10, LiveEnters
<1> QED
  BY <1>2, <1>6, <1>7, <1>8, <1>9, <1>10, <1>11, NewSessionTyped, TokenAddedTyped

LEMMA CommitRegisterIInv ==
  ASSUME IInv, NEW r \in Requests, CommitRegister(r)
  PROVE  IInv'
<1>1. PICK q \in Request : q = req[r]
  BY DEF IInv, SchemaKept, TypeOK
<1>2. RequestOK(r, q) /\ q.pc = "commitUser" /\ req[r].pc # "done"
  BY <1>1 DEF IInv, RequestsOK, CommitRegister, At
<1>3. PICK u \in Users, e \in Emails \cup {None} : u = q.user /\ e = q.email
  BY <1>2 DEF RequestOK, Request
<1>4. /\ Finish(r) /\ users' = CreateUser(users, u, e, 1, FALSE)
      /\ codes' = CreateCode(codes, r, u)
      /\ links' = links /\ resets' = resets /\ failures' = failures
      /\ tokens' = CreateToken(tokens, r, u, None) /\ NewSession(r, u, 1)
  BY <1>1, <1>3 DEF CommitRegister
<1>5. TokenEnters(r, u, None)
  BY <1>4, RevokeNone DEF TokenEnters, IInv, SchemaKept, TypeOK
<1>6. /\ codes \in [Rows -> Code] /\ r \in Rows
      /\ links' \in [Identities -> Users \cup {None}]
  BY <1>4, Constants DEF IInv, SchemaKept, TypeOK
<1>7. codes' \in [Rows -> Code]
  BY <1>4, <1>6, CodesTyped
<1>8. \A c \in Rows : codes'[c].user \in {u, codes[c].user}
  <2>1. PICK new : new = [life |-> "active", user |-> u, attempts |-> 0,
                          at |-> 1 + Cardinality({d \in Rows : codes[d].at > 0})]
    OBVIOUS
  <2>2. new.user = u /\ codes' = [codes EXCEPT ![r] = new]
    BY <1>4, <2>1 DEF CreateCode
  <2> QED
    BY <1>6, <2>2
<1>9. OthersFollow(u)
  BY <1>4, <1>8 DEF OthersFollow
<1>10. /\ users' \in [Users -> User] /\ TokenUser(users, users', u, e)
       /\ users'[u].email = e
  <2>1. PICK row : row = [life |-> "live", email |-> e, password |-> 1,
                          verified |-> FALSE, pending |-> FALSE]
    OBVIOUS
  <2>2. row \in User /\ row.life = "live" /\ row.email = e
    BY <2>1 DEF User
  <2>3. users' = [users EXCEPT ![u] = row]
    BY <1>4, <2>1 DEF CreateUser
  <2> QED
    BY <2>2, <2>3, CreateUserTyped DEF IInv, SchemaKept, TypeOK
<1>11. UserEnters(r, u)
  BY <1>1, <1>2, <1>3, <1>10 DEF UserEnters, TokenUser, At
<1> QED
  BY <1>2, <1>4, <1>5, <1>6, <1>7, <1>9, <1>10, <1>11, NewSessionTyped, TokenAddedTyped

LEMMA CommitOAuthUserIInv ==
  ASSUME IInv, NEW r \in Requests, CommitOAuthUser(r)
  PROVE  IInv'
<1>1. PICK q \in Request : q = req[r]
  BY DEF IInv, SchemaKept, TypeOK
<1>2. RequestOK(r, q) /\ q.pc = "commitUser" /\ req[r].pc # "done"
  BY <1>1 DEF IInv, RequestsOK, CommitOAuthUser, At
<1>3. PICK u \in Users, e \in Emails \cup {None} : u = q.user /\ e = q.email
  BY <1>2 DEF RequestOK, Request
<1>4. PICK i : i = q.identity
  OBVIOUS
<1>5. Finish(r) /\ codes' = codes /\ resets' = resets /\ failures' = failures
  BY DEF CommitOAuthUser
<1>6. CASE links[i] # None
  <2>1. UNCHANGED <<db, history>>
    BY <1>1, <1>4, <1>5, <1>6 DEF CommitOAuthUser, db, history
  <2> QED
    BY <1>5, <2>1, FinishIInv
<1>7. CASE links[i] = None
  <2>1. /\ users' = CreateUser(users, u, e, 0, TRUE)
        /\ links' = CreateOAuthAccount(links, i, u)
        /\ tokens' = CreateToken(tokens, r, u, None) /\ NewSession(r, u, 0)
    BY <1>1, <1>3, <1>4, <1>7 DEF CommitOAuthUser
  <2>2. TokenEnters(r, u, None)
    BY <2>1, RevokeNone DEF TokenEnters, IInv, SchemaKept, TypeOK
  <2>3. /\ links' \in [Identities -> Users \cup {None}]
        /\ \A j \in Identities : links'[j] \in {u, links[j]}
    BY <2>1, LinkTyped DEF IInv, SchemaKept, TypeOK
  <2>4. OthersFollow(u) /\ codes' \in [Rows -> Code]
    BY <1>5, <2>3 DEF OthersFollow, IInv, SchemaKept, TypeOK
  <2>5. /\ users' \in [Users -> User] /\ TokenUser(users, users', u, e)
        /\ users'[u].email = e
    <3>1. PICK row : row = [life |-> "live", email |-> e, password |-> 0,
                            verified |-> TRUE, pending |-> FALSE]
      OBVIOUS
    <3>2. row \in User /\ row.life = "live" /\ row.email = e
      BY <3>1 DEF User
    <3>3. users' = [users EXCEPT ![u] = row]
      BY <2>1, <3>1 DEF CreateUser
    <3> QED
      BY <3>2, <3>3, CreateUserTyped DEF IInv, SchemaKept, TypeOK
  <2>6. UserEnters(r, u)
    BY <1>1, <1>2, <1>3, <2>5 DEF UserEnters, TokenUser, At
  <2> QED
    BY <1>2, <1>5, <2>1, <2>2, <2>3, <2>4, <2>5, <2>6, NewSessionTyped, TokenAddedTyped
<1> QED
  BY <1>6, <1>7
-----------------------------------------------------------------------------
(***************************************************************************)
(* An account is deleted, and with it what refers to it.  The requests     *)
(* that hold the user wait for none of it: the foreign key of a link on    *)
(* its way keeps the user, and a user on its way is nobody's to delete.    *)
(***************************************************************************)
LEMMA PurgeTyped ==
  ASSUME TypeOK, NEW u \in Users
  PROVE  /\ DeleteUser(users, u) \in [Users -> User]
         /\ CascadeTokens(tokens, u) \in [Rows -> Token]
         /\ CascadeLinks(links, u) \in [Identities -> Users \cup {None}]
  BY Constants DEF TypeOK, DeleteUser, CascadeTokens, CascadeLinks, FreeUser, FreeToken,
                   User, Token

LEMMA PurgeUserIInv ==
  ASSUME IInv, NEW r \in Requests, NEW u \in Users, PurgeUser(r, u)
  PROVE  IInv'
<1>1. /\ users' = DeleteUser(users, u) /\ tokens' = CascadeTokens(tokens, u)
      /\ codes' = DeleteCodes(codes, u) /\ resets' = DeleteResets(resets, u)
      /\ links' = CascadeLinks(links, u) /\ failures' = failures
      /\ UNCHANGED history /\ Purged(r, u) /\ u \in req[r].list
  BY DEF PurgeUser
<1>2. users[u].life # "free" /\ \E new \in Request : PurgesOn(r, new)
  BY <1>1, PurgeGoesOn DEF PurgeUser
<1>3. PICK new \in Request : PurgesOn(r, new)
  BY <1>2
<1>4. TypeOK'
  <2>1. codes' \in [Rows -> Code] /\ resets' \in [Rows -> Reset]
    BY <1>1, CodesTyped, ResetsTyped, RequestTyped DEF IInv, SchemaKept, TypeOK
  <2>2. /\ users' \in [Users -> User] /\ tokens' \in [Rows -> Token]
        /\ links' \in [Identities -> Users \cup {None}]
    BY <1>1, PurgeTyped DEF IInv, SchemaKept
  <2>3. req' \in [Requests -> Request] /\ overlapped' = overlapped
    BY <1>1, <1>3 DEF PurgesOn, Purged, Go, IInv, SchemaKept, TypeOK
  <2> QED
    BY <1>1, <2>1, <2>2, <2>3 DEF history, IInv, SchemaKept, TypeOK
<1>5. /\ users'[u].life = "deleted"
      /\ \A v \in Users : v # u => users'[v] = users[v]
  BY <1>1 DEF DeleteUser, FreeUser, IInv, SchemaKept, TypeOK
<1>6. \A t \in Rows :
        \/ tokens[t].user # u /\ tokens'[t] = tokens[t]
        \/ /\ tokens[t].user = u /\ tokens'[t].life = "deleted"
           /\ tokens'[t].user = None /\ tokens'[t].parent = None
  <2> DEFINE gone == [FreeToken EXCEPT !.life = "deleted"]
  <2>1. gone.life = "deleted" /\ gone.user = None /\ gone.parent = None
    BY DEF FreeToken
  <2>2. tokens' = [t \in Rows |-> IF tokens[t].user = u THEN gone ELSE tokens[t]]
    BY <1>1 DEF CascadeTokens
  <2> HIDE DEF gone
  <2> QED
    BY <2>1, <2>2
<1>7. OneUserPerEmail'
  BY <1>5 DEF IInv, SchemaKept, OneUserPerEmail, Live
<1>8. NoOrphans'
  <2>1. \A c \in Rows : codes'[c].user # None => users'[codes'[c].user].life = "live"
    <3> SUFFICES ASSUME NEW c \in Rows, codes'[c].user # None
                 PROVE  users'[codes'[c].user].life = "live"
      OBVIOUS
    <3>1. codes[c].user # u /\ codes'[c] = codes[c] /\ codes[c].user \in Users \cup {None}
      BY <1>1 DEF DeleteCodes, FreeCode, IInv, SchemaKept, TypeOK, Code
    <3> QED
      BY <1>5, <3>1 DEF IInv, SchemaKept, NoOrphans
  <2>2. \A c \in Rows : resets'[c].user # None => users'[resets'[c].user].life = "live"
    <3> SUFFICES ASSUME NEW c \in Rows, resets'[c].user # None
                 PROVE  users'[resets'[c].user].life = "live"
      OBVIOUS
    <3>1. /\ resets[c].user # u /\ resets'[c] = resets[c]
          /\ resets[c].user \in Users \cup {None}
      BY <1>1 DEF DeleteResets, FreeReset, IInv, SchemaKept, TypeOK, Reset
    <3> QED
      BY <1>5, <3>1 DEF IInv, SchemaKept, NoOrphans
  <2>3. \A t \in Rows : tokens'[t].user # None => users'[tokens'[t].user].life = "live"
    BY <1>5, <1>6 DEF IInv, SchemaKept, NoOrphans, TypeOK, Token
  <2>4. \A i \in Identities : links'[i] # None => users'[links'[i]].life = "live"
    BY <1>1, <1>5 DEF CascadeLinks, IInv, SchemaKept, NoOrphans, TypeOK
  <2> QED
    BY <2>1, <2>2, <2>3, <2>4 DEF NoOrphans
<1>9. ReplacedIsRevoked'
  <2> SUFFICES ASSUME NEW t \in Rows, tokens'[t].parent # None
               PROVE  /\ tokens'[tokens'[t].parent].life = "revoked"
                      /\ tokens'[tokens'[t].parent].user = tokens'[t].user
    BY DEF ReplacedIsRevoked
  <2>1. tokens[t].user # u /\ tokens'[t] = tokens[t] /\ tokens[t].parent # None
    BY <1>6
  <2>2. PICK o \in Rows : o = tokens[t].parent
    BY <2>1 DEF IInv, SchemaKept, TypeOK, Token
  <2>3. tokens[o].life = "revoked" /\ tokens[o].user = tokens[t].user
    BY <2>1, <2>2 DEF IInv, ReplacedIsRevoked
  <2> QED
    BY <1>6, <2>1, <2>2, <2>3
<1>10. TokensOwned'
  BY <1>6 DEF IInv, TokensOwned
<1>11. RequestsOK'
  <2> SUFFICES ASSUME NEW s \in Requests  PROVE RequestOK(s, req[s])'
    BY DEF RequestsOK
  <2>1. PICK q \in Request : q = req'[s]
    BY <1>4 DEF TypeOK
  <2>2. RequestOK(s, q)
    BY <1>3, <2>1 DEF PurgesOn, IInv, RequestsOK, SchemaKept, TypeOK
  <2>3. q.pc = "commitLink" => q.user # u
    BY <1>3, <2>1 DEF PurgesOn, PurgeUser, RefersTo, IInv, SchemaKept, TypeOK
  <2>4. q.pc = "commitLink" => users'[q.user].life = "live"
    BY <1>5, <2>2, <2>3 DEF RequestOK
  <2>5. q.pc # "done" => tokens'[s].life = "free"
    BY <1>6, <2>2, Constants DEF RequestOK, IInv, TokensOwned
  <2>6. q.pc = "commitUser" => /\ users'[q.user].life = "free"
                               /\ GetByEmail(users', q.email) = {}
    BY <1>2, <1>5, <2>2 DEF RequestOK, GetByEmail, Live
  <2>7. q.pc \in {"revoke", "rotate"} => Replaceable(q.row, q.user)'
    BY <1>5, <1>6, <2>2 DEF RequestOK, Replaceable
  <2>8. \A v \in q.list : users'[v].life # "free"
    BY <1>5, <2>2 DEF RequestOK, Request
  <2>9. RequestOK(s, q)'
    BY <2>2, <2>4, <2>5, <2>6, <2>7, <2>8 DEF RequestOK
  <2> QED
    BY <2>1, <2>9
<1>12. Exclusive'
  BY <1>3 DEF PurgesOn, IInv, Exclusive, Apart, SchemaKept, TypeOK
<1> QED
  BY <1>4, <1>7, <1>8, <1>9, <1>10, <1>11, <1>12 DEF IInv, SchemaKept
-----------------------------------------------------------------------------
(***************************************************************************)
(* The beginning: at most one account, and at most the row Old.            *)
(***************************************************************************)
LEMMA OldRowIs ==
  ASSUME NEW Free, NEW states, NEW tab \in OldOf(Free, states),
         tab # [t \in Rows |-> Free]
  PROVE  \E u \in Users, l \in states :
           users[u].life = "live" /\ tab = OldRow(Free, u, l)
  BY DEF OldOf, Live

LEMMA InitUsersTyped ==
  ASSUME users \in InitUsers
  PROVE  users \in [Users -> User] /\ OneUserPerEmail
<1>1. FreeUser \in User /\ FreeUser.life # "live"
  BY DEF FreeUser, User
<1>2. Account \subseteq User
  BY DEF Account, User
<1>3. CASE users = [v \in Users |-> FreeUser]
  BY <1>1, <1>3 DEF OneUserPerEmail, Live
<1>4. CASE users # [v \in Users |-> FreeUser]
  <2>1. PICK u \in Users, a \in Account :
          users = [v \in Users |-> IF v = u THEN a ELSE FreeUser]
    BY <1>4 DEF InitUsers
  <2>2. users \in [Users -> User]
    BY <1>1, <1>2, <2>1
  <2>3. \A v \in Users : users[v].life = "live" => v = u
    BY <1>1, <2>1
  <2> QED
    BY <2>2, <2>3 DEF OneUserPerEmail, Live
<1> QED
  BY <1>3, <1>4

LEMMA InitTables ==
  ASSUME Init
  PROVE  /\ codes \in [Rows -> Code] /\ resets \in [Rows -> Reset]
         /\ CodesReferTo(codes) /\ CodesReferTo(resets)
<1>1. /\ codes \in [Rows -> Code] /\ CodesReferTo(codes)
  <2>1. codes \in OldOf(FreeCode, {"active"})
    BY DEF Init
  <2>2. CASE codes = [t \in Rows |-> FreeCode]
    BY <2>2, Constants DEF FreeCode, Code, CodesReferTo
  <2>3. CASE codes # [t \in Rows |-> FreeCode]
    <3>1. PICK u \in Users : users[u].life = "live" /\ codes = OldRow(FreeCode, u, "active")
      BY <2>1, <2>3, OldRowIs
    <3>2. PICK row : row = [FreeCode EXCEPT !.life = "active", !.user = u]
      OBVIOUS
    <3>3. row \in Code /\ row.user = u /\ FreeCode \in Code /\ FreeCode.user = None
      BY <3>2 DEF FreeCode, Code
    <3>4. codes = [t \in Rows |-> IF t = Old THEN row ELSE FreeCode]
      BY <3>1, <3>2 DEF OldRow
    <3> QED
      BY <3>1, <3>3, <3>4 DEF CodesReferTo
  <2> QED
    BY <2>2, <2>3
<1>2. /\ resets \in [Rows -> Reset] /\ CodesReferTo(resets)
  <2>1. resets \in OldOf(FreeReset, {"active"})
    BY DEF Init
  <2>2. CASE resets = [t \in Rows |-> FreeReset]
    BY <2>2, Constants DEF FreeReset, Reset, CodesReferTo
  <2>3. CASE resets # [t \in Rows |-> FreeReset]
    <3>1. PICK u \in Users : users[u].life = "live" /\ resets = OldRow(FreeReset, u, "active")
      BY <2>1, <2>3, OldRowIs
    <3>2. PICK row : row = [FreeReset EXCEPT !.life = "active", !.user = u]
      OBVIOUS
    <3>3. row \in Reset /\ row.user = u /\ FreeReset \in Reset /\ FreeReset.user = None
      BY <3>2 DEF FreeReset, Reset
    <3>4. resets = [t \in Rows |-> IF t = Old THEN row ELSE FreeReset]
      BY <3>1, <3>2 DEF OldRow
    <3> QED
      BY <3>1, <3>3, <3>4 DEF CodesReferTo
  <2> QED
    BY <2>2, <2>3
<1> QED
  BY <1>1, <1>2

LEMMA InitTokens ==
  ASSUME Init
  PROVE  /\ tokens \in [Rows -> Token] /\ CodesReferTo(tokens) /\ TokensOwned
         /\ \A t \in Rows : tokens[t].parent = None
         /\ \A r \in Requests : tokens[r].life = "free"
<1>1. tokens \in OldOf(FreeToken, {"active", "revoked"})
  BY DEF Init
<1>2. /\ FreeToken \in Token /\ FreeToken.user = None /\ FreeToken.parent = None
      /\ FreeToken.life = "free"
  BY DEF FreeToken, Token
<1>3. CASE tokens = [t \in Rows |-> FreeToken]
  BY <1>2, <1>3, Constants DEF CodesReferTo, TokensOwned
<1>4. CASE tokens # [t \in Rows |-> FreeToken]
  <2>1. PICK u \in Users, l \in {"active", "revoked"} :
          users[u].life = "live" /\ tokens = OldRow(FreeToken, u, l)
    BY <1>1, <1>4, OldRowIs
  <2>2. PICK row : row = [FreeToken EXCEPT !.life = l, !.user = u]
    OBVIOUS
  <2>3. row \in Token /\ row.user = u /\ row.parent = None /\ row.life = l
    BY <2>2 DEF FreeToken, Token
  <2>4. tokens = [t \in Rows |-> IF t = Old THEN row ELSE FreeToken]
    BY <2>1, <2>2 DEF OldRow
  <2>5. tokens \in [Rows -> Token]
    BY <1>2, <2>3, <2>4
  <2>6. CodesReferTo(tokens)
    BY <1>2, <2>1, <2>3, <2>4 DEF CodesReferTo
  <2>7. TokensOwned
    BY <1>2, <2>3, <2>4, Constants DEF TokensOwned
  <2>8. (\A t \in Rows : tokens[t].parent = None) /\ \A r \in Requests : tokens[r].life = "free"
    BY <1>2, <2>3, <2>4, Constants
  <2> QED
    BY <2>5, <2>6, <2>7, <2>8
<1> QED
  BY <1>3, <1>4

LEMMA InitIInv ==
  ASSUME Init
  PROVE  IInv
<1>1. users \in [Users -> User] /\ OneUserPerEmail
  BY InitUsersTyped DEF Init
<1>2. /\ links \in [Identities -> Users \cup {None}]
      /\ \A i \in Identities : links[i] # None => users[links[i]].life = "live"
  <2>1. PICK o : o = IF \E u \in Users : users[u].life = "live" /\ users[u].password = 0
                       THEN CHOOSE u \in Users : users[u].life = "live" ELSE None
    OBVIOUS
  <2>2. o = None \/ (o \in Users /\ users[o].life = "live")
    BY <2>1
  <2>3. links = [i \in Identities |-> o]
    BY <2>1 DEF Init
  <2> QED
    BY <2>2, <2>3
<1>3. NoOrphans
  BY <1>2, InitTables, InitTokens DEF NoOrphans, CodesReferTo
<1>4. req = [r \in Requests |-> NewRequest]
  BY DEF Init
<1>5. knows \in [Rows -> Nat]
  <2> SUFFICES ASSUME NEW t \in Rows
               PROVE  (IF tokens[t].user = None THEN 0
                       ELSE users[tokens[t].user].password) \in Nat
    BY DEF Init
  <2>1. tokens[t].user \in Users \cup {None}
    BY InitTokens DEF Token
  <2> QED
    BY <1>1, <2>1 DEF User
<1>6. TypeOK
  <2>1. /\ codes \in [Rows -> Code] /\ resets \in [Rows -> Reset]
        /\ tokens \in [Rows -> Token]
    BY InitTables, InitTokens
  <2>2. failures \in [Emails -> Nat] /\ root \in [Rows -> Rows]
    BY DEF Init
  <2>3. guesses \in [Rows \cup Emails -> Nat] /\ uses \in [Rows -> Nat]
    BY DEF Init
  <2>4. faults \in 0..MaxFaults
    BY Constants, SMT DEF Init
  <2>5. overlapped \in BOOLEAN
    BY Zenon DEF Init
  <2>6. req \in [Requests -> Request]
    BY <1>4, RequestRecords
  <2> QED
    BY <1>1, <1>2, <1>5, <2>1, <2>2, <2>3, <2>4, <2>5, <2>6 DEF TypeOK
<1>7. ReplacedIsRevoked /\ TokensOwned
  BY InitTokens DEF ReplacedIsRevoked
<1>8. RequestsOK
  BY <1>4, InitTokens, RequestRecords DEF RequestsOK, RequestOK
<1>9. Exclusive
  BY <1>4, RequestRecords DEF Exclusive, Apart
<1> QED
  BY <1>1, <1>3, <1>6, <1>7, <1>8, <1>9 DEF IInv, SchemaKept
-----------------------------------------------------------------------------
LEMMA StutterIInv ==
  ASSUME IInv, UNCHANGED vars
  PROVE  IInv'
<1>1. UNCHANGED <<users, codes, resets, tokens, links, failures>>
  BY DEF vars, db
<1>2. /\ UNCHANGED <<root, knows, guesses, uses, faults>>
      /\ req' = req /\ overlapped' = overlapped
  BY DEF vars, history
<1>3. TypeOK'
  BY <1>1, <1>2 DEF IInv, SchemaKept, TypeOK
<1>4. OneUserPerEmail' /\ NoOrphans'
  BY <1>1 DEF IInv, SchemaKept, OneUserPerEmail, NoOrphans, Live
<1>5. ReplacedIsRevoked' /\ TokensOwned' /\ Exclusive'
  BY <1>1, <1>2 DEF IInv, ReplacedIsRevoked, TokensOwned, Exclusive
<1>6. RequestsOK'
  BY <1>1, <1>2 DEF IInv, RequestsOK, RequestOK, Replaceable, GetByEmail, Live
<1> QED
  BY <1>3, <1>4, <1>5, <1>6 DEF IInv, SchemaKept

LEMMA StepIInv ==
  ASSUME IInv, NEW r \in Requests, Step(r)
  PROVE  IInv'
<1>1. CASE \/ LoginPasses(r) \/ RefreshRevoke(r) \/ Sweep(r) \/ UpdateUser(r)
           \/ OAuthEmail(r) \/ LinkAccount(r)
  BY <1>1, ReadingSteps
<1>2. CASE \/ InsertUser(r) \/ CommitRegister(r) \/ CommitLink(r) \/ CommitOAuthUser(r)
  BY <1>2, InsertUserIInv, CommitRegisterIInv, CommitLinkIInv, CommitOAuthUserIInv
<1>3. CASE LoginFails(r) \/ IssueToken(r) \/ Rotate(r) \/ RevokeOne(r) \/ CommitSweep(r)
  BY <1>3, LoginFailsIInv, IssueTokenIInv, RotateIInv, RevokeOneIInv, CommitSweepIInv
<1>4. CASE DropCodes(r) \/ InsertCode(r) \/ DropResets(r) \/ InsertReset(r)
  BY <1>4, DropCodesIInv, InsertCodeIInv, DropResetsIInv, InsertResetIInv
<1>5. CASE WrongCode(r) \/ RightCode(r) \/ Cancel(r)
  BY <1>5, WrongCodeIInv, RightCodeIInv, CancelIInv
<1>6. CASE PurgeNothing(r) \/ \E u \in Users : PurgeUser(r, u) \/ PurgeSkips(r, u)
  BY <1>6, PurgeUserIInv, IdleSteps
<1> QED
  BY <1>1, <1>2, <1>3, <1>4, <1>5, <1>6 DEF Step

\* The invariant is inductive.
THEOREM Inductive == Spec => []IInv
<1>1. Init => IInv
  BY InitIInv
<1>2. IInv /\ [Next]_vars => IInv'
  <2> SUFFICES ASSUME IInv, [Next]_vars  PROVE IInv'
    OBVIOUS
  <2>1. ASSUME NEW r \in Requests, Arrive(r)  PROVE IInv'
    BY <2>1, ArriveIInv
  <2>2. ASSUME NEW r \in Requests, Step(r)  PROVE IInv'
    BY <2>2, StepIInv
  <2>3. ASSUME NEW r \in Requests, Abort(r)  PROVE IInv'
    BY <2>3, IdleSteps
  <2>4. ASSUME NEW e \in Emails, WindowPasses(e)  PROVE IInv'
    BY <2>4, WindowPassesIInv
  <2>5. CASE UNCHANGED vars
    BY <2>5, StutterIInv
  <2> QED
    BY <2>1, <2>2, <2>3, <2>4, <2>5 DEF Next
<1> QED
  BY <1>1, <1>2, PTL DEF Spec

\* The declarations of the tables are kept: their types, no two accounts of one
\* email though every request looks the email up before it inserts the user,
\* and no row that refers to a deleted account, whatever was on its way when
\* PurgeExpiredAccounts deleted it.
THEOREM SchemaIsKept == Spec => []SchemaKept
<1>1. IInv => SchemaKept
  BY DEF IInv
<1> QED
  BY <1>1, Inductive, PTL

\* A refresh token that RefreshToken has replaced stays revoked and its user's,
\* however many refreshes of it, logouts, sweeps and purges interleave.
THEOREM ReplacedStaysRevoked == Spec => []ReplacedIsRevoked
<1>1. IInv => ReplacedIsRevoked
  BY DEF IInv
<1> QED
  BY <1>1, Inductive, PTL
-----------------------------------------------------------------------------
(***************************************************************************)
(* Requests that do not overlap.  One is under way at a time (Serial), so  *)
(* that what it has read is still so at its next statement (Sure).         *)
(***************************************************************************)
Serial == \A r, s \in Requests : UnderWay(r) /\ UnderWay(s) => r = s

\* The user of a row is None where the row is free, and the user's rows of a
\* table that are active are one at most.
OneEach(table) ==
  /\ \A c \in Rows : table[c].life = "free" => table[c].user = None
  /\ \A c, d \in Rows : table[c].life = "active" /\ table[d].life = "active"
                          /\ table[c].user = table[d].user => c = d

NoneActive(table, u) == \A c \in Rows : table[c].life = "active" => table[c].user # u

CodesOK ==
  /\ OneEach(codes)
  /\ \A c \in Rows :
       /\ codes[c].life = "free" => guesses[c] = 0
       /\ codes[c].life = "active" => guesses[c] <= codes[c].attempts + faults
       /\ guesses[c] <= OTPMaxAttempts + faults

ResetsOK ==
  /\ OneEach(resets)
  /\ \A p \in Rows : /\ resets[p].life \in {"free", "active"} => uses[p] = 0
                     /\ uses[p] <= 1

FailuresOK ==
  LoginLockoutMaxFails > 0 =>
    \A e \in Emails : /\ failures[e] <= LoginLockoutMaxFails
                      /\ guesses[e] <= failures[e] + faults

Rooted == \A t \in Rows : root[t] # t => tokens[root[t]].life # "free"

SessionsOK ==
  /\ Rooted
  /\ \A s, t \in Rows : tokens[s].life = "active" /\ tokens[t].life = "active"
                          /\ root[s] = root[t] => s = t
  /\ \A t \in Rows : tokens[t].life = "active" =>
       tokens[t].user \in Users /\ knows[t] = users[tokens[t].user].password

Fresh(r, q) == q.pc # "done" => codes[r].life = "free" /\ resets[r].life = "free"

Sure(q) ==
  /\ q.pc = "check" => /\ q.row \in Rows /\ codes[q.row].life = "active"
                       /\ codes[q.row].attempts < OTPMaxAttempts
  /\ q.pc = "findUser" => /\ q.email \in Emails
                          /\ LoginLockoutMaxFails > 0
                               => failures[q.email] < LoginLockoutMaxFails
  /\ q.op = "reset" /\ q.pc \in Steps => q.row \in Rows /\ resets[q.row].life = "active"
  /\ q.pc \in {"dropResets", "purge"} => q.op # "reset"
  /\ q.pc \in {"dropCodes", "insertCode", "dropResets", "insertReset"} => q.user \in Users
  /\ q.pc = "insertCode" => NoneActive(codes, q.user)
  /\ q.pc = "insertReset" => NoneActive(resets, q.user)
  /\ q.pc \in {"revoke", "rotate"} =>
       /\ q.row \in Rows /\ tokens[q.row].life = "active"
       /\ tokens[q.row].user = q.user
  /\ q.pc = "issue" => q.user \in Users /\ q.pw = users[q.user].password
  /\ q.pc = "swept" => q.sees = ActiveTokens(tokens, q.user)

Held == \A r \in Requests : Fresh(r, req[r]) /\ Sure(req[r])

Alone == Serial /\ CodesOK /\ ResetsOK /\ FailuresOK /\ SessionsOK /\ Held

SInv == ~overlapped => Alone

\* What a step of such a request does, beside keeping the invariant.
KeepsClosed == \A x \in Rows : Closed(x) => Session(x)' = {}
-----------------------------------------------------------------------------
(***************************************************************************)
(* Tables whose active rows are one of each user, and sessions.            *)
(***************************************************************************)
Shrunk(before, after) ==   \* rows are used up or deleted
  \A c \in Rows : \/ after[c] = before[c]
                  \/ before[c].life # "free" /\ after[c].life \in {"consumed", "deleted"}

Grown(before, after, r, u) ==
  /\ after[r].life = "active" /\ after[r].user = u
  /\ \A c \in Rows : c # r => after[c] = before[c]

\* Rows that are used up or deleted leave one active row of a user at most.
LEMMA ShrunkOneEach ==
  ASSUME NEW before, NEW after, OneEach(before), Shrunk(before, after)
  PROVE  OneEach(after)
<1>1. \A c \in Rows : after[c].life \in {"free", "active"} => after[c] = before[c]
  BY DEF Shrunk
<1> QED
  BY <1>1 DEF OneEach

\* So does the row that is added for a user who has none.
LEMMA GrownOneEach ==
  ASSUME NEW before, NEW after, NEW r \in Rows, NEW u, OneEach(before),
         NoneActive(before, u), Grown(before, after, r, u)
  PROVE  OneEach(after)
  BY DEF OneEach, NoneActive, Grown

\* A user that no row refers to has no active row.
LEMMA NobodysRows ==
  ASSUME NEW u \in Users, IInv, users[u].life = "free"
  PROVE  NoneActive(codes, u) /\ NoneActive(resets, u) /\ \A t \in Rows : tokens[t].user # u
  BY Constants DEF IInv, SchemaKept, NoOrphans, NoneActive

\* What DELETE and the consumption of a code or a reset token do to a table.
LEMMA CodesShrink ==
  ASSUME TypeOK, OneEach(codes), NEW u \in Users, NEW c
  PROVE  Shrunk(codes, DeleteCodes(codes, u)) /\ Shrunk(codes, ConsumeCode(codes, c))
<1>1. \A d \in Rows : codes[d].user = u => codes[d].life # "free"
  BY Constants DEF OneEach
<1>2. [FreeCode EXCEPT !.life = "deleted"].life = "deleted"
  BY DEF FreeCode
<1>3. \A d \in Rows : [FreeCode EXCEPT !.life = "deleted", !.at = codes[d].at].life = "deleted"
  BY DEF FreeCode
<1>4. Shrunk(codes, DeleteCodes(codes, u))
  BY <1>1, <1>3 DEF Shrunk, DeleteCodes
<1>5. codes \in [Rows -> Code]
  BY DEF TypeOK
<1>6. Shrunk(codes, ConsumeCode(codes, c))
  BY <1>5 DEF Shrunk, ConsumeCode, Code
<1> QED
  BY <1>4, <1>6

LEMMA ResetsShrink ==
  ASSUME TypeOK, OneEach(resets), NEW u \in Users, NEW p
  PROVE  Shrunk(resets, DeleteResets(resets, u)) /\ Shrunk(resets, ConsumeReset(resets, p))
<1>1. \A d \in Rows : resets[d].user = u => resets[d].life # "free"
  BY Constants DEF OneEach
<1>2. [FreeReset EXCEPT !.life = "deleted"].life = "deleted"
  BY DEF FreeReset
<1>3. Shrunk(resets, DeleteResets(resets, u))
  BY <1>1, <1>2 DEF Shrunk, DeleteResets
<1>4. resets \in [Rows -> Reset]
  BY DEF TypeOK
<1>5. Shrunk(resets, ConsumeReset(resets, p))
  BY <1>4 DEF Shrunk, ConsumeReset, Reset
<1> QED
  BY <1>3, <1>5

\* What CREATE does to them.
LEMMA CodesGrow ==
  ASSUME TypeOK, NEW r \in Rows, NEW u
  PROVE  /\ Grown(codes, CreateCode(codes, r, u), r, u)
         /\ CreateCode(codes, r, u)[r].attempts = 0
  BY DEF TypeOK, Grown, CreateCode

LEMMA ResetsGrow ==
  ASSUME TypeOK, NEW r \in Rows, NEW u
  PROVE  Grown(resets, CreateReset(resets, r, u), r, u)
  BY DEF TypeOK, Grown, CreateReset

\* The guesses of the codes are counted whatever else is.
LEMMA CodesStay ==
  ASSUME TypeOK, TypeOK', CodesOK, Shrunk(codes, codes'),
         \A c \in Rows : guesses'[c] = guesses[c], faults <= faults'
  PROVE  CodesOK'
<1>1. OneEach(codes)'
  BY ShrunkOneEach DEF CodesOK
<1>2. /\ faults \in Nat /\ faults' \in Nat /\ OTPMaxAttempts \in Nat
      /\ \A c \in Rows : guesses[c] \in Nat /\ codes[c].attempts \in Nat
  BY Constants DEF TypeOK, Code
<1>3. \A c \in Rows : codes'[c].life \in {"free", "active"} => codes'[c] = codes[c]
  BY DEF Shrunk
<1>4. ASSUME NEW c \in Rows
      PROVE  /\ codes'[c].life = "free" => guesses'[c] = 0
             /\ codes'[c].life = "active" => guesses'[c] <= codes'[c].attempts + faults'
             /\ guesses'[c] <= OTPMaxAttempts + faults'
  <2>1. /\ codes[c].life = "free" => guesses[c] = 0
        /\ codes[c].life = "active" => guesses[c] <= codes[c].attempts + faults
        /\ guesses[c] <= OTPMaxAttempts + faults
    BY DEF CodesOK
  <2> QED
    BY <1>2, <1>3, <2>1
<1> QED
  BY <1>1, <1>4 DEF CodesOK

\* A code that is new has not been guessed.
LEMMA CodesAdded ==
  ASSUME TypeOK, CodesOK, NEW r \in Rows, NEW u, codes[r].life = "free",
         NoneActive(codes, u), codes' = CreateCode(codes, r, u),
         UNCHANGED <<guesses, faults>>
  PROVE  CodesOK'
<1>1. Grown(codes, codes', r, u) /\ codes'[r].attempts = 0
  BY CodesGrow
<1>2. OneEach(codes)'
  BY <1>1, GrownOneEach DEF CodesOK
<1>3. faults \in Nat /\ guesses[r] = 0 /\ OTPMaxAttempts \in Nat
  BY Constants DEF TypeOK, CodesOK
<1>4. ASSUME NEW c \in Rows
      PROVE  /\ codes'[c].life = "free" => guesses'[c] = 0
             /\ codes'[c].life = "active" => guesses'[c] <= codes'[c].attempts + faults'
             /\ guesses'[c] <= OTPMaxAttempts + faults'
  BY <1>1, <1>3 DEF CodesOK, Grown
<1> QED
  BY <1>2, <1>4 DEF CodesOK

\* Reset tokens that are used up or deleted, but for the one that sets a password.
LEMMA ResetsStay ==
  ASSUME ResetsOK, Shrunk(resets, resets'), uses' = uses
  PROVE  ResetsOK'
<1>1. OneEach(resets)'
  BY ShrunkOneEach DEF ResetsOK
<1>2. \A c \in Rows : resets'[c].life \in {"free", "active"} => resets'[c] = resets[c]
  BY DEF Shrunk
<1> QED
  BY <1>1, <1>2 DEF ResetsOK

LEMMA ResetsAdded ==
  ASSUME TypeOK, ResetsOK, NEW r \in Rows, NEW u, resets[r].life = "free",
         NoneActive(resets, u), resets' = CreateReset(resets, r, u), uses' = uses
  PROVE  ResetsOK'
<1>1. Grown(resets, resets', r, u)
  BY ResetsGrow
<1>2. OneEach(resets)'
  BY <1>1, GrownOneEach DEF ResetsOK
<1> QED
  BY <1>1, <1>2 DEF ResetsOK, Grown

LEMMA ResetsUsed ==
  ASSUME TypeOK, ResetsOK, NEW p \in Rows, resets[p].life = "active",
         resets' = ConsumeReset(resets, p), uses' = [uses EXCEPT ![p] = @ + 1]
  PROVE  ResetsOK'
<1>1. PICK u \in Users \cup {None} : u = resets[p].user
  BY DEF TypeOK, Reset
<1>2. resets'[p].life = "consumed" /\ \A c \in Rows : c # p => resets'[c] = resets[c]
  BY DEF TypeOK, Reset, ConsumeReset
<1>3. uses[p] = 0 /\ uses'[p] = 1 /\ \A c \in Rows : c # p => uses'[c] = uses[c]
  BY DEF TypeOK, ResetsOK
<1>4. Shrunk(resets, resets')
  BY <1>2 DEF Shrunk
<1>5. OneEach(resets)'
  BY <1>4, ShrunkOneEach DEF ResetsOK
<1>6. ASSUME NEW c \in Rows
      PROVE  /\ resets'[c].life \in {"free", "active"} => uses'[c] = 0
             /\ uses'[c] <= 1
  BY <1>2, <1>3 DEF ResetsOK
<1> QED
  BY <1>5, <1>6 DEF ResetsOK
-----------------------------------------------------------------------------
(***************************************************************************)
(* Sessions: tokens that are revoked or deleted, and tokens that are added.*)
(***************************************************************************)
Fewer(S) ==   \* of the rows in S, tokens are revoked or deleted
  \A t \in S : \/ tokens'[t] = tokens[t]
               \/ tokens[t].life # "free" /\ tokens'[t].life \in {"revoked", "deleted"}

PasswordsStay(S) ==   \* of the users whose tokens stay active
  \A t \in S : tokens'[t].life = "active"
    => users'[tokens[t].user].password = users[tokens[t].user].password

\* No token is added: what is closed stays so.
LEMMA SessionsStay ==
  ASSUME TypeOK, SessionsOK, Fewer(Rows), PasswordsStay(Rows), root' = root, knows' = knows
  PROVE  SessionsOK' /\ KeepsClosed
<1>1. \A t \in Rows : root[t] \in Rows
  BY DEF TypeOK
<1>2. \A t \in Rows : /\ tokens[t].life # "free" => tokens'[t].life # "free"
                      /\ tokens'[t].life = "active" => tokens'[t] = tokens[t]
  BY DEF Fewer
<1>3. Rooted'
  BY <1>1, <1>2 DEF SessionsOK, Rooted
<1>4. ASSUME NEW t \in Rows, tokens'[t].life = "active"
      PROVE  tokens'[t].user \in Users /\ knows'[t] = users'[tokens'[t].user].password
  BY <1>2, <1>4 DEF SessionsOK, PasswordsStay
<1>5. ASSUME NEW s \in Rows, NEW t \in Rows, tokens'[s].life = "active",
             tokens'[t].life = "active", root'[s] = root'[t]
      PROVE  s = t
  BY <1>2, <1>5 DEF SessionsOK
<1>6. KeepsClosed
  <2> SUFFICES ASSUME NEW x \in Rows, Closed(x)  PROVE Session(x)' = {}
    BY DEF KeepsClosed
  <2>1. \A t \in Rows : ~(root[t] = x /\ tokens[t].life = "active")
    BY DEF Closed, Session
  <2> QED
    BY <1>2, <2>1 DEF Session
<1> QED
  BY <1>3, <1>4, <1>5, <1>6 DEF SessionsOK

\* A token of x is added: x is a session of its own, or the only good token of
\* it was revoked by the same step.
Opens(x, r) ==
  \/ x = r
  \/ \E p \in Rows : /\ p # r /\ tokens[p].life = "active" /\ root[p] = x
                     /\ tokens'[p].life # "active"

LEMMA SessionsAdded ==
  ASSUME TypeOK, SessionsOK, NEW r \in Rows, NEW x \in Rows, NEW u \in Users,
         tokens[r].life = "free", tokens'[r].life = "active", tokens'[r].user = u,
         Fewer(Rows \ {r}), PasswordsStay(Rows \ {r}), Opens(x, r),
         root' = [root EXCEPT ![r] = x], knows' = [knows EXCEPT ![r] = users'[u].password]
  PROVE  SessionsOK' /\ KeepsClosed
<1>1. /\ \A t \in Rows : root[t] \in Rows
      /\ root'[r] = x /\ knows'[r] = users'[u].password
      /\ \A t \in Rows : t # r => root'[t] = root[t] /\ knows'[t] = knows[t]
  BY DEF TypeOK
<1>2. \A t \in Rows : tokens[t].life # "free" => t # r /\ tokens'[t].life # "free"
  BY DEF Fewer
<1>3. \A t \in Rows : t # r /\ tokens'[t].life = "active" => tokens'[t] = tokens[t]
  BY DEF Fewer
<1>4. \A t \in Rows : t # r => root[t] # r
  BY DEF SessionsOK, Rooted
<1>5. x # r => tokens[x].life # "free"
  <2>1. ASSUME x # r PROVE \E p \in Rows : tokens[p].life = "active" /\ root[p] = x
    BY <2>1 DEF Opens
  <2> QED
    BY <2>1 DEF SessionsOK, Rooted
<1>6. Rooted'
  <2>1. ASSUME NEW t \in Rows, root'[t] # t PROVE tokens'[root'[t]].life # "free"
    <3>1. CASE t = r
      BY <1>1, <1>2, <1>5, <2>1, <3>1
    <3>2. CASE t # r
      BY <1>1, <1>2, <2>1, <3>2 DEF SessionsOK, Rooted
    <3> QED
      BY <3>1, <3>2
  <2> QED
    BY <2>1 DEF Rooted
<1>7. \A t \in Rows : t # r /\ tokens'[t].life = "active" => root[t] # x
  <2>1. CASE x = r
    BY <1>4, <2>1
  <2>2. CASE x # r
    <3>1. PICK p \in Rows : /\ tokens[p].life = "active" /\ root[p] = x
                            /\ tokens'[p].life # "active"
      BY <2>2 DEF Opens
    <3> QED
      BY <1>3, <3>1 DEF SessionsOK
  <2> QED
    BY <2>1, <2>2
<1>8. ASSUME NEW t \in Rows, tokens'[t].life = "active"
      PROVE  tokens'[t].user \in Users /\ knows'[t] = users'[tokens'[t].user].password
  <2>1. CASE t = r
    BY <1>1, <2>1
  <2>2. CASE t # r
    BY <1>1, <1>3, <1>8, <2>2 DEF SessionsOK, PasswordsStay
  <2> QED
    BY <2>1, <2>2
<1>9. ASSUME NEW s \in Rows, NEW t \in Rows, tokens'[s].life = "active",
             tokens'[t].life = "active", root'[s] = root'[t]
      PROVE  s = t
  <2>1. CASE s # r /\ t # r
    BY <1>1, <1>3, <1>9, <2>1 DEF SessionsOK
  <2> QED
    BY <1>1, <1>7, <1>9, <2>1
<1>10. KeepsClosed
  <2> SUFFICES ASSUME NEW y \in Rows, Closed(y)  PROVE Session(y)' = {}
    BY DEF KeepsClosed
  <2>1. \A t \in Rows : ~(root[t] = y /\ tokens[t].life = "active")
    BY DEF Closed, Session
  <2>2. y # x
    <3>1. CASE x = r
      <4>1. PICK t \in Rows : root[t] = y /\ tokens[t].life = "revoked"
        BY DEF Closed
      <4> QED
        BY <1>4, <3>1, <4>1
    <3>2. CASE x # r
      BY <2>1, <3>2 DEF Opens
    <3> QED
      BY <3>1, <3>2
  <2>3. \A t \in Rows : ~(root'[t] = y /\ tokens'[t].life = "active")
    BY <1>1, <1>3, <2>1, <2>2
  <2> QED
    BY <2>3 DEF Session
<1> QED
  BY <1>6, <1>8, <1>9, <1>10 DEF SessionsOK
-----------------------------------------------------------------------------
(***************************************************************************)
(* One request at a time.                                                  *)
(***************************************************************************)
OnlyOne(r) == \A s \in Requests \ {r} : ~UnderWay(s)

After == Alone' /\ KeepsClosed

LEMMA Serially ==
  ASSUME Serial, NEW r \in Requests, UnderWay(r)
  PROVE  OnlyOne(r)
  BY DEF Serial, OnlyOne

\* A request that is not under way holds nothing.
LEMMA SureOfNothing ==
  ASSUME NEW q, q.pc \notin Steps
  PROVE  Sure(q) /\ Sure(q)'
  BY DEF Sure, Steps

LEMMA DoneHolds ==
  ASSUME NEW r
  PROVE  Sure(Done) /\ Sure(Done)' /\ Fresh(r, Done)'
<1>1. Done.pc = "done" /\ Done.pc \notin Steps
  BY RequestRecords DEF Steps
<1> QED
  BY <1>1, SureOfNothing DEF Fresh

RowsOfOthersStay(r) ==
  \A s \in Requests \ {r} : /\ codes[s].life = "free" => codes'[s].life = "free"
                            /\ resets[s].life = "free" => resets'[s].life = "free"

\* A request goes on and the others have nothing to lose.
LEMMA HeldAfter ==
  ASSUME TypeOK, Held, NEW r \in Requests, NEW new, OnlyOne(r),
         req' = [req EXCEPT ![r] = new], RowsOfOthersStay(r),
         Fresh(r, new)', Sure(new)'
  PROVE  Serial' /\ Held'
<1>1. req'[r] = new /\ \A s \in Requests \ {r} : req'[s] = req[s]
  BY DEF TypeOK
<1>2. Serial'
  BY <1>1 DEF Serial, OnlyOne, UnderWay
<1>3. ASSUME NEW s \in Requests
      PROVE  Fresh(s, req[s])' /\ Sure(req[s])'
  <2>1. CASE s = r
    BY <1>1, <2>1 DEF Fresh, Sure
  <2>2. CASE s # r
    <3>1. PICK q : q = req[s]
      OBVIOUS
    <3>2. q.pc \notin Steps /\ Fresh(s, q)
      BY <2>2, <3>1 DEF OnlyOne, UnderWay, Held
    <3>3. Fresh(s, q)'
      BY <2>2, <3>2 DEF Fresh, RowsOfOthersStay
    <3>4. Sure(q)'
      BY <3>2, SureOfNothing
    <3>5. req'[s] = q
      BY <1>1, <2>2, <3>1
    <3> QED
      BY <3>3, <3>4, <3>5 DEF Fresh, Sure
  <2> QED
    BY <2>1, <2>2
<1> QED
  BY <1>2, <1>3 DEF Held
\* What a step leaves alone stays as it is.
LEMMA PartsStay ==
  ASSUME Alone
  PROVE  /\ UNCHANGED <<codes, guesses, faults>> => CodesOK'
         /\ UNCHANGED <<resets, uses>> => ResetsOK'
         /\ UNCHANGED <<failures, guesses, faults>> => FailuresOK'
         /\ UNCHANGED <<tokens, users, root, knows>> => SessionsOK' /\ KeepsClosed
<1>1. UNCHANGED <<codes, guesses, faults>> => CodesOK'
  BY DEF Alone, CodesOK, OneEach
<1>2. UNCHANGED <<resets, uses>> => ResetsOK'
  BY DEF Alone, ResetsOK, OneEach
<1>3. UNCHANGED <<failures, guesses, faults>> => FailuresOK'
  BY DEF Alone, FailuresOK
<1>4. UNCHANGED <<tokens, users, root, knows>> => SessionsOK'
  BY DEF Alone, SessionsOK, Rooted
<1>5. UNCHANGED <<tokens, users, root, knows>> => KeepsClosed
  BY DEF KeepsClosed, Closed, Session
<1> QED
  BY <1>1, <1>2, <1>3, <1>4, <1>5

\* A step that writes nothing.
LEMMA QuietAfter ==
  ASSUME TypeOK, Alone, NEW r \in Requests, NEW new, OnlyOne(r), req[r].pc # "done",
         req' = [req EXCEPT ![r] = new], UNCHANGED <<db, history>>, Sure(new)
  PROVE  After
<1>1. /\ UNCHANGED <<users, codes, resets, tokens, links, failures>>
      /\ UNCHANGED <<root, knows, guesses, uses, faults>>
  BY DEF db, history
<1>2. CodesOK' /\ ResetsOK' /\ FailuresOK' /\ SessionsOK' /\ KeepsClosed
  BY <1>1, PartsStay
<1>3. Fresh(r, req[r])
  BY DEF Alone, Held
<1>4. Fresh(r, new)' /\ RowsOfOthersStay(r)
  BY <1>1, <1>3 DEF Fresh, RowsOfOthersStay
<1>5. Sure(new)'
  BY <1>1 DEF Sure, NoneActive, ActiveTokens
<1>6. Serial' /\ Held'
  BY <1>4, <1>5, HeldAfter DEF Alone
<1> QED
  BY <1>2, <1>6 DEF After, Alone

\* The last step of a request, which may write.
LEMMA FinishAfter ==
  ASSUME TypeOK, Alone, NEW r \in Requests, UnderWay(r), Finish(r), RowsOfOthersStay(r),
         CodesOK', ResetsOK', FailuresOK', SessionsOK', KeepsClosed
  PROVE  After
<1>1. OnlyOne(r) /\ Held
  BY Serially DEF Alone
<1>2. req' = [req EXCEPT ![r] = Done]
  BY DEF Finish, Go
<1>3. Serial' /\ Held'
  BY <1>1, <1>2, DoneHolds, HeldAfter
<1> QED
  BY <1>3 DEF After, Alone

LEMMA QuietFinish ==
  ASSUME TypeOK, Alone, NEW r \in Requests, UnderWay(r), Finish(r),
         UNCHANGED <<db, history>>
  PROVE  After
<1>1. OnlyOne(r) /\ req[r].pc # "done"
  BY Serially DEF Alone, UnderWay, Steps
<1>2. req' = [req EXCEPT ![r] = Done]
  BY DEF Finish, Go
<1> QED
  BY <1>1, <1>2, DoneHolds, QuietAfter

\* A request goes on with what it holds.
LEMMA SureOn ==
  ASSUME NEW q, NEW new, Sure(q), q.pc \in Steps, new.op = q.op, new.row = q.row,
         new.pc \notin {"check", "findUser", "dropCodes", "insertCode", "dropResets",
                        "insertReset", "revoke", "rotate", "issue", "swept"},
         new.pc = "purge" => q.pc = "purge"
  PROVE  Sure(new)
  BY DEF Sure

LEMMA QuietGoesOn ==
  ASSUME TypeOK, Alone, NEW r \in Requests, NEW new, UnderWay(r), Go(r, new),
         UNCHANGED <<db, history>>, Sure(new)
  PROVE  After
<1>1. OnlyOne(r) /\ req[r].pc # "done"
  BY Serially DEF Alone, UnderWay, Steps
<1> QED
  BY <1>1, QuietAfter DEF Go

\* The steps of a handler that write nothing, and the ends that do not.
LEMMA QuietSteps ==
  ASSUME IInv, Alone, NEW r \in Requests,
         \/ InsertUser(r) \/ LoginPasses(r) \/ RefreshRevoke(r) \/ Sweep(r)
         \/ UpdateUser(r) \/ OAuthEmail(r) \/ LinkAccount(r) \/ PurgeNothing(r)
         \/ Abort(r) \/ \E u \in Users : PurgeSkips(r, u)
  PROVE  After
<1>1. TypeOK
  BY DEF IInv, SchemaKept
<1>2. PICK q \in Request : q = req[r]
  BY <1>1 DEF TypeOK
<1>3. Sure(q)
  BY <1>2 DEF Alone, Held
<1>4. UnderWay(r) /\ q.pc \in Steps
  BY <1>2 DEF UnderWay, Steps, At, InsertUser, LoginPasses, RefreshRevoke, Sweep,
              UpdateUser, OAuthEmail, LinkAccount, PurgeNothing, Abort, PurgeSkips
<1>5. UNCHANGED <<db, history>>
  BY DEF InsertUser, LoginPasses, RefreshRevoke, Sweep, UpdateUser, OAuthEmail,
         LinkAccount, PurgeNothing, Abort, PurgeSkips
<1>6. CASE Finish(r)
  BY <1>1, <1>4, <1>5, <1>6, QuietFinish
<1>7. ASSUME NEW new, Go(r, new), Sure(new)  PROVE After
  BY <1>1, <1>4, <1>5, <1>7, QuietGoesOn
<1>8. ASSUME NEW new, Go(r, new), new.op = q.op, new.row = q.row,
             new.pc \in {"commitUser", "sweep", "link", "insertUser", "commitLink", "purge"},
             new.pc = "purge" => q.pc = "purge"
      PROVE  After
  <2>1. Sure(new)
    BY <1>3, <1>4, <1>8, SureOn
  <2> QED
    BY <1>7, <1>8, <2>1
<1>9. CASE InsertUser(r) /\ ~Finish(r)
  <2>1. PICK u \in Users : Go(r, [q EXCEPT !.pc = "commitUser", !.user = u])
    BY <1>2, <1>9 DEF InsertUser
  <2> DEFINE new == [q EXCEPT !.pc = "commitUser", !.user = u]
  <2>2. new.pc = "commitUser" /\ new.op = q.op /\ new.row = q.row
    BY DEF Request
  <2> QED
    BY <1>8, <2>1, <2>2
<1>10. CASE LoginPasses(r)
  <2>1. PICK u \in Users : Go(r, [q EXCEPT !.pc = "issue", !.user = u,
                                           !.pw = users[u].password])
    BY <1>2, <1>10 DEF LoginPasses, GetByEmail, Live
  <2> DEFINE new == [q EXCEPT !.pc = "issue", !.user = u, !.pw = users[u].password]
  <2>2. /\ new.pc = "issue" /\ new.op = q.op /\ new.row = q.row
        /\ new.user = u /\ new.pw = users[u].password
    BY DEF Request
  <2> HIDE DEF new
  <2>3. Sure(new)
    BY <1>3, <1>4, <2>2 DEF Sure
  <2> QED
    BY <1>7, <2>1, <2>3 DEF new
<1>11. CASE RefreshRevoke(r)
  <2> DEFINE new == [q EXCEPT !.pc = "rotate"]
  <2>1. Go(r, new) /\ q.pc = "revoke"
    BY <1>2, <1>11 DEF RefreshRevoke, At
  <2>2. new.pc = "rotate" /\ new.op = q.op /\ new.row = q.row /\ new.user = q.user
    BY DEF Request
  <2> HIDE DEF new
  <2>3. Sure(new)
    BY <1>3, <1>4, <2>1, <2>2 DEF Sure
  <2> QED
    BY <1>7, <2>1, <2>3
<1>12. CASE Sweep(r)
  <2> DEFINE new == [q EXCEPT !.pc = "swept", !.sees = ActiveTokens(tokens, q.user)]
  <2>1. Go(r, new)
    BY <1>2, <1>12 DEF Sweep
  <2>2. /\ new.pc = "swept" /\ new.op = q.op /\ new.row = q.row
        /\ new.sees = ActiveTokens(tokens, new.user)
    BY DEF Request
  <2> HIDE DEF new
  <2>3. Sure(new)
    BY <1>3, <1>4, <2>2 DEF Sure
  <2> QED
    BY <1>7, <2>1, <2>3
<1>13. CASE UpdateUser(r) /\ ~Finish(r)
  <2> DEFINE new == [q EXCEPT !.pc = "sweep"]
  <2>1. Go(r, new)
    BY <1>2, <1>13 DEF UpdateUser
  <2>2. new.pc = "sweep" /\ new.op = q.op /\ new.row = q.row
    BY DEF Request
  <2> QED
    BY <1>8, <2>1, <2>2
<1>14. CASE OAuthEmail(r)
  <2>1. PICK new : /\ Go(r, new) /\ new.op = q.op /\ new.row = q.row
                   /\ new.pc \in {"link", "insertUser"}
    <3>1. CASE \E u \in GetByEmail(users, q.email) :
                 Go(r, [q EXCEPT !.pc = "link", !.user = u])
      <4>1. PICK u : Go(r, [q EXCEPT !.pc = "link", !.user = u])
        BY <3>1
      <4> DEFINE n == [q EXCEPT !.pc = "link", !.user = u]
      <4>2. n.pc = "link" /\ n.op = q.op /\ n.row = q.row
        BY DEF Request
      <4> QED
        BY <4>1, <4>2
    <3>2. CASE Go(r, [q EXCEPT !.pc = "insertUser"])
      <4> DEFINE n == [q EXCEPT !.pc = "insertUser"]
      <4>1. n.pc = "insertUser" /\ n.op = q.op /\ n.row = q.row
        BY DEF Request
      <4> QED
        BY <3>2, <4>1
    <3> QED
      BY <1>2, <1>14, <3>1, <3>2 DEF OAuthEmail
  <2> QED
    BY <1>8, <2>1
<1>15. CASE LinkAccount(r) /\ ~Finish(r)
  <2> DEFINE new == [q EXCEPT !.pc = "commitLink"]
  <2>1. Go(r, new)
    BY <1>2, <1>15 DEF LinkAccount
  <2>2. new.pc = "commitLink" /\ new.op = q.op /\ new.row = q.row
    BY DEF Request
  <2> QED
    BY <1>8, <2>1, <2>2
<1>16. CASE (\E u \in Users : PurgeSkips(r, u)) /\ ~Finish(r)
  <2>1. PICK u \in Users : Go(r, [q EXCEPT !.list = @ \ {u}]) /\ q.pc = "purge"
    BY <1>2, <1>16 DEF PurgeSkips, Purged, Finish, At
  <2> DEFINE new == [q EXCEPT !.list = @ \ {u}]
  <2>2. new.pc = "purge" /\ new.op = q.op /\ new.row = q.row
    BY <2>1 DEF Request
  <2> QED
    BY <1>8, <2>1, <2>2
<1> QED
  BY <1>6, <1>9, <1>10, <1>11, <1>12, <1>13, <1>14, <1>15, <1>16 DEF PurgeNothing, Abort
-----------------------------------------------------------------------------
(***************************************************************************)
(* What arrives while nothing is under way.                                *)
(***************************************************************************)
LEMMA StartAfter ==
  ASSUME TypeOK, Alone, NEW r \in Requests, NEW new, Start(r, new), ~overlapped', Sure(new)
  PROVE  After
<1>1. OnlyOne(r) /\ req[r].pc # "done"
  BY DEF Start, OnlyOne
<1> QED
  BY <1>1, QuietAfter DEF Start

LEMMA RefuseAfter ==
  ASSUME TypeOK, Alone, NEW r \in Requests, Refuse(r), ~overlapped'
  PROVE  After
  BY DoneHolds, StartAfter DEF Refuse

\* A request that has read nothing yet that its next statement relies on.
LEMMA SureAtFirst ==
  ASSUME NEW new, new.op # "reset",
         new.pc \notin {"check", "findUser", "dropCodes", "insertCode", "dropResets",
                        "insertReset", "revoke", "rotate", "issue", "swept"}
  PROVE  Sure(new)
  BY DEF Sure

LEMMA FirstAfter ==
  ASSUME TypeOK, Alone, NEW r \in Requests, NEW new, Start(r, new), ~overlapped',
         new.op # "reset",
         new.pc \notin {"check", "findUser", "dropCodes", "insertCode", "dropResets",
                        "insertReset", "revoke", "rotate", "issue", "swept"}
  PROVE  After
  BY SureAtFirst, StartAfter

\* A request about a user and nothing else.
LEMMA ReplacingAfter ==
  ASSUME TypeOK, Alone, NEW r \in Requests, NEW u \in Users, NEW op, NEW pc,
         op # "reset", pc \in {"sweep", "update", "cancel", "dropCodes", "dropResets"},
         Replacing(r, u, op, pc), ~overlapped'
  PROVE  After
<1> DEFINE new == [NewRequest EXCEPT !.pc = pc, !.op = op, !.user = u]
<1>1. new.pc = pc /\ new.op = op /\ new.user = u
  BY DEF NewRequest
<1>2. Start(r, new)
  BY DEF Replacing
<1> HIDE DEF new
<1>3. Sure(new)
  BY <1>1 DEF Sure
<1> QED
  BY <1>2, <1>3, StartAfter

\* A request about a token.
LEMMA UsingAfter ==
  ASSUME TypeOK, Alone, NEW r \in Requests, NEW t \in Rows, NEW op, NEW pc,
         op # "reset", pc \in {"sweep", "revoke", "revokeOne"},
         pc = "revoke" => tokens[t].life = "active",
         Using(r, op, pc, t), ~overlapped'
  PROVE  After
<1> DEFINE new == [NewRequest EXCEPT !.pc = pc, !.op = op, !.row = t,
                                     !.user = tokens[t].user]
<1>1. new.pc = pc /\ new.op = op /\ new.row = t /\ new.user = tokens[t].user
  BY DEF NewRequest
<1>2. Start(r, new)
  BY DEF Using
<1> HIDE DEF new
<1>3. Sure(new)
  BY <1>1 DEF Sure
<1> QED
  BY <1>2, <1>3, StartAfter

\* What a login, the check of a code and a password reset start with.
LEMMA ReadersAfter ==
  ASSUME IInv, Alone, NEW r \in Requests, ~overlapped',
         \/ HandleLogin(r) \/ HandleVerifyEmail(r) \/ HandleResetPassword(r)
         \/ HandleGoogleCallback(r)
  PROVE  After
<1>1. TypeOK
  BY DEF IInv, SchemaKept
<1>2. CASE Refuse(r)
  BY <1>1, <1>2, RefuseAfter
<1>3. ASSUME NEW new, Start(r, new), Sure(new)  PROVE After
  BY <1>1, <1>3, StartAfter
<1>4. CASE HandleLogin(r) /\ ~Refuse(r)
  <2>1. PICK e \in Emails : Login(r, e)
    BY <1>4 DEF HandleLogin
  <2> DEFINE new == [NewRequest EXCEPT !.pc = "findUser", !.op = "login", !.email = e]
  <2>2. Start(r, new) /\ ~(failures[e] >= LoginLockoutMaxFails /\ LoginLockoutMaxFails > 0)
    BY <1>4, <2>1 DEF Login
  <2>3. new.pc = "findUser" /\ new.op = "login" /\ new.email = e
    BY DEF NewRequest
  <2> HIDE DEF new
  <2>4. failures[e] \in Nat /\ LoginLockoutMaxFails \in Nat
    BY <1>1, Constants DEF TypeOK
  <2>5. LoginLockoutMaxFails > 0 => failures[e] < LoginLockoutMaxFails
    BY <2>2, <2>4
  <2>6. Sure(new)
    BY <2>3, <2>5 DEF Sure
  <2> QED
    BY <1>3, <2>2, <2>6
<1>5. CASE HandleVerifyEmail(r) /\ ~Refuse(r)
  <2>1. PICK e \in Emails : VerifyEmail(r, e)
    BY <1>5 DEF HandleVerifyEmail
  <2>2. PICK u \in Users, c \in Rows :
          /\ codes[c].life = "active" /\ codes[c].attempts < OTPMaxAttempts
          /\ Start(r, [NewRequest EXCEPT !.pc = "check", !.op = "verify", !.user = u,
                                         !.row = c])
    BY <1>5, <2>1, EmailsTyped DEF VerifyEmail, GetActiveByUserID, ActiveCodes
  <2> DEFINE new == [NewRequest EXCEPT !.pc = "check", !.op = "verify", !.user = u,
                                       !.row = c]
  <2>3. new.pc = "check" /\ new.op = "verify" /\ new.row = c
    BY DEF NewRequest
  <2>4. Start(r, new)
    BY <2>2
  <2> HIDE DEF new
  <2>5. Sure(new)
    BY <2>2, <2>3 DEF Sure
  <2> QED
    BY <1>3, <2>4, <2>5
<1>6. CASE HandleResetPassword(r) /\ ~Refuse(r)
  <2>1. PICK p \in Rows : ResetPassword(r, p)
    BY <1>6 DEF HandleResetPassword
  <2> DEFINE new == [NewRequest EXCEPT !.pc = "update", !.op = "reset", !.row = p,
                                       !.user = resets[p].user]
  <2>2. resets[p].life = "active" /\ Start(r, new)
    BY <1>6, <2>1 DEF ResetPassword
  <2>3. new.pc = "update" /\ new.op = "reset" /\ new.row = p
    BY DEF NewRequest
  <2> HIDE DEF new
  <2>4. Sure(new)
    BY <2>2, <2>3 DEF Sure
  <2> QED
    BY <1>3, <2>2, <2>4
<1>7. CASE HandleGoogleCallback(r)
  <2>1. PICK i \in Identities, e \in Emails : FindOrCreateOAuthUser(r, i, e)
    BY <1>7 DEF HandleGoogleCallback
  <2>2. PICK u : u = links[i]
    OBVIOUS
  <2>3. u \in Users \cup {None}
    BY <1>1, <2>2 DEF TypeOK
  <2> DEFINE as == [NewRequest EXCEPT !.op = "oauth", !.identity = i, !.email = e]
  <2>4. CASE u = None
    <3> DEFINE new == [as EXCEPT !.pc = "oauthEmail"]
    <3>1. Start(r, new)
      BY <2>1, <2>2, <2>4 DEF FindOrCreateOAuthUser, GetOAuthAccount
    <3>2. new.pc = "oauthEmail" /\ new.op = "oauth"
      BY DEF NewRequest
    <3> HIDE DEF new
    <3> QED
      BY <1>1, <3>1, <3>2, FirstAfter
  <2>5. CASE u # None
    <3> DEFINE new == [as EXCEPT !.pc = "issue", !.user = u, !.pw = users[u].password]
    <3>1. Start(r, new)
      BY <2>1, <2>2, <2>5 DEF FindOrCreateOAuthUser, GetOAuthAccount
    <3>2. /\ new.pc = "issue" /\ new.op = "oauth" /\ new.user = u
          /\ new.pw = users[u].password
      BY DEF NewRequest
    <3> HIDE DEF new
    <3>3. Sure(new)
      BY <2>3, <2>5, <3>2 DEF Sure
    <3> QED
      BY <1>3, <3>1, <3>3
  <2> QED
    BY <2>4, <2>5
<1> QED
  BY <1>2, <1>4, <1>5, <1>6, <1>7

LEMMA ArriveAfter ==
  ASSUME IInv, Alone, NEW r \in Requests, Arrive(r), ~overlapped'
  PROVE  After
<1>1. TypeOK
  BY DEF IInv, SchemaKept
<1>2. CASE Refuse(r)
  BY <1>1, <1>2, RefuseAfter
<1>3. ASSUME NEW u \in Users, NEW op, NEW pc, Replacing(r, u, op, pc), op # "reset",
             pc \in {"sweep", "update", "cancel", "dropCodes", "dropResets"}
      PROVE  After
  BY <1>1, <1>3, ReplacingAfter
<1>4. CASE HandleRegister(r) /\ ~Refuse(r)
  <2>1. PICK e \in Emails : Register(r, e)
    BY <1>4 DEF HandleRegister
  <2> DEFINE new == [NewRequest EXCEPT !.pc = "insertUser", !.op = "register", !.email = e]
  <2>2. Start(r, new)
    BY <1>4, <2>1 DEF Register
  <2>3. new.pc = "insertUser" /\ new.op = "register"
    BY DEF NewRequest
  <2> HIDE DEF new
  <2> QED
    BY <1>1, <2>2, <2>3, FirstAfter
<1>5. CASE (HandleRefresh(r) \/ HandleLogout(r) \/ HandleRevokeSession(r)) /\ ~Refuse(r)
  <2>1. PICK t \in Rows :
          \/ Using(r, "reuse", "sweep", t) \/ Using(r, "logout", "revokeOne", t)
          \/ tokens[t].life = "active" /\ Using(r, "refresh", "revoke", t)
    BY <1>5 DEF HandleRefresh, HandleLogout, HandleRevokeSession, Refresh, Logout,
                RevokeSession
  <2> QED
    BY <1>1, <2>1, UsingAfter
<1>6. CASE HandleLogoutAll(r)
  <2>1. PICK u \in Users : LogoutAll(r, u)
    BY <1>6, CallersTyped DEF HandleLogoutAll
  <2>2. Replacing(r, u, "logoutAll", "sweep")
    BY <2>1 DEF LogoutAll, Replacing
  <2> QED
    BY <1>3, <2>2
<1>7. CASE HandleDeleteAccount(r) /\ ~Refuse(r)
  <2>1. PICK u \in Users : RequestAccountDeletion(r, u)
    BY <1>7, CallersTyped DEF HandleDeleteAccount
  <2>2. Replacing(r, u, "delete", "update")
    BY <1>7, <2>1 DEF RequestAccountDeletion, Replacing
  <2> QED
    BY <1>3, <2>2
<1>8. CASE HandleCancelDeletion(r) /\ ~Refuse(r)
  <2>1. PICK u \in Users : CancelAccountDeletion(r, u)
    BY <1>8, CallersTyped DEF HandleCancelDeletion
  <2>2. Replacing(r, u, "cancel", "cancel")
    BY <1>8, <2>1 DEF CancelAccountDeletion, Replacing
  <2> QED
    BY <1>3, <2>2
<1>9. CASE HandleResendVerification(r) /\ ~Refuse(r)
  <2>1. PICK e \in Emails : ResendVerification(r, e)
    BY <1>9 DEF HandleResendVerification
  <2>2. PICK u \in Users : Replacing(r, u, "resend", "dropCodes")
    BY <1>9, <2>1, EmailsTyped DEF ResendVerification
  <2> QED
    BY <1>3, <2>2
<1>10. CASE HandleForgotPassword(r) /\ ~Refuse(r)
  <2>1. PICK e \in Emails : ForgotPassword(r, e)
    BY <1>10 DEF HandleForgotPassword
  <2>2. PICK u \in Users : Replacing(r, u, "forgot", "dropResets")
    BY <1>10, <2>1, EmailsTyped DEF ForgotPassword
  <2> QED
    BY <1>3, <2>2
<1>11. CASE HandleChangePassword(r) /\ ~Refuse(r)
  <2>1. PICK u \in Users : ChangePassword(r, u)
    BY <1>11, CallersTyped DEF HandleChangePassword
  <2>2. Replacing(r, u, "change", "update")
    BY <1>11, <2>1 DEF ChangePassword, Replacing
  <2> QED
    BY <1>3, <2>2
<1>12. CASE Purge(r)
  <2>1. PICK due : Start(r, [NewRequest EXCEPT !.pc = "purge", !.op = "purge",
                                               !.list = due])
    BY <1>12 DEF Purge
  <2> DEFINE new == [NewRequest EXCEPT !.pc = "purge", !.op = "purge", !.list = due]
  <2>2. new.pc = "purge" /\ new.op = "purge" /\ Start(r, new)
    BY <2>1 DEF NewRequest
  <2> HIDE DEF new
  <2> QED
    BY <1>1, <2>2, FirstAfter
<1>13. CASE \/ HandleLogin(r) \/ HandleVerifyEmail(r) \/ HandleResetPassword(r)
            \/ HandleGoogleCallback(r)
  BY <1>13, ReadersAfter
<1> QED
  BY <1>2, <1>4, <1>5, <1>6, <1>7, <1>8, <1>9, <1>10, <1>11, <1>12, <1>13 DEF Arrive
-----------------------------------------------------------------------------
(***************************************************************************)
(* The steps that write.                                                   *)
(***************************************************************************)
\* Most of them leave the row names of the others free.
LEMMA OthersStay ==
  ASSUME NEW r \in Requests,
         Shrunk(codes, codes') \/ \E u : Grown(codes, codes', r, u),
         Shrunk(resets, resets') \/ \E u : Grown(resets, resets', r, u)
  PROVE  RowsOfOthersStay(r)
<1>1. \A s \in Requests \ {r} : codes[s].life = "free" => codes'[s].life = "free"
  BY Constants DEF Shrunk, Grown
<1>2. \A s \in Requests \ {r} : resets[s].life = "free" => resets'[s].life = "free"
  BY Constants DEF Shrunk, Grown
<1> QED
  BY <1>1, <1>2 DEF RowsOfOthersStay

LEMMA SameShrunk == ASSUME NEW t PROVE Shrunk(t, t)
  BY DEF Shrunk

\* A request holds at its step what it has read before.
LEMMA Holds ==
  ASSUME IInv, Alone, NEW r \in Requests, UnderWay(r)
  PROVE  /\ TypeOK /\ req[r] \in Request /\ Sure(req[r]) /\ RequestOK(r, req[r])
         /\ tokens[r].life = "free" /\ codes[r].life = "free" /\ resets[r].life = "free"
         /\ r \in Rows
  BY Constants DEF IInv, SchemaKept, TypeOK, RequestsOK, RequestOK, Alone, Held, Fresh,
                   UnderWay, Steps

LEMMA LoginFailsAfter ==
  ASSUME IInv, IInv', Alone, NEW r \in Requests, LoginFails(r)
  PROVE  After
<1>1. UnderWay(r)
  BY DEF LoginFails, At, UnderWay, Steps
<1>2. TypeOK /\ TypeOK'
  BY DEF IInv, SchemaKept
<1>3. PICK e : e = req[r].email
  OBVIOUS
<1>4. e \in Emails /\ (LoginLockoutMaxFails > 0 => failures[e] < LoginLockoutMaxFails)
  BY <1>1, <1>3, Holds DEF LoginFails, At, Sure
<1>5. /\ guesses' = [guesses EXCEPT ![e] = @ + 1] /\ Finish(r)
      /\ UNCHANGED <<users, codes, resets, tokens, links, root, knows, uses>>
      /\ \/ failures' = [failures EXCEPT ![e] = @ + 1] /\ faults' = faults
         \/ failures' = failures /\ faults' = faults + 1
  BY <1>3 DEF LoginFails, Logged, RecordFailure
<1>6. /\ faults \in Nat /\ faults' \in Nat /\ LoginLockoutMaxFails \in Nat
      /\ guesses \in [Rows \cup Emails -> Nat] /\ failures \in [Emails -> Nat]
  BY <1>2, Constants DEF TypeOK
<1>7. faults <= faults'
  BY <1>5, <1>6
<1>8. e \notin Rows
  BY <1>4, PolicyOK
<1>9. \A c \in Rows : guesses'[c] = guesses[c]
  BY <1>5, <1>6, <1>8
<1>10. CodesOK'
  BY <1>2, <1>5, <1>7, <1>9, SameShrunk, CodesStay DEF Alone
<1>11. FailuresOK'
  <2> SUFFICES ASSUME LoginLockoutMaxFails > 0, NEW f \in Emails
               PROVE  failures'[f] <= LoginLockoutMaxFails /\ guesses'[f] <= failures'[f] + faults'
    BY DEF FailuresOK
  <2>1. failures[f] <= LoginLockoutMaxFails /\ guesses[f] <= failures[f] + faults
    BY DEF Alone, FailuresOK
  <2>2. failures[f] \in Nat /\ guesses[f] \in Nat
    BY <1>6
  <2>3. CASE f = e
    <3>1. guesses'[e] = guesses[e] + 1
      BY <1>4, <1>6, <1>5
    <3>2. CASE failures' = [failures EXCEPT ![e] = @ + 1] /\ faults' = faults
      <4>1. failures'[e] = failures[e] + 1
        BY <1>4, <1>6, <3>2
      <4> QED
        BY <1>4, <1>6, <2>1, <2>2, <2>3, <3>1, <3>2, <4>1
    <3>3. CASE failures' = failures /\ faults' = faults + 1
      BY <1>6, <2>1, <2>2, <2>3, <3>1, <3>3
    <3> QED
      BY <1>5, <3>2, <3>3
  <2>4. CASE f # e
    <3>1. guesses'[f] = guesses[f] /\ failures'[f] = failures[f]
      BY <1>5, <1>6, <2>4
    <3> QED
      BY <1>6, <1>7, <2>1, <2>2, <3>1
  <2> QED
    BY <2>3, <2>4
<1>12. ResetsOK' /\ SessionsOK' /\ KeepsClosed
  BY <1>5, PartsStay
<1>13. RowsOfOthersStay(r)
  BY <1>5 DEF RowsOfOthersStay
<1> QED
  BY <1>1, <1>2, <1>5, <1>10, <1>11, <1>12, <1>13, FinishAfter

LEMMA WrongCodeAfter ==
  ASSUME IInv, IInv', Alone, NEW r \in Requests, WrongCode(r)
  PROVE  After
<1>1. UnderWay(r)
  BY DEF WrongCode, At, UnderWay, Steps
<1>2. TypeOK /\ TypeOK'
  BY DEF IInv, SchemaKept
<1>3. PICK c : c = req[r].row
  OBVIOUS
<1>4. c \in Rows /\ codes[c].life = "active" /\ codes[c].attempts < OTPMaxAttempts
  BY <1>1, <1>3, Holds DEF WrongCode, At, Sure
<1>5. /\ guesses' = [guesses EXCEPT ![c] = @ + 1] /\ Finish(r)
      /\ UNCHANGED <<users, resets, tokens, links, failures, root, knows, uses>>
      /\ \/ codes' = [codes EXCEPT ![c].attempts = @ + 1] /\ faults' = faults
         \/ codes' = codes /\ faults' = faults + 1
  BY <1>3, <1>4 DEF WrongCode, Logged, IncrementAttempts
<1>6. /\ faults \in Nat /\ faults' \in Nat /\ OTPMaxAttempts \in Nat
      /\ guesses \in [Rows \cup Emails -> Nat] /\ codes \in [Rows -> Code]
      /\ codes[c].attempts \in Nat /\ guesses[c] \in Nat
  BY <1>2, <1>4, Constants DEF TypeOK, Code
<1>7. /\ guesses'[c] = guesses[c] + 1
      /\ \A d \in Rows \cup Emails : d # c => guesses'[d] = guesses[d]
  BY <1>4, <1>5, <1>6
<1>8. /\ \A d \in Rows : d # c => codes'[d] = codes[d]
      /\ codes'[c].life = "active" /\ codes'[c].user = codes[c].user
      /\ codes'[c].attempts + faults' = codes[c].attempts + faults + 1
      /\ faults <= faults'
  <2>1. CASE codes' = [codes EXCEPT ![c].attempts = @ + 1] /\ faults' = faults
    <3>1. PICK row : row = [codes[c] EXCEPT !.attempts = @ + 1]
      OBVIOUS
    <3>2. codes[c] \in Code
      BY <1>4, <1>6
    <3>3. /\ row.life = "active" /\ row.user = codes[c].user
          /\ row.attempts = codes[c].attempts + 1
      BY <1>4, <3>1, <3>2 DEF Code
    <3>4. codes' = [codes EXCEPT ![c] = row]
      BY <2>1, <3>1
    <3> QED
      BY <1>4, <1>6, <2>1, <3>3, <3>4
  <2>2. CASE codes' = codes /\ faults' = faults + 1
    BY <1>4, <1>6, <2>2
  <2> QED
    BY <1>5, <2>1, <2>2
<1>9. CodesOK'
  <2>1. OneEach(codes)'
    BY <1>4, <1>8 DEF Alone, CodesOK, OneEach
  <2>2. ASSUME NEW d \in Rows
        PROVE  /\ codes'[d].life = "free" => guesses'[d] = 0
               /\ codes'[d].life = "active" => guesses'[d] <= codes'[d].attempts + faults'
               /\ guesses'[d] <= OTPMaxAttempts + faults'
    <3>1. /\ codes[d].life = "free" => guesses[d] = 0
          /\ codes[d].life = "active" => guesses[d] <= codes[d].attempts + faults
          /\ guesses[d] <= OTPMaxAttempts + faults
      BY DEF Alone, CodesOK
    <3>2. CASE d = c
      <4>1. guesses'[c] <= codes'[c].attempts + faults'
        BY <1>4, <1>6, <1>7, <1>8, <3>1, <3>2
      <4>2. guesses'[c] <= OTPMaxAttempts + faults'
        <5>1. codes[c].attempts + 1 <= OTPMaxAttempts
          BY <1>4, <1>6
        <5>2. guesses[c] <= codes[c].attempts + faults
          BY <1>4, <3>1, <3>2
        <5> QED
          BY <1>6, <1>7, <1>8, <5>1, <5>2
      <4> QED
        BY <1>8, <3>2, <4>1, <4>2
    <3>3. CASE d # c
      <4>1. guesses[d] \in Nat /\ codes[d].attempts \in Nat
        BY <1>6 DEF Code
      <4> QED
        BY <1>6, <1>7, <1>8, <3>1, <3>3, <4>1
    <3> QED
      BY <3>2, <3>3
  <2> QED
    BY <2>1, <2>2 DEF CodesOK
<1>10. FailuresOK'
  <2>1. \A e \in Emails : guesses'[e] = guesses[e]
    BY <1>4, <1>7, PolicyOK
  <2>2. \A e \in Emails : failures[e] \in Nat /\ guesses[e] \in Nat
    BY <1>2 DEF TypeOK
  <2> QED
    BY <1>5, <1>6, <1>8, <2>1, <2>2 DEF Alone, FailuresOK
<1>11. ResetsOK' /\ SessionsOK' /\ KeepsClosed
  BY <1>5, PartsStay
<1>12. RowsOfOthersStay(r)
  BY <1>4, <1>5, <1>8, Constants DEF RowsOfOthersStay
<1> QED
  BY <1>1, <1>2, <1>5, <1>9, <1>10, <1>11, <1>12, FinishAfter
\* What the statements on tokens and on users leave.
LEMMA RevokedFewer ==
  ASSUME TypeOK, NEW S, tokens' = RevokeTokens(tokens, S)
  PROVE  /\ Fewer(Rows)
         /\ \A t \in S \cap Rows : tokens'[t].life # "active"
  BY DEF TypeOK, Token, RevokeTokens, Fewer

LEMMA CascadedFewer ==
  ASSUME IInv, NEW u \in Users, tokens' = CascadeTokens(tokens, u)
  PROVE  /\ Fewer(Rows)
         /\ \A t \in Rows : tokens[t].user = u => tokens'[t].life # "active"
<1>1. \A t \in Rows : tokens[t].user = u => tokens[t].life # "free"
  BY Constants DEF IInv, TokensOwned
<1>2. [FreeToken EXCEPT !.life = "deleted"].life = "deleted"
  BY DEF FreeToken
<1> QED
  BY <1>1, <1>2 DEF CascadeTokens, Fewer

LEMMA PasswordsSame ==
  ASSUME TypeOK, NEW u,
         \/ users' = users \/ users' = MarkEmailVerified(users, u)
         \/ users' = CancelDeletion(users, u) \/ users' = RequestDeletion(users, u)
  PROVE  \A v \in Users : users'[v].password = users[v].password
<1>1. users \in [Users -> User]
  BY DEF TypeOK
<1>2. ASSUME NEW new, users' = UpdateUserWhere(users, u, new),
             u \in Users => new.password = users[u].password
      PROVE  \A v \in Users : users'[v].password = users[v].password
  BY <1>1, <1>2 DEF UpdateUserWhere
<1>3. u \in Users => /\ [users[u] EXCEPT !.verified = TRUE].password = users[u].password
                     /\ [users[u] EXCEPT !.pending = FALSE].password = users[u].password
                     /\ [users[u] EXCEPT !.pending = TRUE].password = users[u].password
  BY <1>1 DEF User
<1> QED
  BY <1>2, <1>3 DEF MarkEmailVerified, CancelDeletion, RequestDeletion

LEMMA OthersPasswords ==
  ASSUME TypeOK, NEW u, users' = UpdatePassword(users, u)
  PROVE  \A v \in Users : v # u => users'[v] = users[v]
  BY DEF TypeOK, UpdatePassword, UpdateUserWhere

LEMMA SamePasswordsStay ==
  ASSUME IInv, NEW S \in SUBSET Rows,
         \A v \in Users : users'[v].password = users[v].password,
         \A t \in S : tokens'[t].life = "active" => tokens[t].life = "active"
  PROVE  PasswordsStay(S)
<1>1. \A t \in Rows : tokens[t].life = "active" => tokens[t].user \in Users
  BY DEF IInv, TokensOwned, SchemaKept, TypeOK, Token
<1> QED
  BY <1>1 DEF PasswordsStay

LEMMA FewerActive ==
  ASSUME NEW S, Fewer(S)
  PROVE  \A t \in S : tokens'[t].life = "active" => tokens[t].life = "active"
  BY DEF Fewer

\* The passwords stay, and no token is added.
LEMMA MildSessions ==
  ASSUME IInv, Alone, Fewer(Rows), root' = root, knows' = knows,
         \A v \in Users : users'[v].password = users[v].password
  PROVE  SessionsOK' /\ KeepsClosed
<1>1. PasswordsStay(Rows)
  BY FewerActive, SamePasswordsStay
<1> QED
  BY <1>1, SessionsStay DEF IInv, SchemaKept, Alone

LEMMA RevokeOneAfter ==
  ASSUME IInv, Alone, NEW r \in Requests, RevokeOne(r)
  PROVE  After
<1>1. UnderWay(r)
  BY DEF RevokeOne, At, UnderWay, Steps
<1>2. /\ tokens' = RevokeTokens(tokens, {req[r].row}) /\ Finish(r)
      /\ UNCHANGED <<users, codes, resets, links, failures, root, knows, guesses, uses, faults>>
  BY DEF RevokeOne, Revoke, history
<1>3. TypeOK
  BY DEF IInv, SchemaKept
<1>4. SessionsOK' /\ KeepsClosed
  BY <1>2, <1>3, RevokedFewer, MildSessions
<1>5. CodesOK' /\ ResetsOK' /\ FailuresOK'
  BY <1>2, PartsStay
<1>6. RowsOfOthersStay(r)
  BY <1>2 DEF RowsOfOthersStay
<1> QED
  BY <1>1, <1>2, <1>3, <1>4, <1>5, <1>6, FinishAfter

LEMMA CommitSweepAfter ==
  ASSUME IInv, Alone, NEW r \in Requests, CommitSweep(r)
  PROVE  After
<1>1. UnderWay(r)
  BY DEF CommitSweep, At, UnderWay, Steps
<1>2. PICK q \in Request : q = req[r]
  BY <1>1, Holds
<1>3. TypeOK /\ Sure(q) /\ q.pc = "swept"
  BY <1>1, <1>2, Holds DEF CommitSweep, At
<1>4. /\ tokens' = RevokeTokens(tokens, q.sees) /\ users' = UsersOf(r) /\ Finish(r)
      /\ UNCHANGED <<codes, links, failures, root, knows, guesses, faults>>
      /\ IF q.op = "reset" THEN /\ resets' = ConsumeReset(resets, q.row)
                                /\ uses' = [uses EXCEPT ![q.row] = @ + 1]
                           ELSE UNCHANGED <<resets, uses>>
  BY <1>2 DEF CommitSweep
<1>5. q.sees = ActiveTokens(tokens, q.user)
  BY <1>3 DEF Sure
<1>6. SessionsOK' /\ KeepsClosed
  <2>1. Fewer(Rows) /\ \A t \in q.sees \cap Rows : tokens'[t].life # "active"
    BY <1>3, <1>4, RevokedFewer
  <2>2. CASE users' = UpdatePassword(users, q.user)
    <3>1. ASSUME NEW t \in Rows, tokens'[t].life = "active"
          PROVE  users'[tokens[t].user].password = users[tokens[t].user].password
      <4>1. tokens[t].life = "active" /\ t \notin q.sees
        BY <2>1, <3>1, FewerActive
      <4>2. tokens[t].user # q.user /\ tokens[t].user \in Users
        BY <1>5, <4>1 DEF ActiveTokens, Alone, SessionsOK
      <4> QED
        BY <1>3, <2>2, <4>2, OthersPasswords
    <3>2. PasswordsStay(Rows)
      BY <3>1 DEF PasswordsStay
    <3> QED
      BY <1>3, <1>4, <2>1, <3>2, SessionsStay DEF Alone
  <2>3. CASE users' # UpdatePassword(users, q.user)
    <3>1. users' = users \/ users' = RequestDeletion(users, q.user)
      BY <1>2, <1>4, <2>3 DEF UsersOf
    <3>2. \A v \in Users : users'[v].password = users[v].password
      BY <1>3, <3>1, PasswordsSame
    <3> QED
      BY <1>4, <2>1, <3>2, MildSessions
  <2> QED
    BY <2>2, <2>3
<1>7. ResetsOK' /\ (Shrunk(resets, resets'))
  <2>1. CASE q.op = "reset"
    <3>1. q.row \in Rows /\ resets[q.row].life = "active"
      BY <1>3, <2>1 DEF Sure, Steps
    <3>2. ResetsOK'
      BY <1>3, <1>4, <2>1, <3>1, ResetsUsed DEF Alone
    <3>3. Shrunk(resets, resets')
      BY <1>3, <1>4, <2>1, <3>1 DEF TypeOK, Reset, ConsumeReset, Shrunk
    <3> QED
      BY <3>2, <3>3
  <2>2. CASE q.op # "reset"
    BY <1>4, <2>2, PartsStay, SameShrunk
  <2> QED
    BY <2>1, <2>2
<1>8. CodesOK' /\ FailuresOK'
  BY <1>4, PartsStay
<1>9. RowsOfOthersStay(r)
  BY <1>4, <1>7, SameShrunk, OthersStay
<1> QED
  BY <1>1, <1>3, <1>4, <1>6, <1>7, <1>8, <1>9, FinishAfter

\* Email verified, or a deletion taken back: no password changes.
LEMMA RightCodeAfter ==
  ASSUME IInv, IInv', Alone, NEW r \in Requests, RightCode(r) \/ Cancel(r)
  PROVE  After
<1>1. UnderWay(r)
  BY DEF RightCode, Cancel, At, UnderWay, Steps
<1>2. PICK q \in Request : q = req[r]
  BY <1>1, Holds
<1>3. TypeOK /\ TypeOK'
  BY DEF IInv, SchemaKept
<1>4. /\ codes' = codes \/ codes' = ConsumeCode(codes, q.row)
      /\ users' = MarkEmailVerified(users, q.user) \/ users' = CancelDeletion(users, q.user)
      /\ Finish(r)
      /\ UNCHANGED <<resets, tokens, links, failures, root, knows, guesses, uses, faults>>
  BY <1>2 DEF RightCode, Cancel, history
<1>5. \A v \in Users : users'[v].password = users[v].password
  BY <1>3, <1>4, PasswordsSame
<1>6. Fewer(Rows)
  BY <1>4 DEF Fewer
<1>7. SessionsOK' /\ KeepsClosed
  BY <1>4, <1>5, <1>6, MildSessions
<1>8. Shrunk(codes, codes')
  <2>1. CASE codes' = codes
    BY <2>1, SameShrunk
  <2>2. CASE codes' = ConsumeCode(codes, q.row)
    BY <1>3, <2>2 DEF TypeOK, Code, ConsumeCode, Shrunk
  <2> QED
    BY <1>4, <2>1, <2>2
<1>9. faults <= faults'
  BY <1>3, <1>4 DEF TypeOK
<1>10. CodesOK'
  BY <1>3, <1>4, <1>8, <1>9, CodesStay DEF Alone
<1>11. ResetsOK' /\ FailuresOK'
  BY <1>4, PartsStay
<1>12. RowsOfOthersStay(r)
  BY <1>4, <1>8, SameShrunk, OthersStay
<1> QED
  BY <1>1, <1>3, <1>4, <1>7, <1>10, <1>11, <1>12, FinishAfter
LEMMA DropCodesAfter ==
  ASSUME IInv, IInv', Alone, NEW r \in Requests, DropCodes(r)
  PROVE  After
<1>1. UnderWay(r)
  BY DEF DropCodes, At, UnderWay, Steps
<1>2. PICK q \in Request : q = req[r]
  BY <1>1, Holds
<1>3. /\ TypeOK /\ TypeOK' /\ Sure(q) /\ q.pc = "dropCodes" /\ OneEach(codes)
      /\ codes[r].life = "free" /\ resets[r].life = "free" /\ r \in Rows
  BY <1>1, <1>2, Holds DEF IInv, SchemaKept, DropCodes, At, Alone, CodesOK
<1>4. PICK u \in Users : u = q.user
  BY <1>3 DEF Sure
<1> DEFINE new == [q EXCEPT !.pc = "insertCode"]
<1>5. new.pc = "insertCode" /\ new.op = q.op /\ new.user = u /\ new.row = q.row
  BY <1>4 DEF Request
<1>6. /\ codes' = DeleteCodes(codes, u) /\ req' = [req EXCEPT ![r] = new]
      /\ UNCHANGED <<users, resets, tokens, links, failures, root, knows, guesses, uses, faults>>
  BY <1>2, <1>4 DEF DropCodes, Go, history
<1> HIDE DEF new
<1>7. Shrunk(codes, codes') /\ faults <= faults'
  <2>1. Shrunk(codes, codes')
    BY <1>3, <1>6, CodesShrink
  <2>2. faults <= faults'
    BY <1>3, <1>6 DEF TypeOK
  <2> QED
    BY <2>1, <2>2
<1>8. CodesOK'
  BY <1>3, <1>6, <1>7, CodesStay DEF Alone
<1>9. ResetsOK' /\ FailuresOK' /\ SessionsOK' /\ KeepsClosed
  BY <1>6, PartsStay
<1>10. NoneActive(codes', u)
  <2>1. \A c : [FreeCode EXCEPT !.life = "deleted", !.at = codes[c].at].life = "deleted"
    BY DEF FreeCode
  <2> QED
    BY <1>6, <2>1 DEF NoneActive, DeleteCodes
<1>11. Sure(new)'
  <2>1. new.op = "reset" => new.row \in Rows /\ resets'[new.row].life = "active"
    BY <1>3, <1>5, <1>6 DEF Sure, Steps
  <2> QED
    BY <1>5, <1>10, <2>1 DEF Sure, NoneActive
<1>12. Fresh(r, new)'
  <2>1. codes[r].user # u
    BY <1>3, Constants DEF OneEach
  <2>2. codes'[r] = codes[r]
    BY <1>3, <1>6, <2>1 DEF DeleteCodes
  <2> QED
    BY <1>3, <1>6, <2>2 DEF Fresh
<1>13. RowsOfOthersStay(r)
  BY <1>6, <1>7, SameShrunk, OthersStay
<1>14. OnlyOne(r) /\ Held
  BY <1>1, Serially DEF Alone
<1>15. Serial' /\ Held'
  BY <1>3, <1>6, <1>11, <1>12, <1>13, <1>14, HeldAfter
<1> QED
  BY <1>8, <1>9, <1>15 DEF After, Alone

LEMMA DropResetsAfter ==
  ASSUME IInv, IInv', Alone, NEW r \in Requests, DropResets(r)
  PROVE  After
<1>1. UnderWay(r)
  BY DEF DropResets, At, UnderWay, Steps
<1>2. PICK q \in Request : q = req[r]
  BY <1>1, Holds
<1>3. /\ TypeOK /\ Sure(q) /\ q.pc = "dropResets" /\ OneEach(resets)
      /\ codes[r].life = "free" /\ resets[r].life = "free" /\ r \in Rows
  BY <1>1, <1>2, Holds DEF DropResets, At, Alone, ResetsOK
<1>4. PICK u \in Users : u = q.user
  BY <1>3 DEF Sure
<1> DEFINE new == [q EXCEPT !.pc = "insertReset"]
<1>5. new.pc = "insertReset" /\ new.op = q.op /\ new.user = u /\ new.row = q.row
  BY <1>4 DEF Request
<1>6. /\ resets' = DeleteResets(resets, u) /\ req' = [req EXCEPT ![r] = new]
      /\ UNCHANGED <<users, codes, tokens, links, failures, root, knows, guesses, uses, faults>>
  BY <1>2, <1>4 DEF DropResets, Go, history
<1> HIDE DEF new
<1>7. Shrunk(resets, resets')
  BY <1>3, <1>6, ResetsShrink
<1>8. ResetsOK'
  BY <1>6, <1>7, ResetsStay DEF Alone
<1>9. CodesOK' /\ FailuresOK' /\ SessionsOK' /\ KeepsClosed
  BY <1>6, PartsStay
<1>10. NoneActive(resets', u)
  <2>1. [FreeReset EXCEPT !.life = "deleted"].life = "deleted"
    BY DEF FreeReset
  <2> QED
    BY <1>6, <2>1 DEF NoneActive, DeleteResets
<1>11. Sure(new)' /\ Fresh(r, new)'
  <2>1. new.op # "reset"
    BY <1>3, <1>5 DEF Sure
  <2>2. Sure(new)'
    BY <1>5, <1>10, <2>1 DEF Sure, NoneActive
  <2>3. resets[r].user # u
    BY <1>3, Constants DEF OneEach
  <2>4. resets'[r] = resets[r]
    BY <1>3, <1>6, <2>3 DEF DeleteResets
  <2> QED
    BY <1>3, <1>6, <2>2, <2>4 DEF Fresh
<1>12. RowsOfOthersStay(r)
  BY <1>6, <1>7, SameShrunk, OthersStay
<1>13. OnlyOne(r) /\ Held
  BY <1>1, Serially DEF Alone
<1>14. Serial' /\ Held'
  BY <1>3, <1>6, <1>11, <1>12, <1>13, HeldAfter
<1> QED
  BY <1>8, <1>9, <1>14 DEF After, Alone

LEMMA InsertCodeAfter ==
  ASSUME IInv, Alone, NEW r \in Requests, InsertCode(r)
  PROVE  After
<1>1. UnderWay(r)
  BY DEF InsertCode, At, UnderWay, Steps
<1>2. PICK q \in Request : q = req[r]
  BY <1>1, Holds
<1>3. /\ TypeOK /\ Sure(q) /\ q.pc = "insertCode" /\ NoneActive(codes, q.user)
      /\ codes[r].life = "free" /\ r \in Rows
  BY <1>1, <1>2, Holds DEF InsertCode, At, Sure
<1>4. /\ codes' = codes \/ codes' = CreateCode(codes, r, q.user)
      /\ Finish(r)
      /\ UNCHANGED <<users, resets, tokens, links, failures, root, knows, guesses, uses, faults>>
  BY <1>2 DEF InsertCode, history
<1>5. CodesOK' /\ RowsOfOthersStay(r)
  <2>1. CASE codes' = codes
    BY <1>4, <2>1, PartsStay DEF RowsOfOthersStay
  <2>2. CASE codes' = CreateCode(codes, r, q.user)
    <3>1. CodesOK'
      BY <1>3, <1>4, <2>2, CodesAdded DEF Alone
    <3>2. Grown(codes, codes', r, q.user)
      BY <1>3, <2>2, CodesGrow
    <3> QED
      BY <1>4, <3>1, <3>2, SameShrunk, OthersStay
  <2> QED
    BY <1>4, <2>1, <2>2
<1>6. ResetsOK' /\ FailuresOK' /\ SessionsOK' /\ KeepsClosed
  BY <1>4, PartsStay
<1> QED
  BY <1>1, <1>3, <1>4, <1>5, <1>6, FinishAfter

LEMMA InsertResetAfter ==
  ASSUME IInv, Alone, NEW r \in Requests, InsertReset(r)
  PROVE  After
<1>1. UnderWay(r)
  BY DEF InsertReset, At, UnderWay, Steps
<1>2. PICK q \in Request : q = req[r]
  BY <1>1, Holds
<1>3. /\ TypeOK /\ Sure(q) /\ q.pc = "insertReset" /\ NoneActive(resets, q.user)
      /\ resets[r].life = "free" /\ r \in Rows
  BY <1>1, <1>2, Holds DEF InsertReset, At, Sure
<1>4. /\ resets' = resets \/ resets' = CreateReset(resets, r, q.user)
      /\ Finish(r)
      /\ UNCHANGED <<users, codes, tokens, links, failures, root, knows, guesses, uses, faults>>
  BY <1>2 DEF InsertReset, history
<1>5. ResetsOK' /\ RowsOfOthersStay(r)
  <2>1. CASE resets' = resets
    BY <1>4, <2>1, PartsStay DEF RowsOfOthersStay
  <2>2. CASE resets' = CreateReset(resets, r, q.user)
    <3>1. ResetsOK'
      BY <1>3, <1>4, <2>2, ResetsAdded DEF Alone
    <3>2. Grown(resets, resets', r, q.user)
      BY <1>3, <2>2, ResetsGrow
    <3> QED
      BY <1>4, <3>1, <3>2, SameShrunk, OthersStay
  <2> QED
    BY <1>4, <2>1, <2>2
<1>6. CodesOK' /\ FailuresOK' /\ SessionsOK' /\ KeepsClosed
  BY <1>4, PartsStay
<1> QED
  BY <1>1, <1>3, <1>4, <1>5, <1>6, FinishAfter

LEMMA PurgeUserAfter ==
  ASSUME IInv, IInv', Alone, NEW r \in Requests, NEW u \in Users, PurgeUser(r, u)
  PROVE  After
<1>1. UnderWay(r)
  BY DEF PurgeUser, At, UnderWay, Steps
<1>2. PICK q \in Request : q = req[r]
  BY <1>1, Holds
<1>3. /\ TypeOK /\ TypeOK' /\ Sure(q) /\ q.pc = "purge"
      /\ OneEach(codes) /\ OneEach(resets)
      /\ codes[r].life = "free" /\ resets[r].life = "free" /\ r \in Rows
  BY <1>1, <1>2, Holds DEF IInv, SchemaKept, PurgeUser, At, Alone, CodesOK, ResetsOK
<1>4. /\ users' = DeleteUser(users, u) /\ codes' = DeleteCodes(codes, u)
      /\ resets' = DeleteResets(resets, u) /\ tokens' = CascadeTokens(tokens, u)
      /\ UNCHANGED <<failures, root, knows, guesses, uses, faults>>
      /\ Go(r, IF q.list = {u} THEN Done ELSE [q EXCEPT !.list = @ \ {u}])
  BY <1>2 DEF PurgeUser, Purged, history
<1>5. /\ Shrunk(codes, codes') /\ Shrunk(resets, resets') /\ faults <= faults'
  <2>1. Shrunk(codes, codes') /\ Shrunk(resets, resets')
    BY <1>3, <1>4, CodesShrink, ResetsShrink
  <2>2. faults <= faults'
    BY <1>3, <1>4 DEF TypeOK
  <2> QED
    BY <2>1, <2>2
<1>6. CodesOK'
  BY <1>3, <1>4, <1>5, CodesStay DEF Alone
<1>7. ResetsOK'
  BY <1>4, <1>5, ResetsStay DEF Alone
<1>8. FailuresOK'
  BY <1>4, PartsStay
<1>9. SessionsOK' /\ KeepsClosed
  <2>1. Fewer(Rows) /\ \A t \in Rows : tokens[t].user = u => tokens'[t].life # "active"
    BY <1>4, CascadedFewer
  <2>2. \A v \in Users : v # u => users'[v] = users[v]
    BY <1>3, <1>4 DEF TypeOK, DeleteUser
  <2>3. \A t \in Rows : tokens'[t].life = "active" =>
                           tokens[t].user \in Users /\ tokens[t].user # u
    BY <2>1, FewerActive DEF Alone, SessionsOK
  <2>4. PasswordsStay(Rows)
    BY <2>2, <2>3 DEF PasswordsStay
  <2> QED
    BY <1>3, <1>4, <2>1, <2>4, SessionsStay DEF Alone
<1>10. RowsOfOthersStay(r)
  BY <1>5, OthersStay
<1>11. CASE Finish(r)
  BY <1>1, <1>3, <1>6, <1>7, <1>8, <1>9, <1>10, <1>11, FinishAfter
<1>12. CASE ~Finish(r)
  <2> DEFINE new == [q EXCEPT !.list = @ \ {u}]
  <2>1. req' = [req EXCEPT ![r] = new]
    BY <1>4, <1>12 DEF Finish, Go
  <2>2. new.pc = "purge" /\ new.op # "reset"
    BY <1>3 DEF Request, Sure
  <2> HIDE DEF new
  <2>3. Sure(new)'
    BY <2>2 DEF Sure
  <2>4. codes[r].user # u /\ resets[r].user # u
    BY <1>3, Constants DEF OneEach
  <2>5. codes'[r] = codes[r] /\ resets'[r] = resets[r]
    BY <1>3, <1>4, <2>4 DEF DeleteCodes, DeleteResets
  <2>6. Fresh(r, new)'
    BY <1>3, <2>5 DEF Fresh
  <2>7. OnlyOne(r) /\ Held
    BY <1>1, Serially DEF Alone
  <2>8. Serial' /\ Held'
    BY <1>3, <1>10, <2>1, <2>3, <2>6, <2>7, HeldAfter
  <2> QED
    BY <1>6, <1>7, <1>8, <1>9, <2>8 DEF After, Alone
<1> QED
  BY <1>11, <1>12
-----------------------------------------------------------------------------
(***************************************************************************)
(* The steps that add a token.                                             *)
(***************************************************************************)
\* A token that begins a session.
LEMMA SessionBegins ==
  ASSUME IInv, Alone, NEW r \in Rows, NEW u \in Users, NEW pw,
         tokens[r].life = "free", tokens' = CreateToken(tokens, r, u, None),
         NewSession(r, u, pw), pw = users'[u].password,
         \A v \in Users : users[v].life # "free" => users'[v].password = users[v].password
  PROVE  SessionsOK' /\ KeepsClosed
<1>1. TypeOK
  BY DEF IInv, SchemaKept
<1>2. /\ tokens'[r].life = "active" /\ tokens'[r].user = u
      /\ \A t \in Rows : t # r => tokens'[t] = tokens[t]
  BY <1>1 DEF TypeOK, CreateToken
<1>3. Fewer(Rows \ {r})
  BY <1>2 DEF Fewer
<1>4. \A t \in Rows : tokens[t].life = "active" =>
        tokens[t].user \in Users /\ users[tokens[t].user].life = "live"
  BY Constants DEF Alone, SessionsOK, IInv, SchemaKept, NoOrphans
<1>5. PasswordsStay(Rows \ {r})
  BY <1>2, <1>4 DEF PasswordsStay
<1>6. Opens(r, r)
  BY DEF Opens
<1>7. root' = [root EXCEPT ![r] = r] /\ knows' = [knows EXCEPT ![r] = users'[u].password]
  BY DEF NewSession
<1> QED
  BY <1>1, <1>2, <1>3, <1>5, <1>6, <1>7, SessionsAdded DEF Alone

LEMMA IssueTokenAfter ==
  ASSUME IInv, Alone, NEW r \in Requests, IssueToken(r)
  PROVE  After
<1>1. UnderWay(r)
  BY DEF IssueToken, At, UnderWay, Steps
<1>2. PICK q \in Request : q = req[r]
  BY <1>1, Holds
<1>3. /\ TypeOK /\ Sure(q) /\ q.pc = "issue" /\ tokens[r].life = "free" /\ r \in Rows
      /\ Finish(r) /\ UNCHANGED <<users, codes, resets, links, failures>>
  BY <1>1, <1>2, Holds DEF IssueToken, At
<1>4. q.user \in Users /\ q.pw = users[q.user].password
  BY <1>3 DEF Sure
<1>5. CASE UNCHANGED <<tokens, history>>
  <2>1. UNCHANGED <<db, history>>
    BY <1>3, <1>5 DEF db
  <2> QED
    BY <1>1, <1>3, <2>1, QuietFinish
<1>6. CASE tokens' = CreateToken(tokens, r, q.user, None) /\ NewSession(r, q.user, q.pw)
  <2>1. SessionsOK' /\ KeepsClosed
    BY <1>3, <1>4, <1>6, SessionBegins
  <2>2. UNCHANGED <<guesses, uses, faults>>
    BY <1>6 DEF NewSession
  <2>3. CodesOK' /\ ResetsOK' /\ FailuresOK'
    BY <1>3, <2>2, PartsStay
  <2>4. RowsOfOthersStay(r)
    BY <1>3 DEF RowsOfOthersStay
  <2> QED
    BY <1>1, <1>3, <2>1, <2>3, <2>4, FinishAfter
<1> QED
  BY <1>2, <1>5, <1>6 DEF IssueToken

LEMMA RotateAfter ==
  ASSUME IInv, Alone, NEW r \in Requests, Rotate(r)
  PROVE  After
<1>1. UnderWay(r)
  BY DEF Rotate, At, UnderWay, Steps
<1>2. PICK q \in Request : q = req[r]
  BY <1>1, Holds
<1>3. /\ TypeOK /\ Sure(q) /\ q.pc = "rotate" /\ tokens[r].life = "free" /\ r \in Rows
      /\ Finish(r) /\ UNCHANGED <<users, codes, resets, links, failures>>
  BY <1>1, <1>2, Holds DEF Rotate, At
<1>4. PICK p \in Rows, u \in {q.user} : p = q.row /\ u = q.user
  BY <1>3 DEF Sure
<1>5. tokens[p].life = "active" /\ tokens[p].user = u /\ p # r
  BY <1>3, <1>4 DEF Sure
<1>6. u \in Users /\ knows[p] = users[u].password
  BY <1>5 DEF Alone, SessionsOK
<1>7. CASE UNCHANGED <<tokens, history>>
  <2>1. UNCHANGED <<db, history>>
    BY <1>3, <1>7 DEF db
  <2> QED
    BY <1>1, <1>3, <2>1, QuietFinish
<1>8. CASE tokens' = CreateToken(Revoke(tokens, p), r, u, p) /\ Child(r)
  <2>1. PICK x \in Rows : x = root[p]
    BY <1>3 DEF TypeOK
  <2>2. /\ root' = [root EXCEPT ![r] = x]
        /\ knows' = [knows EXCEPT ![r] = users'[u].password]
        /\ UNCHANGED <<guesses, uses, faults>>
    BY <1>2, <1>3, <1>4, <1>6, <1>8, <2>1 DEF Child
  <2>3. PICK row : row = [tokens[p] EXCEPT !.life = "revoked"]
    OBVIOUS
  <2>4. row.life = "revoked"
    BY <1>3, <2>3 DEF TypeOK, Token
  <2>5. /\ tokens'[r].life = "active" /\ tokens'[r].user = u /\ tokens'[p] = row
        /\ \A t \in Rows : t # r /\ t # p => tokens'[t] = tokens[t]
    BY <1>3, <1>5, <1>8, <2>3 DEF TypeOK, CreateToken, Revoke, RevokeTokens
  <2>6. Fewer(Rows \ {r})
    BY <1>5, <2>4, <2>5 DEF Fewer
  <2>7. PasswordsStay(Rows \ {r})
    BY <1>3 DEF PasswordsStay
  <2>8. Opens(x, r)
    BY <1>5, <2>1, <2>4, <2>5 DEF Opens
  <2>9. SessionsOK' /\ KeepsClosed
    BY <1>3, <1>6, <2>2, <2>5, <2>6, <2>7, <2>8, SessionsAdded DEF Alone
  <2>10. CodesOK' /\ ResetsOK' /\ FailuresOK'
    BY <1>3, <2>2, PartsStay
  <2>11. RowsOfOthersStay(r)
    BY <1>3 DEF RowsOfOthersStay
  <2> QED
    BY <1>1, <1>3, <2>9, <2>10, <2>11, FinishAfter
<1> QED
  BY <1>2, <1>4, <1>7, <1>8 DEF Rotate

LEMMA CommitLinkAfter ==
  ASSUME IInv, Alone, NEW r \in Requests, CommitLink(r)
  PROVE  After
<1>1. UnderWay(r)
  BY DEF CommitLink, At, UnderWay, Steps
<1>2. PICK q \in Request : q = req[r]
  BY <1>1, Holds
<1>3. /\ TypeOK /\ q.pc = "commitLink" /\ tokens[r].life = "free" /\ r \in Rows
      /\ q.user \in Users
  BY <1>1, <1>2, Holds DEF CommitLink, At, RequestOK
<1>4. /\ users' = MarkEmailVerified(users, q.user)
      /\ tokens' = CreateToken(tokens, r, q.user, None)
      /\ NewSession(r, q.user, users[q.user].password)
      /\ Finish(r) /\ UNCHANGED <<codes, resets, failures>>
  BY <1>2 DEF CommitLink
<1>5. \A v \in Users : users'[v].password = users[v].password
  BY <1>3, <1>4, PasswordsSame
<1>6. PICK pw : pw = users[q.user].password
  OBVIOUS
<1>7. SessionsOK' /\ KeepsClosed
  BY <1>3, <1>4, <1>5, <1>6, SessionBegins
<1>8. UNCHANGED <<guesses, uses, faults>>
  BY <1>4 DEF NewSession
<1>9. CodesOK' /\ ResetsOK' /\ FailuresOK'
  BY <1>4, <1>8, PartsStay
<1>10. RowsOfOthersStay(r)
  BY <1>4 DEF RowsOfOthersStay
<1> QED
  BY <1>1, <1>3, <1>4, <1>7, <1>9, <1>10, FinishAfter

\* A user that is new brings no password to another.
LEMMA CreateUserKeeps ==
  ASSUME TypeOK, NEW u \in Users, NEW e, NEW pw, NEW verified, users[u].life = "free",
         users' = CreateUser(users, u, e, pw, verified)
  PROVE  /\ users'[u].password = pw
         /\ \A v \in Users : users[v].life # "free" => users'[v].password = users[v].password
  BY DEF TypeOK, CreateUser

LEMMA CommitRegisterAfter ==
  ASSUME IInv, Alone, NEW r \in Requests, CommitRegister(r)
  PROVE  After
<1>1. UnderWay(r)
  BY DEF CommitRegister, At, UnderWay, Steps
<1>2. PICK q \in Request : q = req[r]
  BY <1>1, Holds
<1>3. /\ TypeOK /\ q.pc = "commitUser" /\ tokens[r].life = "free" /\ r \in Rows
      /\ q.user \in Users /\ users[q.user].life = "free" /\ codes[r].life = "free"
  BY <1>1, <1>2, Holds DEF CommitRegister, At, RequestOK
<1>4. /\ users' = CreateUser(users, q.user, q.email, 1, FALSE)
      /\ codes' = CreateCode(codes, r, q.user)
      /\ tokens' = CreateToken(tokens, r, q.user, None)
      /\ NewSession(r, q.user, 1)
      /\ Finish(r) /\ UNCHANGED <<resets, links, failures>>
  BY <1>2 DEF CommitRegister
<1>5. /\ users'[q.user].password = 1
      /\ \A v \in Users : users[v].life # "free" => users'[v].password = users[v].password
  BY <1>3, <1>4, CreateUserKeeps
<1>6. SessionsOK' /\ KeepsClosed
  BY <1>3, <1>4, <1>5, SessionBegins
<1>7. UNCHANGED <<guesses, uses, faults>>
  BY <1>4 DEF NewSession
<1>8. NoneActive(codes, q.user)
  BY <1>3, NobodysRows
<1>9. CodesOK'
  BY <1>3, <1>4, <1>7, <1>8, CodesAdded DEF Alone
<1>10. ResetsOK' /\ FailuresOK'
  BY <1>4, <1>7, PartsStay
<1>11. Grown(codes, codes', r, q.user)
  BY <1>3, <1>4, CodesGrow
<1>12. RowsOfOthersStay(r)
  BY <1>4, <1>11, SameShrunk, OthersStay
<1> QED
  BY <1>1, <1>3, <1>4, <1>6, <1>9, <1>10, <1>12, FinishAfter

LEMMA CommitOAuthUserAfter ==
  ASSUME IInv, Alone, NEW r \in Requests, CommitOAuthUser(r)
  PROVE  After
<1>1. UnderWay(r)
  BY DEF CommitOAuthUser, At, UnderWay, Steps
<1>2. PICK q \in Request : q = req[r]
  BY <1>1, Holds
<1>3. /\ TypeOK /\ q.pc = "commitUser" /\ tokens[r].life = "free" /\ r \in Rows
      /\ q.user \in Users /\ users[q.user].life = "free"
      /\ Finish(r) /\ UNCHANGED <<codes, resets, failures>>
  BY <1>1, <1>2, Holds DEF CommitOAuthUser, At, RequestOK
<1>4. CASE UNCHANGED <<users, links, tokens, history>>
  <2>1. UNCHANGED <<db, history>>
    BY <1>3, <1>4 DEF db
  <2> QED
    BY <1>1, <1>3, <2>1, QuietFinish
<1>5. CASE /\ users' = CreateUser(users, q.user, q.email, 0, TRUE)
           /\ tokens' = CreateToken(tokens, r, q.user, None)
           /\ NewSession(r, q.user, 0)
  <2>1. /\ users'[q.user].password = 0
        /\ \A v \in Users : users[v].life # "free" => users'[v].password = users[v].password
    BY <1>3, <1>5, CreateUserKeeps
  <2>2. SessionsOK' /\ KeepsClosed
    BY <1>3, <1>5, <2>1, SessionBegins
  <2>3. UNCHANGED <<guesses, uses, faults>>
    BY <1>5 DEF NewSession
  <2>4. CodesOK' /\ ResetsOK' /\ FailuresOK'
    BY <1>3, <2>3, PartsStay
  <2>5. RowsOfOthersStay(r)
    BY <1>3 DEF RowsOfOthersStay
  <2> QED
    BY <1>1, <1>3, <2>2, <2>4, <2>5, FinishAfter
<1> QED
  BY <1>2, <1>4, <1>5 DEF CommitOAuthUser
-----------------------------------------------------------------------------
LEMMA WindowPassesAfter ==
  ASSUME IInv, IInv', Alone, NEW e \in Emails, WindowPasses(e)
  PROVE  After
<1>1. TypeOK /\ TypeOK'
  BY DEF IInv, SchemaKept
<1>2. /\ failures' = [failures EXCEPT ![e] = 0] /\ guesses' = [guesses EXCEPT ![e] = 0]
      /\ UNCHANGED <<users, codes, resets, tokens, links, req, root, knows, uses, faults>>
  BY DEF WindowPasses
<1>3. /\ \A c \in Rows : guesses'[c] = guesses[c]
      /\ failures'[e] = 0 /\ guesses'[e] = 0
      /\ \A f \in Emails : f # e => failures'[f] = failures[f] /\ guesses'[f] = guesses[f]
  BY <1>1, <1>2, PolicyOK DEF TypeOK
<1>4. faults \in Nat /\ LoginLockoutMaxFails \in Nat
  BY <1>1, Constants DEF TypeOK
<1>5. CodesOK'
  BY <1>1, <1>2, <1>3, <1>4, SameShrunk, CodesStay DEF Alone
<1>6. FailuresOK'
  BY <1>2, <1>3, <1>4 DEF Alone, FailuresOK
<1>7. ResetsOK' /\ SessionsOK' /\ KeepsClosed
  BY <1>2, PartsStay
<1>8. Serial'
  BY <1>2 DEF Alone, Serial, UnderWay
<1>9. Held'
  <2> SUFFICES ASSUME NEW r \in Requests PROVE Fresh(r, req[r])' /\ Sure(req[r])'
    BY DEF Held
  <2>1. PICK q : q = req[r]
    OBVIOUS
  <2>2. Fresh(r, q) /\ Sure(q)
    BY <2>1 DEF Alone, Held
  <2>3. q.pc = "findUser" =>
          /\ q.email \in Emails
          /\ LoginLockoutMaxFails > 0 => failures'[q.email] < LoginLockoutMaxFails
    BY <1>3, <1>4, <2>2 DEF Sure
  <2>4. Fresh(r, q)'
    BY <1>2, <2>2 DEF Fresh
  <2>5. Sure(q)'
    BY <1>2, <2>2, <2>3 DEF Sure, NoneActive, ActiveTokens
  <2>6. req'[r] = q
    BY <1>2, <2>1
  <2> QED
    BY <2>4, <2>5, <2>6 DEF Fresh, Sure
<1> QED
  BY <1>5, <1>6, <1>7, <1>8, <1>9 DEF After, Alone

LEMMA StutterAfter ==
  ASSUME Alone, UNCHANGED vars
  PROVE  After
<1>1. /\ UNCHANGED <<users, codes, resets, tokens, links, failures>>
      /\ UNCHANGED <<root, knows, guesses, uses, faults, req>>
  BY DEF vars, db, history
<1>2. CodesOK' /\ ResetsOK' /\ FailuresOK' /\ SessionsOK' /\ KeepsClosed
  BY <1>1, PartsStay
<1>3. Serial' /\ Held'
  BY <1>1 DEF Alone, Serial, UnderWay, Held, Fresh, Sure, NoneActive, ActiveTokens
<1> QED
  BY <1>2, <1>3 DEF After, Alone

\* What is there at the beginning is the row Old, if anything.
LEMMA InitOnlyOld ==
  ASSUME Init
  PROVE  /\ \A c \in Rows : /\ codes[c].life = "free" => codes[c].user = None
                            /\ codes[c].life # "free" => c = Old
                            /\ codes[c].attempts = 0
         /\ \A p \in Rows : /\ resets[p].life = "free" => resets[p].user = None
                            /\ resets[p].life # "free" => p = Old
                            /\ resets[p].life \in {"free", "active"}
<1>1. \A c \in Rows : /\ codes[c].life = "free" => codes[c].user = None
                      /\ codes[c].life # "free" => c = Old
                      /\ codes[c].attempts = 0
  <2>1. codes \in OldOf(FreeCode, {"active"})
    BY DEF Init
  <2>2. CASE codes = [t \in Rows |-> FreeCode]
    BY <2>2 DEF FreeCode
  <2>3. CASE codes # [t \in Rows |-> FreeCode]
    <3>1. PICK u \in Users : codes = OldRow(FreeCode, u, "active")
      BY <2>1, <2>3, OldRowIs
    <3>2. PICK row : row = [FreeCode EXCEPT !.life = "active", !.user = u]
      OBVIOUS
    <3>3. /\ row.life = "active" /\ row.attempts = 0
          /\ FreeCode.life = "free" /\ FreeCode.user = None /\ FreeCode.attempts = 0
      BY <3>2 DEF FreeCode
    <3>4. codes = [t \in Rows |-> IF t = Old THEN row ELSE FreeCode]
      BY <3>1, <3>2 DEF OldRow
    <3> QED
      BY <3>3, <3>4
  <2> QED
    BY <2>2, <2>3
<1>2. \A p \in Rows : /\ resets[p].life = "free" => resets[p].user = None
                      /\ resets[p].life # "free" => p = Old
                      /\ resets[p].life \in {"free", "active"}
  <2>1. resets \in OldOf(FreeReset, {"active"})
    BY DEF Init
  <2>2. CASE resets = [t \in Rows |-> FreeReset]
    BY <2>2 DEF FreeReset
  <2>3. CASE resets # [t \in Rows |-> FreeReset]
    <3>1. PICK u \in Users : resets = OldRow(FreeReset, u, "active")
      BY <2>1, <2>3, OldRowIs
    <3>2. PICK row : row = [FreeReset EXCEPT !.life = "active", !.user = u]
      OBVIOUS
    <3>3. row.life = "active" /\ FreeReset.life = "free" /\ FreeReset.user = None
      BY <3>2 DEF FreeReset
    <3>4. resets = [t \in Rows |-> IF t = Old THEN row ELSE FreeReset]
      BY <3>1, <3>2 DEF OldRow
    <3> QED
      BY <3>3, <3>4
  <2> QED
    BY <2>2, <2>3
<1> QED
  BY <1>1, <1>2

LEMMA InitAlone ==
  ASSUME Init
  PROVE  Alone
<1>1. /\ \A r \in Requests : req[r] = NewRequest
      /\ NewRequest.pc = "new" /\ NewRequest.pc \notin Steps
  BY RequestRecords DEF Init, Steps
<1>2. /\ \A x \in Rows \cup Emails : guesses[x] = 0
      /\ \A e \in Emails : failures[e] = 0
      /\ \A p \in Rows : uses[p] = 0 /\ root[p] = p
      /\ faults = 0
  BY DEF Init
<1>3. Serial
  BY <1>1 DEF Serial, UnderWay
<1>4. CodesOK
  BY <1>2, InitOnlyOld, Constants DEF CodesOK, OneEach
<1>5. ResetsOK
  BY <1>2, InitOnlyOld DEF ResetsOK, OneEach
<1>6. FailuresOK
  BY <1>2, Constants DEF FailuresOK
<1>7. SessionsOK
  <2>1. /\ tokens \in [Rows -> Token] /\ TokensOwned
        /\ \A r \in Requests : tokens[r].life = "free"
    BY InitTokens
  <2>2. \A t \in Rows : tokens[t].life = "active" => tokens[t].user \in Users
    BY <2>1, Constants DEF TokensOwned, Token
  <2>3. \A t \in Rows : tokens[t].life = "active" =>
          knows[t] = users[tokens[t].user].password
    BY <2>2, Constants DEF Init
  <2> QED
    BY <1>2, <2>2, <2>3 DEF SessionsOK, Rooted
<1>8. Held
  <2>1. Sure(NewRequest)
    BY <1>1, SureOfNothing
  <2>2. \A r \in Requests : codes[r].life = "free" /\ resets[r].life = "free"
    BY InitOnlyOld, Constants
  <2> QED
    BY <1>1, <2>1, <2>2 DEF Held, Fresh
<1> QED
  BY <1>3, <1>4, <1>5, <1>6, <1>7, <1>8 DEF Alone

LEMMA StepAfter ==
  ASSUME IInv, IInv', Alone, NEW r \in Requests, Step(r)
  PROVE  After
<1>1. CASE \/ InsertUser(r) \/ LoginPasses(r) \/ RefreshRevoke(r) \/ Sweep(r)
           \/ UpdateUser(r) \/ OAuthEmail(r) \/ LinkAccount(r) \/ PurgeNothing(r)
  BY <1>1, QuietSteps
<1>2. CASE CommitRegister(r) \/ CommitLink(r) \/ CommitOAuthUser(r)
  BY <1>2, CommitRegisterAfter, CommitLinkAfter, CommitOAuthUserAfter
<1>3. CASE LoginFails(r) \/ IssueToken(r) \/ Rotate(r) \/ RevokeOne(r) \/ CommitSweep(r)
  BY <1>3, LoginFailsAfter, IssueTokenAfter, RotateAfter, RevokeOneAfter, CommitSweepAfter
<1>4. CASE DropCodes(r) \/ InsertCode(r) \/ DropResets(r) \/ InsertReset(r)
  BY <1>4, DropCodesAfter, InsertCodeAfter, DropResetsAfter, InsertResetAfter
<1>5. CASE WrongCode(r) \/ RightCode(r) \/ Cancel(r)
  BY <1>5, WrongCodeAfter, RightCodeAfter
<1>6. CASE \E u \in Users : PurgeUser(r, u) \/ PurgeSkips(r, u)
  BY <1>6, PurgeUserAfter, QuietSteps
<1> QED
  BY <1>1, <1>2, <1>3, <1>4, <1>5, <1>6 DEF Step

\* A request that goes on does not make it overlap.
LEMMA NextAfter ==
  ASSUME IInv, IInv', SInv, [Next]_vars, ~overlapped'
  PROVE  After
<1>1. ~overlapped => Alone
  BY DEF SInv
<1>2. ASSUME NEW r \in Requests, Arrive(r)  PROVE After
  <2>1. ~overlapped
    BY <1>2 DEF Arrive, HandleRegister, Register, HandleLogin, Login, HandleRefresh, Refresh,
      HandleLogout, Logout, HandleLogoutAll, LogoutAll, HandleRevokeSession, RevokeSession,
      HandleDeleteAccount, RequestAccountDeletion, HandleCancelDeletion,
      CancelAccountDeletion, HandleVerifyEmail, VerifyEmail, HandleResendVerification,
      ResendVerification, HandleForgotPassword, ForgotPassword, HandleResetPassword,
      ResetPassword, HandleChangePassword, ChangePassword, HandleGoogleCallback,
      FindOrCreateOAuthUser, Purge, Using, Replacing, Refuse, Start
  <2> QED
    BY <1>1, <1>2, <2>1, ArriveAfter
<1>3. ASSUME NEW r \in Requests, Step(r)  PROVE After
  <2>1. ~overlapped
    BY <1>3 DEF Step, InsertUser, CommitRegister, LoginPasses, LoginFails, IssueToken,
      RefreshRevoke, Rotate, RevokeOne, Sweep, CommitSweep, DropCodes, InsertCode,
      DropResets, InsertReset, WrongCode, RightCode, UpdateUser, Cancel, PurgeUser,
      PurgeSkips, Purged, PurgeNothing, OAuthEmail, LinkAccount, CommitLink,
      CommitOAuthUser, Finish, Go
  <2> QED
    BY <1>1, <1>3, <2>1, StepAfter
<1>4. ASSUME NEW r \in Requests, Abort(r)  PROVE After
  <2>1. ~overlapped
    BY <1>4 DEF Abort, Finish, Go
  <2> QED
    BY <1>1, <1>4, <2>1, QuietSteps
<1>5. ASSUME NEW e \in Emails, WindowPasses(e)  PROVE After
  <2>1. ~overlapped
    BY <1>5 DEF WindowPasses
  <2> QED
    BY <1>1, <1>5, <2>1, WindowPassesAfter
<1>6. CASE UNCHANGED vars
  <2>1. ~overlapped
    BY <1>6 DEF vars
  <2> QED
    BY <1>1, <1>6, <2>1, StutterAfter
<1> QED
  BY <1>2, <1>3, <1>4, <1>5, <1>6 DEF Next

\* While requests have not overlapped, what each has read is still so at its next
\* statement; the limits and the sessions are as the policy wants them.
THEOREM SerialInductive == Spec => []SInv
<1>1. Init => SInv
  BY InitAlone DEF SInv
<1>2. IInv /\ IInv' /\ SInv /\ [Next]_vars => SInv'
  BY NextAfter DEF SInv, After
<1> QED
  BY <1>1, <1>2, Inductive, PTL DEF Spec

\* Rows that are all the same are one at most.
LEMMA OneAtMost ==
  ASSUME NEW S \in SUBSET Rows, \A x, y \in S : x = y
  PROVE  Cardinality(S) <= 1
<1>1. CASE S = {}
  BY <1>1, FS_EmptySet
<1>2. CASE S # {}
  <2>1. PICK x : S = {x}
    BY <1>2
  <2> QED
    BY <2>1, FS_Singleton
<1> QED
  BY <1>1, <1>2

\* OnlyLastWorks: of requests that do not overlap, of the refresh tokens of a
\* session, the codes and the reset tokens of a user only the last is good, and a
\* reset token sets one password.
THEOREM TheLastOneWorks == Spec => []OnlyLastWorks
<1>1. SInv => OnlyLastWorks
  <2> SUFFICES ASSUME Alone PROVE /\ \A x \in Rows : Cardinality(Session(x)) <= 1
                                  /\ \A u \in Users :
                                       /\ Cardinality(ActiveCodes(codes, u)) <= 1
                                       /\ Cardinality({p \in Rows : resets[p].life = "active"
                                                         /\ resets[p].user = u}) <= 1
                                  /\ \A p \in Rows : uses[p] <= 1
    BY DEF SInv, OnlyLastWorks, OneTokenPerSession, OneActiveCode, ResetOnce
  <2>1. ASSUME NEW x \in Rows PROVE Cardinality(Session(x)) <= 1
    <3>1. Session(x) \in SUBSET Rows /\ \A s, t \in Session(x) : s = t
      BY DEF Session, Alone, SessionsOK
    <3> QED
      BY <3>1, OneAtMost
  <2>2. ASSUME NEW u \in Users
        PROVE  /\ Cardinality(ActiveCodes(codes, u)) <= 1
               /\ Cardinality({p \in Rows : resets[p].life = "active"
                                 /\ resets[p].user = u}) <= 1
    <3> DEFINE Mine == {p \in Rows : resets[p].life = "active" /\ resets[p].user = u}
    <3>1. /\ ActiveCodes(codes, u) \in SUBSET Rows
          /\ \A s, t \in ActiveCodes(codes, u) : s = t
      BY DEF ActiveCodes, Alone, CodesOK, OneEach
    <3>2. Mine \in SUBSET Rows /\ \A s, t \in Mine : s = t
      BY DEF Alone, ResetsOK, OneEach
    <3>3. Cardinality(ActiveCodes(codes, u)) <= 1
      BY <3>1, OneAtMost
    <3> HIDE DEF Mine
    <3>4. Cardinality(Mine) <= 1
      BY <3>2, OneAtMost
    <3> QED
      BY <3>3, <3>4 DEF Mine
  <2>3. \A p \in Rows : uses[p] <= 1
    BY DEF Alone, ResetsOK
  <2> QED
    BY <2>1, <2>2, <2>3
<1> QED
  BY <1>1, SerialInductive, PTL

\* SessionsKnowPassword: of requests that do not overlap, whoever holds a good
\* refresh token has shown the password there is now; a reset or a change of it
\* leaves no other token good.
THEOREM HoldersKnowPassword == Spec => []SessionsKnowPassword
<1>1. SInv => SessionsKnowPassword
  BY DEF SInv, SessionsKnowPassword, Alone, SessionsOK
<1> QED
  BY <1>1, SerialInductive, PTL

\* GuessesBounded: of requests that do not overlap, no code is guessed and no
\* password is tried within the window more often than the policy allows, but for
\* the guesses whose record was lost, for any policy.
THEOREM GuessesStayBounded == Spec => []GuessesBounded
<1>1. IInv /\ SInv => GuessesBounded
  <2> SUFFICES ASSUME TypeOK, Alone
               PROVE  /\ \A c \in Rows : guesses[c] <= OTPMaxAttempts + faults
                      /\ LoginLockoutMaxFails > 0
                           => \A e \in Emails : guesses[e] <= LoginLockoutMaxFails + faults
    BY DEF SInv, GuessesBounded, IInv, SchemaKept
  <2>1. \A c \in Rows : guesses[c] <= OTPMaxAttempts + faults
    BY DEF Alone, CodesOK
  <2>2. ASSUME LoginLockoutMaxFails > 0, NEW e \in Emails
        PROVE  guesses[e] <= LoginLockoutMaxFails + faults
    <3>1. failures[e] <= LoginLockoutMaxFails /\ guesses[e] <= failures[e] + faults
      BY <2>2 DEF Alone, FailuresOK
    <3>2. /\ failures[e] \in Nat /\ guesses[e] \in Nat /\ faults \in Nat
          /\ LoginLockoutMaxFails \in Nat
      BY Constants DEF TypeOK
    <3> QED
      BY <3>1, <3>2
  <2> QED
    BY <2>1, <2>2
<1> QED
  BY <1>1, Inductive, SerialInductive, PTL

\* ClosedStaysClosed: of requests that do not overlap, none opens a session again
\* that was closed by its user, by a change of password or because a token of it
\* came back.
THEOREM ClosedSessionsStayClosed == Spec => ClosedStaysClosed
<1>1. IInv /\ IInv' /\ SInv /\ [Next]_vars =>
        [~overlapped' => \A x \in Rows : Closed(x) => Session(x)' = {}]_vars
  BY NextAfter DEF After, KeepsClosed
<1> QED
  BY <1>1, Inductive, SerialInductive, PTL DEF Spec, ClosedStaysClosed
=============================================================================
