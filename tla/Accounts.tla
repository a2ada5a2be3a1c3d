------------------------------ MODULE Accounts ------------------------------
(***************************************************************************)
(* The life of an account: internal/service/auth.go behind                 *)
(* internal/handler/auth.go, run by concurrent HTTP requests against one   *)
(* PostgreSQL database (READ COMMITTED).  One request is one value of      *)
(* Requests and is served once; it names the rows it inserts.  Every       *)
(* statement is an action; what a transaction writes becomes visible at    *)
(* its commit, and the locks it holds until then are derived from where it *)
(* is.  Expiry is a choice wherever the code compares with the clock.      *)
(***************************************************************************)
EXTENDS AccountTables

CONSTANTS OTPMaxAttempts, LoginLockoutMaxFails, RequireEmailVerified,
          MaxFaults   \* bound on the writes whose failure the code only logs

ASSUME PolicyOK ==
  /\ OTPMaxAttempts \in Nat /\ LoginLockoutMaxFails \in Nat /\ MaxFaults \in Nat
  /\ RequireEmailVerified \in BOOLEAN /\ IsFiniteSet(Requests)
  /\ Old \notin Requests /\ Rows \cap Emails = {}
  /\ None \notin Users \cup Emails \cup Identities \cup Rows

VARIABLES
  users, codes, resets, tokens, links, failures,   \* the tables
  req,         \* the requests, and what each has read
  root,        \* history: the login each refresh token descends from
  knows,       \* history: the password version that login knew
  guesses,     \* history: wrong guesses of each code, and of each email's password
  uses,        \* history: the passwords set with each reset token
  faults,      \* how many writes have failed unnoticed
  overlapped   \* history: two requests have been under way at a time

db      == <<users, codes, resets, tokens, links, failures>>
history == <<root, knows, guesses, uses, faults>>
vars    == <<db, req, history, overlapped>>

Steps == {"findUser", "issue", "insertUser", "commitUser", "revoke", "rotate",
          "revokeOne", "sweep", "swept", "check", "dropCodes", "insertCode",
          "dropResets", "insertReset", "update", "cancel", "purge",
          "oauthEmail", "link", "commitLink"}
Ops == {"none", "register", "login", "refresh", "reuse", "logout", "logoutAll",
        "verify", "resend", "forgot", "reset", "change", "delete", "cancel",
        "purge", "oauth"}

Request == [pc: {"new", "done"} \cup Steps, op: Ops,
            user: Users \cup {None}, email: Emails \cup {None},
            identity: Identities \cup {None}, row: Rows \cup {None},
            pw: Nat,               \* the password version a login has shown
            sees: SUBSET Rows,     \* the tokens a sweep found active
            list: SUBSET Users]    \* the accounts a purge has yet to delete

NewRequest ==
  [pc |-> "new", op |-> "none", user |-> None, email |-> None, identity |-> None,
   row |-> None, pw |-> 0, sees |-> {}, list |-> {}]

\* The account of one user may exist, in any of the ways it may have been
\* made: registered, verified, or made by OAuth; and may be about to go.
Account ==
  {a \in [life: {"live"}, email: Emails, password: {0, 1}, verified: BOOLEAN,
          pending: BOOLEAN] : a.password = 0 => a.verified}
InitUsers == {[v \in Users |-> FreeUser]} \cup
             {[v \in Users |-> IF v = u THEN a ELSE FreeUser] : u \in Users, a \in Account}

\* The row Old of the existing user, if there is one.
OldRow(Free, u, l) ==
  [r \in Rows |-> IF r = Old THEN [Free EXCEPT !.life = l, !.user = u] ELSE Free]
OldOf(Free, states) == {[r \in Rows |-> Free]} \cup
                       {OldRow(Free, u, l) : u \in Live(users), l \in states}

Init ==
  /\ users \in InitUsers
  /\ codes \in {c \in OldOf(FreeCode, {"active"}) :
                  \A u \in Users : c[Old].user = u => ~users[u].verified}
  /\ resets \in OldOf(FreeReset, {"active"})
  /\ tokens \in OldOf(FreeToken, {"active", "revoked"})
  /\ links = [i \in Identities |->
                IF \E u \in Users : users[u].life = "live" /\ users[u].password = 0
                  THEN CHOOSE u \in Users : users[u].life = "live" ELSE None]
  /\ failures = [e \in Emails |-> 0]
  /\ req = [r \in Requests |-> NewRequest]
  /\ root = [t \in Rows |-> t]
  /\ knows = [t \in Rows |-> IF tokens[t].user = None THEN 0
                                               ELSE users[tokens[t].user].password]
  /\ guesses = [x \in Rows \cup Emails |-> 0]
  /\ uses = [p \in Rows |-> 0]
  /\ faults = 0 /\ overlapped = FALSE
----------------------------------------------------------------------------
UnderWay(r) == req[r].pc \in Steps

Go(r, new) == /\ req[r].pc # "new" /\ req' = [req EXCEPT ![r] = new]
              /\ UNCHANGED overlapped
Done == [NewRequest EXCEPT !.pc = "done"]
Finish(r) == Go(r, Done)

\* A request is served: it reads something and goes on, or is done at once.
Start(r, new) ==
  /\ req[r].pc = "new"
  /\ req' = [req EXCEPT ![r] = new]
  /\ overlapped' = (overlapped \/ \E s \in Requests : UnderWay(s))
  /\ UNCHANGED <<db, history>>
Refuse(r) == Start(r, Done)

\* UPDATE users and MarkEmailVerified lock the row against each other; an
\* inserted row that refers to a user keeps the user from being deleted.
LocksUser(r, u)   == req[r].user = u /\ req[r].op \in {"reset", "change", "delete"}
                       /\ req[r].pc \in {"sweep", "swept"}
RefersTo(r, u)    == req[r].user = u /\ req[r].pc \in {"rotate", "commitLink"}
LocksToken(r, t)  == req[r].pc = "rotate" /\ req[r].row = t /\ tokens[t].life = "active"
UserFree(r, u)    == \A s \in Requests \ {r} : ~LocksUser(s, u)
TokensFree(r, S)  == \A s \in Requests \ {r}, t \in S : ~LocksToken(s, t)

At(r, pc) == req[r].pc = pc
----------------------------------------------------------------------------
(***************************************************************************)
(* Register: the email is looked up, then the transaction inserts the      *)
(* user, a verification code and a token.  An INSERT of an email another   *)
(* transaction is inserting waits for its commit (UNIQUE).                 *)
(***************************************************************************)
Register(r, e) ==
  IF GetByEmail(users, e) # {} THEN Refuse(r)
  ELSE Start(r, [NewRequest EXCEPT !.pc = "insertUser", !.op = "register", !.email = e])

Inserting(r, e) == At(r, "commitUser") /\ req[r].email = e

InsertUser(r) ==
  /\ At(r, "insertUser")
  /\ \A s \in Requests : ~Inserting(s, req[r].email)
  /\ IF GetByEmail(users, req[r].email) # {} THEN Finish(r)
     ELSE \E u \in Users :
            /\ users[u].life = "free" /\ \A s \in Requests : req[s].user # u
            /\ Go(r, [req[r] EXCEPT !.pc = "commitUser", !.user = u])
  /\ UNCHANGED <<db, history>>

\* A token that a login issues begins a session.
NewSession(r, u, pw) ==
  /\ root' = [root EXCEPT ![r] = r]
  /\ knows' = [knows EXCEPT ![r] = pw]
  /\ UNCHANGED <<guesses, uses, faults>>

CommitRegister(r) ==
  LET u == req[r].user IN
  /\ At(r, "commitUser") /\ req[r].op = "register"
  /\ users' = CreateUser(users, u, req[r].email, 1, FALSE)
  /\ codes' = CreateCode(codes, r, u)
  /\ tokens' = CreateToken(tokens, r, u, None)
  /\ NewSession(r, u, 1)
  /\ Finish(r)
  /\ UNCHANGED <<resets, links, failures>>

(***************************************************************************)
(* Login: the recent failures are counted, the user is read and the        *)
(* password compared, and a token is issued without a transaction.  A      *)
(* failure is recorded; that the record is lost is only logged.            *)
(***************************************************************************)
Login(r, e) ==
  IF failures[e] >= LoginLockoutMaxFails /\ LoginLockoutMaxFails > 0 THEN Refuse(r)
  ELSE Start(r, [NewRequest EXCEPT !.pc = "findUser", !.op = "login", !.email = e])

\* The write is made, or fails and is counted among the faults.
Logged(write, table) ==
  \/ write /\ UNCHANGED faults
  \/ /\ faults < MaxFaults /\ faults' = faults + 1
     /\ UNCHANGED table

MayLogIn(u) == /\ users[u].password # 0
               /\ RequireEmailVerified => users[u].verified

LoginPasses(r) ==
  /\ At(r, "findUser")
  /\ \E u \in GetByEmail(users, req[r].email) :
       /\ MayLogIn(u)
       /\ Go(r, [req[r] EXCEPT !.pc = "issue", !.user = u, !.pw = users[u].password])
  /\ UNCHANGED <<db, history>>

\* No such user, no password, a wrong one, or the email is not verified.
LoginFails(r) ==
  LET e == req[r].email IN
  /\ At(r, "findUser")
  /\ Logged(failures' = RecordFailure(failures, e), failures)
  /\ guesses' = [guesses EXCEPT ![e] = @ + 1]
  /\ Finish(r)
  /\ UNCHANGED <<users, codes, resets, tokens, links, root, knows, uses>>

\* issueTokenPair outside a transaction; the user may be gone (foreign key).
IssueToken(r) ==
  LET u == req[r].user IN
  /\ At(r, "issue")
  /\ IF users[u].life = "live"
       THEN tokens' = CreateToken(tokens, r, u, None) /\ NewSession(r, u, req[r].pw)
       ELSE UNCHANGED <<tokens, history>>
  /\ Finish(r)
  /\ UNCHANGED <<users, codes, resets, links, failures>>

\* Failures grow older than LoginLockoutWindow.
WindowPasses(e) ==
  /\ failures[e] > 0
  /\ failures' = [failures EXCEPT ![e] = 0]
  /\ guesses' = [guesses EXCEPT ![e] = 0]
  /\ UNCHANGED <<users, codes, resets, tokens, links, req, root, knows, uses, faults,
                 overlapped>>
----------------------------------------------------------------------------
(***************************************************************************)
(* RefreshToken: a revoked token that comes back revokes every token of    *)
(* its user; an active one is revoked and replaced in a transaction, which *)
(* does not look at it again.                                              *)
(***************************************************************************)

Using(r, op, pc, t) ==
  Start(r, [NewRequest EXCEPT !.pc = pc, !.op = op, !.row = t, !.user = tokens[t].user])

MutRefresh(r, t) ==   \* no reuse detection, and no check of revoked_at
  IF tokens[t].life \in {"active", "revoked"} THEN Using(r, "refresh", "revoke", t)
  ELSE Refuse(r)

Refresh(r, t) ==
  \/ tokens[t].life = "revoked" /\ Using(r, "reuse", "sweep", t)
  \/ tokens[t].life = "active" /\ Using(r, "refresh", "revoke", t)
  \/ Refuse(r)   \* unknown, or expired

RefreshRevoke(r) ==
  /\ At(r, "revoke") /\ TokensFree(r, {req[r].row})
  /\ Go(r, [req[r] EXCEPT !.pc = "rotate"])
  /\ UNCHANGED <<db, history>>

Child(r) ==   \* the token continues the session of the one it replaces
  /\ root' = [root EXCEPT ![r] = root[req[r].row]]
  /\ knows' = [knows EXCEPT ![r] = knows[req[r].row]]
  /\ UNCHANGED <<guesses, uses, faults>>

MutRotate(r) ==   \* the old token is left as it is
  LET u == req[r].user IN
  /\ At(r, "rotate")
  /\ IF users[u].life = "live"
       THEN tokens' = CreateToken(tokens, r, u, req[r].row) /\ Child(r)
       ELSE UNCHANGED <<tokens, history>>
  /\ Finish(r)
  /\ UNCHANGED <<users, codes, resets, links, failures>>

Rotate(r) ==
  LET u == req[r].user IN
  /\ At(r, "rotate")
  /\ IF users[u].life = "live"
       THEN /\ tokens' = CreateToken(Revoke(tokens, req[r].row), r, u, req[r].row)
            /\ Child(r)
       ELSE UNCHANGED <<tokens, history>>
  /\ Finish(r)
  /\ UNCHANGED <<users, codes, resets, links, failures>>

\* Logout needs the token, RevokeSession its id and its owner.
Logout(r, t) ==
  IF tokens[t].user = None THEN Refuse(r) ELSE Using(r, "logout", "revokeOne", t)
RevokeSession(r, u, t) ==
  IF tokens[t].user = u /\ tokens[t].life = "active"
    THEN Using(r, "logout", "revokeOne", t) ELSE Refuse(r)

RevokeOne(r) ==
  /\ At(r, "revokeOne") /\ TokensFree(r, {req[r].row})
  /\ tokens' = Revoke(tokens, req[r].row)
  /\ Finish(r)
  /\ UNCHANGED <<users, codes, resets, links, failures, history>>

LogoutAll(r, u) ==
  Start(r, [NewRequest EXCEPT !.pc = "sweep", !.op = "logoutAll", !.user = u])

(***************************************************************************)
(* RevokeAllForUser, alone or last in a transaction: it finds the active   *)
(* tokens, waits for those another transaction holds, and revokes what is  *)
(* still active of those it found.                                         *)
(***************************************************************************)
Sweep(r) ==
  /\ At(r, "sweep")
  /\ Go(r, [req[r] EXCEPT !.pc = "swept", !.sees = ActiveTokens(tokens, req[r].user)])
  /\ UNCHANGED <<db, history>>

UsersOf(r) ==   \* what the transaction of the sweep has written before
  LET u == req[r].user IN
  CASE req[r].op \in {"reset", "change"} -> UpdatePassword(users, u)
    [] req[r].op = "delete" -> RequestDeletion(users, u)
    [] OTHER -> users

MutCommitSweep(r) ==   \* a password change keeps the sessions
  /\ At(r, "swept") /\ TokensFree(r, req[r].sees)
  /\ tokens' = IF req[r].op = "change" THEN tokens ELSE RevokeTokens(tokens, req[r].sees)
  /\ users' = UsersOf(r)
  /\ IF req[r].op = "reset"
       THEN /\ resets' = ConsumeReset(resets, req[r].row)
            /\ uses' = [uses EXCEPT ![req[r].row] = @ + 1]
       ELSE UNCHANGED <<resets, uses>>
  /\ Finish(r)
  /\ UNCHANGED <<codes, links, failures, root, knows, guesses, faults>>

CommitSweep(r) ==
  /\ At(r, "swept") /\ TokensFree(r, req[r].sees)
  /\ tokens' = RevokeTokens(tokens, req[r].sees)
  /\ users' = UsersOf(r)
  /\ IF req[r].op = "reset"
       THEN /\ resets' = ConsumeReset(resets, req[r].row)
            /\ uses' = [uses EXCEPT ![req[r].row] = @ + 1]
       ELSE UNCHANGED <<resets, uses>>
  /\ Finish(r)
  /\ UNCHANGED <<codes, links, failures, root, knows, guesses, faults>>
----------------------------------------------------------------------------
(***************************************************************************)
(* ResendVerification and ForgotPassword replace what they sent before by  *)
(* a DELETE and an INSERT, each a transaction of its own.                  *)
(***************************************************************************)
Replacing(r, u, op, pc) ==
  Start(r, [NewRequest EXCEPT !.pc = pc, !.op = op, !.user = u])

ResendVerification(r, e) ==
  \/ \E u \in GetByEmail(users, e) :
       ~users[u].verified /\ Replacing(r, u, "resend", "dropCodes")
  \/ (\A u \in GetByEmail(users, e) : users[u].verified) /\ Refuse(r)

MutDropCodes(r) ==   \* the earlier codes stay
  /\ At(r, "dropCodes")
  /\ Go(r, [req[r] EXCEPT !.pc = "insertCode"])
  /\ UNCHANGED <<db, history>>

DropCodes(r) ==
  /\ At(r, "dropCodes")
  /\ codes' = DeleteCodes(codes, req[r].user)
  /\ Go(r, [req[r] EXCEPT !.pc = "insertCode"])
  /\ UNCHANGED <<users, resets, tokens, links, failures, history>>

InsertCode(r) ==
  /\ At(r, "insertCode")
  /\ codes' = IF users[req[r].user].life = "live" THEN CreateCode(codes, r, req[r].user)
                                                  ELSE codes
  /\ Finish(r)
  /\ UNCHANGED <<users, resets, tokens, links, failures, history>>

ForgotPassword(r, e) ==
  \/ \E u \in GetByEmail(users, e) : Replacing(r, u, "forgot", "dropResets")
  \/ GetByEmail(users, e) = {} /\ Refuse(r)

DropResets(r) ==
  /\ At(r, "dropResets")
  /\ resets' = DeleteResets(resets, req[r].user)
  /\ Go(r, [req[r] EXCEPT !.pc = "insertReset"])
  /\ UNCHANGED <<users, codes, tokens, links, failures, history>>

MutInsertReset(r) ==   \* no foreign key to the user
  /\ At(r, "insertReset")
  /\ resets' = CreateReset(resets, r, req[r].user)
  /\ Finish(r)
  /\ UNCHANGED <<users, codes, tokens, links, failures, history>>

InsertReset(r) ==
  /\ At(r, "insertReset")
  /\ resets' = IF users[req[r].user].life = "live"
                 THEN CreateReset(resets, r, req[r].user) ELSE resets
  /\ Finish(r)
  /\ UNCHANGED <<users, codes, tokens, links, failures, history>>

(***************************************************************************)
(* VerifyEmail: the newest code is read; a wrong guess is counted against  *)
(* it, a right one consumes it and verifies the email in a transaction.    *)
(***************************************************************************)
MutVerifyEmail(r, e) ==   \* no limit of attempts
  \E u \in GetByEmail(users, e) : \E c \in GetActiveByUserID(codes, u) :
    /\ ~users[u].verified
    /\ Start(r, [NewRequest EXCEPT !.pc = "check", !.op = "verify", !.user = u,
                                   !.row = c])

VerifyEmail(r, e) ==
  \/ \E u \in GetByEmail(users, e) : \E c \in GetActiveByUserID(codes, u) :
       /\ ~users[u].verified /\ codes[c].attempts < OTPMaxAttempts
       /\ Start(r, [NewRequest EXCEPT !.pc = "check", !.op = "verify", !.user = u,
                                      !.row = c])
  \/ Refuse(r)   \* no such user or code, verified already, expired, too many

WrongCode(r) ==
  LET c == req[r].row IN
  /\ At(r, "check")
  /\ Logged(codes' = IncrementAttempts(codes, c), codes)
  /\ guesses' = [guesses EXCEPT ![c] = @ + 1]
  /\ Finish(r)
  /\ UNCHANGED <<users, resets, tokens, links, failures, root, knows, uses>>

RightCode(r) ==
  /\ At(r, "check") /\ UserFree(r, req[r].user)
  /\ codes' = ConsumeCode(codes, req[r].row)
  /\ users' = MarkEmailVerified(users, req[r].user)
  /\ Finish(r)
  /\ UNCHANGED <<resets, tokens, links, failures, history>>
----------------------------------------------------------------------------
(***************************************************************************)
(* ResetPassword, ChangePassword and RequestAccountDeletion read first,    *)
(* then update the user and revoke the user's tokens in a transaction.     *)
(***************************************************************************)
ResetPassword(r, p) ==
  \/ /\ resets[p].life = "active"
     /\ Start(r, [NewRequest EXCEPT !.pc = "update", !.op = "reset", !.row = p,
                                    !.user = resets[p].user])
  \/ Refuse(r)   \* unknown, consumed or expired

ChangePassword(r, u) ==
  \/ /\ users[u].life = "live" /\ users[u].password # 0
     /\ Start(r, [NewRequest EXCEPT !.pc = "update", !.op = "change", !.user = u])
  \/ Refuse(r)   \* no such user, no password, or another one

RequestAccountDeletion(r, u) ==
  IF users[u].life = "live" /\ ~users[u].pending
    THEN Start(r, [NewRequest EXCEPT !.pc = "update", !.op = "delete", !.user = u])
    ELSE Refuse(r)

\* An update of a user that is gone touches no row; RequestDeletion then
\* reports it, as it does when the deletion is pending already.
UpdateUser(r) ==
  LET u == req[r].user IN
  /\ At(r, "update") /\ UserFree(r, u)
  /\ IF req[r].op = "delete" /\ (users[u].life # "live" \/ users[u].pending)
       THEN Finish(r) ELSE Go(r, [req[r] EXCEPT !.pc = "sweep"])
  /\ UNCHANGED <<db, history>>

CancelAccountDeletion(r, u) ==
  IF users[u].life = "live" /\ users[u].pending
    THEN Start(r, [NewRequest EXCEPT !.pc = "cancel", !.op = "cancel", !.user = u])
    ELSE Refuse(r)

Cancel(r) ==
  /\ At(r, "cancel") /\ UserFree(r, req[r].user)
  /\ users' = CancelDeletion(users, req[r].user)
  /\ Finish(r)
  /\ UNCHANGED <<codes, resets, tokens, links, failures, history>>

(***************************************************************************)
(* PurgeExpiredAccounts lists the accounts whose grace period is over and  *)
(* deletes them one by one; a DELETE that fails is skipped.  It waits for  *)
(* the transactions that hold the user or refer to it.                     *)
(***************************************************************************)

Purge(r) ==
  \E due \in SUBSET ListExpiredDeletions(users) :
    Start(r, [NewRequest EXCEPT !.pc = "purge", !.op = "purge", !.list = due])

Purged(r, u) == Go(r, IF req[r].list = {u} THEN Done
                      ELSE [req[r] EXCEPT !.list = @ \ {u}])

PurgeUser(r, u) ==
  /\ At(r, "purge") /\ u \in req[r].list
  /\ \A s \in Requests \ {r} : ~LocksUser(s, u) /\ ~RefersTo(s, u)
  /\ users' = DeleteUser(users, u)
  /\ codes' = DeleteCodes(codes, u)
  /\ resets' = DeleteResets(resets, u)
  /\ tokens' = CascadeTokens(tokens, u)
  /\ links' = CascadeLinks(links, u)
  /\ Purged(r, u)
  /\ UNCHANGED <<failures, history>>

PurgeSkips(r, u) ==
  /\ At(r, "purge") /\ u \in req[r].list
  /\ Purged(r, u)
  /\ UNCHANGED <<db, history>>

PurgeNothing(r) == /\ At(r, "purge") /\ req[r].list = {}
                   /\ Finish(r) /\ UNCHANGED <<db, history>>
----------------------------------------------------------------------------
(***************************************************************************)
(* FindOrCreateOAuthUser: an account the identity is linked to is logged   *)
(* in; otherwise the email's user, or a new one, is verified and linked in *)
(* a transaction.  An INSERT of a link another transaction is inserting    *)
(* waits for its commit (UNIQUE (provider, provider_id)).                  *)
(***************************************************************************)
FindOrCreateOAuthUser(r, i, e) ==
  LET u == GetOAuthAccount(links, i)
      as == [NewRequest EXCEPT !.op = "oauth", !.identity = i, !.email = e] IN
  Start(r, IF u = None THEN [as EXCEPT !.pc = "oauthEmail"]
           ELSE [as EXCEPT !.pc = "issue", !.user = u, !.pw = users[u].password])

OAuthEmail(r) ==
  /\ At(r, "oauthEmail")
  /\ \/ \E u \in GetByEmail(users, req[r].email) :
          Go(r, [req[r] EXCEPT !.pc = "link", !.user = u])
     \/ /\ GetByEmail(users, req[r].email) = {}
        /\ Go(r, [req[r] EXCEPT !.pc = "insertUser"])
  /\ UNCHANGED <<db, history>>

\* MarkEmailVerified, then the link; for a user of this very transaction the
\* two and the commit are one action, as nobody else can refer to it.
Linking(r, i) == At(r, "commitLink") /\ req[r].identity = i

LinkAccount(r) ==
  LET i == req[r].identity IN
  /\ At(r, "link") /\ UserFree(r, req[r].user)
  /\ \A s \in Requests : ~Linking(s, i)
  /\ IF links[i] # None \/ users[req[r].user].life # "live" THEN Finish(r)
     ELSE Go(r, [req[r] EXCEPT !.pc = "commitLink"])
  /\ UNCHANGED <<db, history>>

CommitLink(r) ==
  LET u == req[r].user IN
  /\ At(r, "commitLink")
  /\ users' = MarkEmailVerified(users, u)
  /\ links' = CreateOAuthAccount(links, req[r].identity, u)
  /\ tokens' = CreateToken(tokens, r, u, None)
  /\ NewSession(r, u, users[u].password)
  /\ Finish(r)
  /\ UNCHANGED <<codes, resets, failures>>

CommitOAuthUser(r) ==
  LET u == req[r].user  i == req[r].identity IN
  /\ At(r, "commitUser") /\ req[r].op = "oauth"
  /\ \A s \in Requests : ~Linking(s, i)
  /\ IF links[i] # None THEN UNCHANGED <<users, links, tokens, history>>
     ELSE /\ users' = CreateUser(users, u, req[r].email, 0, TRUE)
          /\ links' = CreateOAuthAccount(links, i, u)
          /\ tokens' = CreateToken(tokens, r, u, None)
          /\ NewSession(r, u, 0)
  /\ Finish(r)
  /\ UNCHANGED <<codes, resets, failures>>
----------------------------------------------------------------------------
\* A statement fails, the client goes away, the server stops, or PostgreSQL
\* breaks a deadlock: the handler returns, and its transaction is rolled back.
Abort(r) == /\ UnderWay(r) /\ Finish(r) /\ UNCHANGED <<db, history>>

(***************************************************************************)
(* The handlers: what each takes from a request.  An access token stays    *)
(* good after its user is gone, and says nothing of refresh tokens.        *)
(***************************************************************************)
Callers == {u \in Users : users[u].life # "free"}

HandleRegister(r)       == \E e \in Emails : Register(r, e)
HandleLogin(r)          == \E e \in Emails : Login(r, e)
HandleRefresh(r)        == \E t \in Rows : Refresh(r, t)
HandleLogout(r)         == \E t \in Rows : Logout(r, t)
HandleLogoutAll(r)      == \E u \in Callers : LogoutAll(r, u)
HandleRevokeSession(r)  == \E u \in Callers, t \in Rows : RevokeSession(r, u, t)
HandleDeleteAccount(r)  == \E u \in Callers : RequestAccountDeletion(r, u)
HandleCancelDeletion(r) == \E u \in Callers : CancelAccountDeletion(r, u)
HandleVerifyEmail(r)    == \E e \in Emails : VerifyEmail(r, e)
HandleResendVerification(r) == \E e \in Emails : ResendVerification(r, e)
HandleForgotPassword(r) == \E e \in Emails : ForgotPassword(r, e)
HandleResetPassword(r)  == \E p \in Rows : ResetPassword(r, p)
HandleChangePassword(r) == \E u \in Callers : ChangePassword(r, u)
HandleGoogleCallback(r) ==
  \E i \in Identities, e \in Emails : FindOrCreateOAuthUser(r, i, e)

Arrive(r) ==
  \/ HandleRegister(r) \/ HandleLogin(r) \/ HandleRefresh(r) \/ HandleLogout(r)
  \/ HandleLogoutAll(r) \/ HandleRevokeSession(r) \/ HandleDeleteAccount(r)
  \/ HandleCancelDeletion(r) \/ HandleVerifyEmail(r) \/ HandleResendVerification(r)
  \/ HandleForgotPassword(r) \/ HandleResetPassword(r) \/ HandleChangePassword(r)
  \/ HandleGoogleCallback(r) \/ Purge(r)

Step(r) ==
  \/ InsertUser(r) \/ CommitRegister(r)
  \/ LoginPasses(r) \/ LoginFails(r) \/ IssueToken(r)
  \/ RefreshRevoke(r) \/ Rotate(r) \/ RevokeOne(r) \/ Sweep(r) \/ CommitSweep(r)
  \/ DropCodes(r) \/ InsertCode(r) \/ DropResets(r) \/ InsertReset(r)
  \/ WrongCode(r) \/ RightCode(r) \/ UpdateUser(r) \/ Cancel(r)
  \/ \E u \in Users : PurgeUser(r, u) \/ PurgeSkips(r, u)
  \/ PurgeNothing(r)
  \/ OAuthEmail(r) \/ LinkAccount(r) \/ CommitLink(r) \/ CommitOAuthUser(r)

Next == \/ \E r \in Requests : Arrive(r) \/ Step(r) \/ Abort(r)
        \/ \E e \in Emails : WindowPasses(e)

Spec == Init /\ [][Next]_vars
----------------------------------------------------------------------------
TypeOK ==
  /\ users \in [Users -> User] /\ codes \in [Rows -> Code]
  /\ resets \in [Rows -> Reset] /\ tokens \in [Rows -> Token]
  /\ links \in [Identities -> Users \cup {None}] /\ failures \in [Emails -> Nat]
  /\ req \in [Requests -> Request]
  /\ root \in [Rows -> Rows] /\ knows \in [Rows -> Nat]
  /\ guesses \in [Rows \cup Emails -> Nat] /\ uses \in [Rows -> Nat]
  /\ faults \in 0..MaxFaults /\ overlapped \in BOOLEAN

(***************************************************************************)
(* No two accounts share an email, though Register and the OAuth login     *)
(* look the email up before the transaction that inserts the user.         *)
(***************************************************************************)
OneUserPerEmail ==
  \A u, v \in Live(users) : users[u].email = users[v].email => u = v

(***************************************************************************)
(* What refers to a user goes with it, and nothing that was on its way     *)
(* when the account was purged turns up later.                             *)
(***************************************************************************)
NoOrphans ==
  /\ \A c \in Rows : codes[c].user # None => users[codes[c].user].life = "live"
  /\ \A p \in Rows : resets[p].user # None => users[resets[p].user].life = "live"
  /\ \A t \in Rows : tokens[t].user # None => users[tokens[t].user].life = "live"
  /\ \A i \in Identities : links[i] # None => users[links[i]].life = "live"

\* The declarations of the tables hold: types, unique emails, foreign keys.
SchemaKept == TypeOK /\ OneUserPerEmail /\ NoOrphans

\* A token that was replaced is never good again, however refreshes of it,
\* logouts and sweeps interleave, and stays its user's.
ReplacedIsRevoked ==
  \A t \in Rows : tokens[t].parent # None
    => /\ tokens[tokens[t].parent].life = "revoked"
       /\ tokens[tokens[t].parent].user = tokens[t].user

(***************************************************************************)
(* The following hold for requests that do not overlap; the README says    *)
(* which interleavings break each.                                         *)
(***************************************************************************)
Session(x) == {t \in Rows : root[t] = x /\ tokens[t].life = "active"}

\* One session has one good refresh token at a time (refresh token rotation).
OneTokenPerSession ==
  ~overlapped => \A x \in Rows : Cardinality(Session(x)) <= 1

Closed(x) == Session(x) = {} /\ \E t \in Rows : root[t] = x /\ tokens[t].life = "revoked"

\* A session that was closed, by its user, by a change of password or because
\* a token of it came back, is never open again.
ClosedStaysClosed ==
  [][~overlapped' => \A x \in Rows : Closed(x) => Session(x)' = {}]_vars

\* Whoever holds a good refresh token knew the password there is now.
SessionsKnowPassword ==
  ~overlapped => \A t \in Rows :
    tokens[t].life = "active" => knows[t] = users[tokens[t].user].password

\* issueVerificationCode and ForgotPassword: the last one sent is the only one
\* that works, and it sets one password.
OneActiveCode ==
  ~overlapped => \A u \in Users :
    /\ Cardinality(ActiveCodes(codes, u)) <= 1
    /\ Cardinality({p \in Rows : resets[p].life = "active" /\ resets[p].user = u}) <= 1

ResetOnce == ~overlapped => \A p \in Rows : uses[p] <= 1

\* Of what replaces something sent before only the last works: one refresh
\* token of a session, one code and one reset token of a user, used once.
OnlyLastWorks == OneTokenPerSession /\ OneActiveCode /\ ResetOnce

\* No code is guessed, and no password is within the window, more often than
\* the policy says, but for the guesses whose record was lost.
GuessesBounded ==
  ~overlapped => /\ \A c \in Rows : guesses[c] <= OTPMaxAttempts + faults
                 /\ LoginLockoutMaxFails > 0   \* 0: there is no lockout
                      => \A e \in Emails : guesses[e] <= LoginLockoutMaxFails + faults
=============================================================================
