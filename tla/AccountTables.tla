--------------------------- MODULE AccountTables ---------------------------
(***************************************************************************)
(* The tables of an account and the statements the repositories send to    *)
(* them, as operators from tables to tables: users, email_verifications,   *)
(* password_reset_tokens, refresh_tokens, oauth_accounts, login_attempts.  *)
(* A row of the middle three is named by the request that inserted it, or  *)
(* Old.  Deleting a user deletes what refers to it (ON DELETE CASCADE).    *)
(***************************************************************************)
EXTENDS Naturals, FiniteSets

CONSTANTS Users, Emails, Identities, Requests,
          Old,     \* the rows that precede every request
          None     \* SQL NULL

Rows == Requests \cup {Old}

User  == [life: {"free", "live", "deleted"}, email: Emails \cup {None},
          password: Nat,             \* its version; 0 is the empty hash
          verified: BOOLEAN, pending: BOOLEAN]
Code  == [life: {"free", "active", "consumed", "deleted"},
          user: Users \cup {None}, attempts: Nat, at: Nat]
Reset == [life: {"free", "active", "consumed", "deleted"},
          user: Users \cup {None}]
Token == [life: {"free", "active", "revoked", "deleted"},
          user: Users \cup {None}, parent: Rows \cup {None}]

FreeUser  == [life |-> "free", email |-> None, password |-> 0,
              verified |-> FALSE, pending |-> FALSE]
FreeCode  == [life |-> "free", user |-> None, attempts |-> 0, at |-> 0]
FreeReset == [life |-> "free", user |-> None]
FreeToken == [life |-> "free", user |-> None, parent |-> None]
----------------------------------------------------------------------------
\* users
Live(users) == {u \in Users : users[u].life = "live"}
GetByEmail(users, e) == {u \in Live(users) : users[u].email = e}

CreateUser(users, u, e, password, verified) ==
  [users EXCEPT ![u] = [life |-> "live", email |-> e, password |-> password,
                        verified |-> verified, pending |-> FALSE]]
\* An UPDATE ... WHERE id = u of a user that is gone touches no row.
UpdateUserWhere(users, u, new) ==
  IF users[u].life = "live" THEN [users EXCEPT ![u] = new] ELSE users
UpdatePassword(users, u) ==
  UpdateUserWhere(users, u, [users[u] EXCEPT !.password = @ + 1])
MarkEmailVerified(users, u) ==
  UpdateUserWhere(users, u, [users[u] EXCEPT !.verified = TRUE])
RequestDeletion(users, u) ==
  UpdateUserWhere(users, u, [users[u] EXCEPT !.pending = TRUE])
CancelDeletion(users, u) ==
  UpdateUserWhere(users, u, [users[u] EXCEPT !.pending = FALSE])
\* The oldest of these whose grace period is over; the caller knows the time.
ListExpiredDeletions(users) == {u \in Live(users) : users[u].pending}
DeleteUser(users, u) == [users EXCEPT ![u] = [FreeUser EXCEPT !.life = "deleted"]]

CascadeTokens(tokens, u) ==
  [t \in Rows |-> IF tokens[t].user = u THEN [FreeToken EXCEPT !.life = "deleted"]
                                        ELSE tokens[t]]
CascadeLinks(links, u) ==
  [i \in Identities |-> IF links[i] = u THEN None ELSE links[i]]

\* oauth_accounts: UNIQUE (provider, provider_id) makes it a function.
GetOAuthAccount(links, i) == links[i]
CreateOAuthAccount(links, i, u) == [links EXCEPT ![i] = u]
----------------------------------------------------------------------------
\* email_verifications
ActiveCodes(codes, u) == {c \in Rows : codes[c].life = "active" /\ codes[c].user = u}
\* ORDER BY created_at DESC LIMIT 1
GetActiveByUserID(codes, u) ==
  {c \in ActiveCodes(codes, u) :
     \A d \in ActiveCodes(codes, u) : codes[d].at <= codes[c].at}
CreateCode(codes, c, u) ==
  [codes EXCEPT ![c] =
    [life |-> "active", user |-> u, attempts |-> 0,
     at |-> 1 + Cardinality({d \in Rows : codes[d].at > 0})]]
IncrementAttempts(codes, c) ==
  IF codes[c].life \in {"active", "consumed"}
    THEN [codes EXCEPT ![c].attempts = @ + 1] ELSE codes
ConsumeCode(codes, c) ==
  IF codes[c].life = "active" THEN [codes EXCEPT ![c].life = "consumed"] ELSE codes
DeleteCodes(codes, u) ==   \* consumed ones too; when they came is kept
  [c \in Rows |-> IF codes[c].user = u
                    THEN [FreeCode EXCEPT !.life = "deleted", !.at = codes[c].at]
                    ELSE codes[c]]

\* password_reset_tokens
CreateReset(resets, p, u) == [resets EXCEPT ![p] = [life |-> "active", user |-> u]]
ConsumeReset(resets, p) ==
  IF resets[p].life = "active" THEN [resets EXCEPT ![p].life = "consumed"] ELSE resets
DeleteResets(resets, u) ==
  [p \in Rows |-> IF resets[p].user = u THEN [FreeReset EXCEPT !.life = "deleted"]
                                        ELSE resets[p]]
----------------------------------------------------------------------------
\* refresh_tokens
ActiveTokens(tokens, u) ==
  {t \in Rows : tokens[t].life = "active" /\ tokens[t].user = u}
CreateToken(tokens, t, u, parent) ==
  [tokens EXCEPT ![t] = [life |-> "active", user |-> u, parent |-> parent]]
\* ... WHERE revoked_at IS NULL
RevokeTokens(tokens, S) ==
  [t \in Rows |-> IF t \in S /\ tokens[t].life = "active"
                    THEN [tokens[t] EXCEPT !.life = "revoked"] ELSE tokens[t]]
Revoke(tokens, t) == RevokeTokens(tokens, {t})

\* login_attempts, of which the recent failures count
RecordFailure(failures, e) == [failures EXCEPT ![e] = @ + 1]
============================================================================
