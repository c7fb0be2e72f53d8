------------------------------- MODULE Console -------------------------------
(***************************************************************************)
(* The accounts and sessions of the dashboard (internal/dashboard,         *)
(* internal/auth): the setup wizard and the bootstrap command that create  *)
(* the first admin, logins, pages behind requireSession, logouts, and the  *)
(* reset-password command.                                                 *)
(*                                                                         *)
(* Every statement commits by itself, so a handler is a read, a decision   *)
(* and a write with other requests in between.  A page's write of          *)
(* last_used_at runs in a goroutine of its own and may come at any later   *)
(* time, or never.                                                         *)
(*                                                                         *)
(* Left out: form parsing, the length and shape checks of the fields, the  *)
(* pages themselves.  A password stands for its Argon2id hash, a session   *)
(* token for its SHA-256.                                                  *)
(***************************************************************************)
EXTENDS Naturals, FiniteSets

CONSTANTS
  Requests,       \* dashboard handlers and commands that run at the same time
  Emails,         \* email addresses; users.email is unique
  Passwords,      \* passwords
  NoPassword,     \* no users row
  NoEmail,        \* no user
  Tokens, NoToken \* session tokens, and none

ASSUME ConsoleAssumption ==
  /\ NoPassword \notin Passwords
  /\ NoEmail \notin Emails
  /\ NoToken \notin Tokens

VARIABLES
  users,      \* password of each users row
  session,    \* sessions rows: user, expired, revoked, whether last_used_at is set
  req,        \* each handler: pc, and the email, password and token it works with
  touches,    \* goroutines of requireSession, by the token's row they update
  unrevoked   \* history: tokens whose logout met an error of the database

vars == <<users, session, req, touches, unrevoked>>

NoSession == [user |-> NoEmail, expired |-> FALSE, revoked |-> FALSE, used |-> FALSE]
Idle == [pc |-> "idle", email |-> NoEmail, password |-> NoPassword, token |-> NoToken]

Busy(r) == req[r].pc \notin {"idle", "loggedout"}

(***************************************************************************)
(* The first admin                                                         *)
(***************************************************************************)
CountUsers == Cardinality({e \in Emails : users[e] # NoPassword})

SetupComplete_one == CountUsers > 1
SetupComplete == CountUsers > 0

Begin(r, e, p) ==
  /\ ~Busy(r)
  /\ ~SetupComplete
  /\ req' = [req EXCEPT ![r] = [Idle EXCEPT !.pc = "creating", !.email = e, !.password = p]]
  /\ UNCHANGED <<users, session, touches, unrevoked>>

\* POST /setup gets past setupGate; once an admin exists it is redirected.
SetupGate(r, e, p) == Begin(r, e, p)

\* The bootstrap command counts the users; once there is one it does nothing.
Bootstrap(r, e, p) == Begin(r, e, p)

\* insert into users: it fails on an email that is taken.
Inserted(e, p) == IF users[e] = NoPassword THEN [users EXCEPT ![e] = p] ELSE users

CreateUser(r) ==
  /\ req[r].pc = "creating"
  /\ users' = Inserted(req[r].email, req[r].password)
  /\ req' = [req EXCEPT ![r] = Idle]
  /\ UNCHANGED <<session, touches, unrevoked>>

(***************************************************************************)
(* Sessions                                                                *)
(***************************************************************************)
\* GetUserByEmail finds a row.
UserExists(e) == users[e] # NoPassword

\* VerifyPassword: only the password that was hashed matches its hash.
VerifyPassword(e, p) == users[e] = p

Login_unknownUser(r, e, p) ==
  /\ ~Busy(r)
  /\ SetupComplete
  /\ users[e] \in {p, NoPassword}
  /\ req' = [req EXCEPT ![r] = [Idle EXCEPT !.pc = "verified", !.email = e]]
  /\ UNCHANGED <<users, session, touches, unrevoked>>
\* The password is verified against the row as it was read.
Login(r, e, p) ==
  /\ ~Busy(r)
  /\ SetupComplete
  /\ UserExists(e) /\ VerifyPassword(e, p)
  /\ req' = [req EXCEPT ![r] = [Idle EXCEPT !.pc = "verified", !.email = e]]
  /\ UNCHANGED <<users, session, touches, unrevoked>>

\* GenerateSessionToken: a token no session has had before.
Fresh(t) == session[t] = NoSession

\* insert into sessions: neither used, revoked nor expired.
NewSession(e) == [NoSession EXCEPT !.user = e]

CreateSession(r, t) ==
  /\ req[r].pc = "verified"
  /\ Fresh(t)
  /\ session' = [session EXCEPT ![t] = NewSession(req[r].email)]
  /\ req' = [req EXCEPT ![r] = Idle]
  /\ UNCHANGED <<users, touches, unrevoked>>

\* The where clause of GetActiveSessionByHash.
Active(t) == session[t].user # NoEmail /\ ~session[t].revoked /\ ~session[t].expired

\* A page request with the cookie: the handler runs, and a goroutine will touch the row.
RequireSession(r, t) ==
  /\ ~Busy(r)
  /\ Active(t)
  /\ req' = [req EXCEPT ![r] = [Idle EXCEPT !.pc = "page", !.token = t]]
  /\ touches' = touches \cup {t}
  /\ UNCHANGED <<users, session, unrevoked>>

ServePage(r) ==
  /\ req[r].pc = "page"
  /\ req' = [req EXCEPT ![r] = Idle]
  /\ UNCHANGED <<users, session, touches, unrevoked>>

Touched_row(s) == [NoSession EXCEPT !.user = s.user, !.used = TRUE]
\* update sessions set last_used_at: no other column.
Touched(s) == [s EXCEPT !.used = TRUE]

TouchSessionLastUsed(t) ==
  /\ t \in touches
  /\ touches' = touches \ {t}
  /\ \/ session' = [session EXCEPT ![t] = Touched(@)]
     \/ UNCHANGED session   \* it failed, which is only logged
  /\ UNCHANGED <<users, req, unrevoked>>

Logout_cookieOnly(r, t) ==
  /\ ~Busy(r)
  /\ session[t] # NoSession
  /\ req' = [req EXCEPT ![r] = [Idle EXCEPT !.pc = "loggedout", !.token = t]]
  /\ UNCHANGED <<users, session, touches, unrevoked>>
\* handleLogout looks the session up; without an active one it only clears the cookie.
Logout(r, t) ==
  /\ ~Busy(r)
  /\ session[t] # NoSession
  /\ req' = [req EXCEPT ![r] = [Idle EXCEPT !.pc = IF Active(t) THEN "revoking" ELSE "loggedout",
                                            !.token = t]]
  /\ UNCHANGED <<users, session, touches, unrevoked>>

\* An error of GetActiveSessionByHash counts as "no session": the cookie is cleared,
\* the session stays as it is and nobody is told.
LogoutLookupFails(r, t) ==
  /\ ~Busy(r)
  /\ session[t] # NoSession
  /\ req' = [req EXCEPT ![r] = [Idle EXCEPT !.pc = "loggedout", !.token = t]]
  /\ unrevoked' = unrevoked \cup {t}
  /\ UNCHANGED <<users, session, touches>>

Revoked(s) == [s EXCEPT !.revoked = TRUE]

\* A failure is logged, and the browser is told it is logged out all the same.
RevokeSession(r) ==
  LET t == req[r].token
  IN /\ req[r].pc = "revoking"
     /\ \/ session' = [session EXCEPT ![t] = Revoked(@)] /\ UNCHANGED unrevoked
        \/ unrevoked' = unrevoked \cup {t} /\ UNCHANGED session
     /\ req' = [req EXCEPT ![r].pc = "loggedout"]
     /\ UNCHANGED <<users, touches>>

\* A login's or a setup's statement fails: an error page.
StatementFails(r) ==
  /\ req[r].pc \in {"creating", "verified", "page"}
  /\ req' = [req EXCEPT ![r] = Idle]
  /\ UNCHANGED <<users, session, touches, unrevoked>>

\* UpdateUserPassword, which counts the rows it updated.
UpdatePassword(e, p) == IF UserExists(e) THEN [users EXCEPT ![e] = p] ELSE users

\* reset-password: the user's sessions stay as they are; no row is an error.
ResetPassword(e, p) ==
  /\ UserExists(e)
  /\ users' = UpdatePassword(e, p)
  /\ UNCHANGED <<session, req, touches, unrevoked>>

\* expires_at passes.
Expire(t) ==
  /\ session[t].user # NoEmail /\ ~session[t].expired
  /\ session' = [session EXCEPT ![t].expired = TRUE]
  /\ UNCHANGED <<users, req, touches, unrevoked>>

Init ==
  /\ users = [e \in Emails |-> NoPassword]
  /\ session = [t \in Tokens |-> NoSession]
  /\ req = [r \in Requests |-> Idle]
  /\ touches = {}
  /\ unrevoked = {}

Next ==
  \/ \E r \in Requests :
       \/ \E e \in Emails, p \in Passwords : SetupGate(r, e, p) \/ Bootstrap(r, e, p) \/ Login(r, e, p)
       \/ \E t \in Tokens : \/ CreateSession(r, t) \/ RequireSession(r, t)
                           \/ Logout(r, t) \/ LogoutLookupFails(r, t)
       \/ CreateUser(r)
       \/ ServePage(r)
       \/ RevokeSession(r)
       \/ StatementFails(r)
  \/ \E t \in Tokens : TouchSessionLastUsed(t) \/ Expire(t)
  \/ \E e \in Emails, p \in Passwords : ResetPassword(e, p)

Spec == Init /\ [][Next]_vars

(***************************************************************************)
(* Properties                                                              *)
(***************************************************************************)
\* The type of the rows and the handlers, and the shape a handler's state has
\* in each place of its code.
TypeOK ==
  /\ users \in [Emails -> Passwords \cup {NoPassword}]
  /\ session \in [Tokens -> [user : Emails \cup {NoEmail}, expired : BOOLEAN,
                             revoked : BOOLEAN, used : BOOLEAN]]
  /\ \A r \in Requests :
       /\ req[r].pc \in {"idle", "creating", "verified", "page", "revoking", "loggedout"}
       /\ req[r].pc = "creating" => req[r].email \in Emails /\ req[r].password \in Passwords
       /\ req[r].pc = "verified" => users[req[r].email] # NoPassword
       /\ req[r].pc \in {"page", "revoking", "loggedout"} =>
            session[req[r].token].user \in Emails
  /\ touches \cup unrevoked \subseteq {t \in Tokens : session[t].user # NoEmail}

\* Setups past the gate that have not created their account yet.
Creating == {r \in Requests : req[r].pc = "creating"}

\* setupGate and runBootstrap: once an admin exists the door is shut: further
\* accounts come only from the setups that were already past the gate, one each,
\* and no account goes away.
SetupDrains ==
  [][CountUsers > 0 =>
       /\ CountUsers' >= CountUsers
       /\ CountUsers' + Cardinality(Creating') <= CountUsers + Cardinality(Creating)]_vars

\* Sessions end for good: neither the detached write of last_used_at nor a
\* second logout or login brings a revoked or expired session back.
EndedStaysEnded ==
  [][\A t \in Tokens : session[t] # NoSession /\ ~Active(t) => ~Active(t)' /\ session'[t] # NoSession]_vars

\* handleLogout: a browser that was told it is logged out has no usable session
\* left, unless the database failed a logout of that session (the lookup or the
\* revocation, both of which the browser is not told of).
LogoutEndsSession ==
  \A r \in Requests :
    req[r].pc = "loggedout" => ~Active(req[r].token) \/ req[r].token \in unrevoked

\* "Once an admin exists, /setup is permanently unreachable": no account is
\* created by a setup once there is one.
SetupUnreachable ==
  [][CountUsers > 0 => \A e \in Emails : users[e] = NoPassword => users'[e] = NoPassword]_vars
=============================================================================
