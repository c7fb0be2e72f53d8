---------------------------- MODULE ConsoleProofs ----------------------------
(***************************************************************************)
(* Proofs about the dashboard's accounts and sessions, for any number of   *)
(* overlapping requests, of accounts and of sessions.                      *)
(***************************************************************************)
EXTENDS Console, FiniteSetTheorems, TLAPS

\* What the parts of the state need to know of each other: a handler works with
\* an email and a token of the rows, and a history only ever names real rows.
HandlerState ==
  [pc : {"idle", "creating", "verified", "page", "revoking", "loggedout"},
   email : Emails \cup {NoEmail}, password : Passwords \cup {NoPassword},
   token : Tokens \cup {NoToken}]

SessionRow == [user : Emails \cup {NoEmail}, expired : BOOLEAN,
               revoked : BOOLEAN, used : BOOLEAN]

HandlerOK == req \in [Requests -> HandlerState]

HandlerInv ==
  \A r \in Requests :
    /\ req[r].pc = "verified" => req[r].email \in Emails
    /\ req[r].pc \in {"page", "revoking", "loggedout"} => req[r].token \in Tokens

\* A token without a user has no row at all.
RowInv == \A t \in Tokens : session[t].user = NoEmail => session[t] = NoSession

\* The inductive invariant: the types, what a handler holds, and that a logout
\* that was answered ended its session.
ConsoleInv == TypeOK /\ HandlerOK /\ HandlerInv /\ RowInv /\ LogoutEndsSession

\* What the statements on sessions do to a row.
LEMMA RowOperations ==
  ASSUME NEW s \in SessionRow, NEW e \in Emails
  PROVE  /\ NewSession(e) \in SessionRow /\ NewSession(e).user = e
         /\ Touched(s) \in SessionRow /\ Touched(s).user = s.user
         /\ Touched(s).expired = s.expired /\ Touched(s).revoked = s.revoked
         /\ Revoked(s) \in SessionRow /\ Revoked(s).user = s.user
         /\ Revoked(s).expired = s.expired /\ Revoked(s).revoked = TRUE
BY DEF SessionRow, NewSession, NoSession, Touched, Revoked

LEMMA InitConsole == Init => ConsoleInv
BY ConsoleAssumption
   DEF Init, ConsoleInv, RowInv, TypeOK, SessionRow, HandlerOK, HandlerState, HandlerInv, LogoutEndsSession, Idle, NoSession

\* A row of sessions only changes from nothing to a new session, or to a session
\* of the same user that is no less expired and no less revoked.
SessionsAge ==
  \A t \in Tokens :
    session[t].user # NoEmail =>
      /\ session'[t].user = session[t].user
      /\ session[t].expired => session'[t].expired
      /\ session[t].revoked => session'[t].revoked

LEMMA RowStep ==
  ASSUME session \in [Tokens -> SessionRow], RowInv, NEW t \in Tokens, NEW s \in SessionRow,
         session' = [session EXCEPT ![t] = s],
         session[t].user # NoEmail, s.user = session[t].user,
         s.expired = session[t].expired \/ s.expired = TRUE,
         s.revoked = session[t].revoked \/ s.revoked = TRUE
  PROVE  session' \in [Tokens -> SessionRow] /\ RowInv' /\ SessionsAge
<1>1. /\ session' \in [Tokens -> SessionRow] /\ session'[t] = s
      /\ \A u \in Tokens \ {t} : session'[u] = session[u]
  OBVIOUS
<1>2. RowInv'
  BY <1>1 DEF RowInv, NoSession
<1>3. SessionsAge
  BY <1>1 DEF SessionsAge
<1>4. QED
  BY <1>1, <1>2, <1>3

\* A users row never goes away.
UsersStay == \A e \in Emails : users[e] # NoPassword => users'[e] # NoPassword

\* A step that leaves the handlers alone, ages sessions and keeps users.
LEMMA SessionStep ==
  ASSUME ConsoleInv, UNCHANGED <<req>>, SessionsAge, UsersStay,
         users' \in [Emails -> Passwords \cup {NoPassword}],
         session' \in [Tokens -> SessionRow], RowInv',
         touches' \subseteq touches, unrevoked' = unrevoked
  PROVE  ConsoleInv'
<1>1. TypeOK'
  BY DEF ConsoleInv, TypeOK, SessionRow, HandlerOK, HandlerState, HandlerInv, SessionsAge, UsersStay
<1>2. HandlerOK' /\ HandlerInv'
  BY DEF ConsoleInv, HandlerOK, HandlerState, HandlerInv
<1>3. LogoutEndsSession'
  BY ConsoleAssumption
     DEF ConsoleInv, TypeOK, SessionRow, HandlerOK, HandlerState, HandlerInv, LogoutEndsSession, Active, SessionsAge
<1>4. QED
  BY <1>1, <1>2, <1>3 DEF ConsoleInv

\* A step of handler r that changes no session and no user.
LEMMA HandlerStep ==
  ASSUME ConsoleInv, NEW r \in Requests, NEW h,
         req' = [req EXCEPT ![r] = h], UNCHANGED <<users, session>>,
         touches' \subseteq {t \in Tokens : session[t].user # NoEmail},
         unrevoked' \subseteq {t \in Tokens : session[t].user # NoEmail},
         unrevoked \subseteq unrevoked',
         h \in HandlerState,
         h.pc = "creating" => h.email \in Emails /\ h.password \in Passwords,
         h.pc = "verified" => h.email \in Emails /\ users[h.email] # NoPassword,
         h.pc \in {"page", "revoking", "loggedout"} =>
           h.token \in Tokens /\ session[h.token].user \in Emails,
         h.pc = "loggedout" => ~Active(h.token) \/ h.token \in unrevoked'
  PROVE  ConsoleInv'
<1>1. TypeOK'
  BY DEF ConsoleInv, TypeOK, SessionRow, HandlerOK, HandlerState, HandlerInv
<1>2. HandlerOK' /\ HandlerInv' /\ RowInv'
  BY DEF ConsoleInv, HandlerOK, HandlerState, HandlerInv, RowInv
<1>3. LogoutEndsSession'
  BY DEF ConsoleInv, HandlerOK, HandlerState, LogoutEndsSession, Active
<1>4. QED
  BY <1>1, <1>2, <1>3 DEF ConsoleInv

LEMMA BackToIdle ==
  ASSUME ConsoleInv, NEW r \in Requests,
         req' = [req EXCEPT ![r] = Idle], UNCHANGED <<users, session, touches, unrevoked>>
  PROVE  ConsoleInv'
BY HandlerStep DEF Idle, HandlerState, ConsoleInv, TypeOK, SessionRow

\* The four statements that write sessions.
LEMMA CreateSessionAges ==
  ASSUME ConsoleInv, NEW r \in Requests, NEW t \in Tokens, CreateSession(r, t)
  PROVE  /\ session' \in [Tokens -> SessionRow] /\ RowInv' /\ SessionsAge
         /\ \A s \in Tokens : session[s].user # NoEmail => session'[s] = session[s]
<1>1. PICK e \in Emails : e = req[r].email
  BY DEF CreateSession, ConsoleInv, HandlerInv
<1>2. session[t] = NoSession /\ session' = [session EXCEPT ![t] = NewSession(e)]
  BY <1>1 DEF CreateSession, Fresh
<1>3. session[t].user = NoEmail /\ session[t] \in SessionRow
  BY <1>2 DEF NoSession, SessionRow
<1>4. NewSession(e) \in SessionRow /\ NewSession(e).user = e
  BY <1>3, RowOperations
<1>5. \A s \in Tokens : session[s].user # NoEmail => session'[s] = session[s]
  BY <1>2, <1>3 DEF ConsoleInv, TypeOK
<1>6. session' \in [Tokens -> SessionRow] /\ RowInv'
  BY <1>2, <1>4, ConsoleAssumption DEF ConsoleInv, TypeOK, SessionRow, RowInv, NoSession
<1>7. QED
  BY <1>5, <1>6 DEF SessionsAge

LEMMA RevokeSessionAges ==
  ASSUME ConsoleInv, NEW r \in Requests, RevokeSession(r)
  PROVE  session' \in [Tokens -> SessionRow] /\ RowInv' /\ SessionsAge
<1>1. PICK t \in Tokens : t = req[r].token
  BY DEF RevokeSession, ConsoleInv, HandlerInv
<1>2. /\ session[t].user \in Emails
      /\ session' = [session EXCEPT ![t] = Revoked(session[t])] \/ session' = session
  BY <1>1 DEF RevokeSession, ConsoleInv, TypeOK
<1>3. session \in [Tokens -> SessionRow] /\ session[t] \in SessionRow
  BY DEF ConsoleInv, TypeOK, SessionRow
<1>4. /\ Revoked(session[t]) \in SessionRow /\ Revoked(session[t]).user = session[t].user
      /\ Revoked(session[t]).expired = session[t].expired /\ Revoked(session[t]).revoked = TRUE
  BY <1>2, <1>3, RowOperations
<1>5. CASE session' = session
  BY <1>5, <1>3 DEF ConsoleInv, RowInv, SessionsAge
<1>6. CASE session' = [session EXCEPT ![t] = Revoked(session[t])]
  BY <1>6, <1>2, <1>3, <1>4, RowStep, ConsoleAssumption DEF ConsoleInv
<1>7. QED
  BY <1>2, <1>5, <1>6

LEMMA TouchSessionAges ==
  ASSUME ConsoleInv, NEW t \in Tokens, TouchSessionLastUsed(t)
  PROVE  session' \in [Tokens -> SessionRow] /\ RowInv' /\ SessionsAge
<1>1. /\ session' = [session EXCEPT ![t] = Touched(session[t])] \/ session' = session
      /\ session[t].user # NoEmail
  BY DEF TouchSessionLastUsed, ConsoleInv, TypeOK
<1>2. session \in [Tokens -> SessionRow] /\ session[t] \in SessionRow
  BY DEF ConsoleInv, TypeOK, SessionRow
<1>3. /\ Touched(session[t]) \in SessionRow /\ Touched(session[t]).user = session[t].user
      /\ Touched(session[t]).expired = session[t].expired
      /\ Touched(session[t]).revoked = session[t].revoked
  BY <1>1, <1>2, RowOperations DEF SessionRow
<1>4. CASE session' = session
  BY <1>4, <1>2 DEF ConsoleInv, RowInv, SessionsAge
<1>5. CASE session' = [session EXCEPT ![t] = Touched(session[t])]
  BY <1>5, <1>1, <1>2, <1>3, RowStep DEF ConsoleInv
<1>6. QED
  BY <1>1, <1>4, <1>5

LEMMA ExpireAges ==
  ASSUME ConsoleInv, NEW t \in Tokens, Expire(t)
  PROVE  session' \in [Tokens -> SessionRow] /\ RowInv' /\ SessionsAge
<1> DEFINE s == [session[t] EXCEPT !.expired = TRUE]
<1>1. session' = [session EXCEPT ![t] = s] /\ session[t].user # NoEmail
  BY DEF Expire
<1>2. session \in [Tokens -> SessionRow] /\ session[t] \in SessionRow
  BY DEF ConsoleInv, TypeOK, SessionRow
<1>3. /\ s \in SessionRow /\ s.user = session[t].user /\ s.expired = TRUE
      /\ s.revoked = session[t].revoked
  BY <1>2 DEF SessionRow
<1> HIDE DEF s
<1>4. QED
  BY <1>1, <1>2, <1>3, RowStep DEF ConsoleInv

LEMMA ConsoleStep ==
  ASSUME ConsoleInv, [Next]_vars
  PROVE  ConsoleInv'
<1> USE ConsoleAssumption
<1>1. ASSUME NEW r \in Requests, NEW e \in Emails, NEW p \in Passwords,
             SetupGate(r, e, p) \/ Bootstrap(r, e, p)
      PROVE  ConsoleInv'
  <2> DEFINE h == [Idle EXCEPT !.pc = "creating", !.email = e, !.password = p]
  <2>1. h \in HandlerState /\ h.pc = "creating" /\ h.email = e /\ h.password = p
    BY DEF Idle, HandlerState
  <2>2. req' = [req EXCEPT ![r] = h] /\ UNCHANGED <<users, session, touches, unrevoked>>
    BY <1>1 DEF SetupGate, Bootstrap, Begin
  <2> HIDE DEF h
  <2>3. QED
    BY <2>1, <2>2, HandlerStep DEF ConsoleInv, TypeOK, SessionRow
<1>2. ASSUME NEW r \in Requests, NEW e \in Emails, NEW p \in Passwords, Login(r, e, p)
      PROVE  ConsoleInv'
  <2> DEFINE h == [Idle EXCEPT !.pc = "verified", !.email = e]
  <2>1. h \in HandlerState /\ h.pc = "verified" /\ h.email = e
    BY DEF Idle, HandlerState
  <2>2. /\ req' = [req EXCEPT ![r] = h] /\ UNCHANGED <<users, session, touches, unrevoked>>
        /\ users[e] # NoPassword
    BY <1>2 DEF Login, UserExists
  <2> HIDE DEF h
  <2>3. QED
    BY <2>1, <2>2, HandlerStep DEF ConsoleInv, TypeOK, SessionRow
<1>3. ASSUME NEW r \in Requests, NEW t \in Tokens, CreateSession(r, t)
      PROVE  ConsoleInv'
  <2>1. req' = [req EXCEPT ![r] = Idle] /\ UNCHANGED <<users, touches, unrevoked>>
    BY <1>3 DEF CreateSession
  <2>2. /\ session' \in [Tokens -> SessionRow] /\ RowInv'
        /\ \A s \in Tokens : session[s].user # NoEmail => session'[s] = session[s]
    BY <1>3, CreateSessionAges
  <2>3. TypeOK'
    BY <2>1, <2>2
       DEF ConsoleInv, TypeOK, SessionRow, HandlerOK, HandlerState, HandlerInv, Idle
  <2>4. HandlerOK' /\ HandlerInv'
    BY <2>1 DEF ConsoleInv, HandlerOK, HandlerState, HandlerInv, Idle
  <2>5. LogoutEndsSession'
    BY <2>1, <2>2
       DEF ConsoleInv, TypeOK, HandlerOK, HandlerState, HandlerInv, LogoutEndsSession, Active, Idle
  <2>6. QED
    BY <2>2, <2>3, <2>4, <2>5 DEF ConsoleInv
<1>4. ASSUME NEW r \in Requests, NEW t \in Tokens, RequireSession(r, t)
      PROVE  ConsoleInv'
  <2> DEFINE h == [Idle EXCEPT !.pc = "page", !.token = t]
  <2>1. h \in HandlerState /\ h.pc = "page" /\ h.token = t
    BY DEF Idle, HandlerState
  <2>2. /\ req' = [req EXCEPT ![r] = h] /\ UNCHANGED <<users, session, unrevoked>>
        /\ touches' = touches \cup {t} /\ session[t].user # NoEmail
    BY <1>4 DEF RequireSession, Active
  <2> HIDE DEF h
  <2>3. QED
    BY <2>1, <2>2, HandlerStep DEF ConsoleInv, TypeOK, SessionRow
<1>5. ASSUME NEW r \in Requests, NEW t \in Tokens, Logout(r, t)
      PROVE  ConsoleInv'
  <2> DEFINE h == [Idle EXCEPT !.pc = IF Active(t) THEN "revoking" ELSE "loggedout", !.token = t]
  <2>1. /\ h \in HandlerState /\ h.token = t
        /\ h.pc = IF Active(t) THEN "revoking" ELSE "loggedout"
    BY DEF Idle, HandlerState
  <2>2. /\ req' = [req EXCEPT ![r] = h] /\ UNCHANGED <<users, session, touches, unrevoked>>
        /\ session[t] # NoSession
    BY <1>5 DEF Logout
  <2> HIDE DEF h
  <2>3. session[t].user # NoEmail
    BY <2>2 DEF ConsoleInv, RowInv
  <2>4. QED
    BY <2>1, <2>2, <2>3, HandlerStep DEF ConsoleInv, TypeOK, SessionRow
<1>6. ASSUME NEW r \in Requests, NEW t \in Tokens, LogoutLookupFails(r, t)
       PROVE  ConsoleInv'
  <2> DEFINE h == [Idle EXCEPT !.pc = "loggedout", !.token = t]
  <2>1. h \in HandlerState /\ h.token = t /\ h.pc = "loggedout"
    BY DEF Idle, HandlerState
  <2>2. /\ req' = [req EXCEPT ![r] = h] /\ UNCHANGED <<users, session, touches>>
        /\ unrevoked' = unrevoked \cup {t} /\ session[t] # NoSession
    BY <1>6 DEF LogoutLookupFails
  <2> HIDE DEF h
  <2>3. session[t].user # NoEmail
    BY <2>2 DEF ConsoleInv, RowInv
  <2>4. QED
    BY <2>1, <2>2, <2>3, HandlerStep DEF ConsoleInv, TypeOK, SessionRow
<1>7. ASSUME NEW r \in Requests, CreateUser(r)
      PROVE  ConsoleInv'
  <2>1. /\ req' = [req EXCEPT ![r] = Idle]
        /\ users' = [users EXCEPT ![req[r].email] = req[r].password] \/ users' = users
        /\ req[r].email \in Emails /\ req[r].password \in Passwords
        /\ UNCHANGED <<session, touches, unrevoked>>
    BY <1>7 DEF CreateUser, Inserted, ConsoleInv, TypeOK, SessionRow
  <2>2. TypeOK'
    BY <2>1 DEF ConsoleInv, TypeOK, SessionRow, HandlerOK, HandlerState, HandlerInv, Idle
  <2>3. HandlerOK' /\ HandlerInv' /\ RowInv'
    BY <2>1 DEF ConsoleInv, HandlerOK, HandlerState, HandlerInv, Idle, RowInv
  <2>4. LogoutEndsSession'
    BY <2>1 DEF ConsoleInv, HandlerOK, HandlerState, LogoutEndsSession, Active, Idle
  <2>5. QED
    BY <2>2, <2>3, <2>4 DEF ConsoleInv
<1>8. ASSUME NEW r \in Requests, ServePage(r) \/ StatementFails(r)
      PROVE  ConsoleInv'
  BY <1>8, BackToIdle DEF ServePage, StatementFails
<1>9. ASSUME NEW r \in Requests, RevokeSession(r)
      PROVE  ConsoleInv'
  <2>1. PICK t \in Tokens : t = req[r].token
    BY <1>9 DEF RevokeSession, ConsoleInv, HandlerInv
  <2>2. /\ session[t].user \in Emails
        /\ req' = [req EXCEPT ![r].pc = "loggedout"]
        /\ UNCHANGED <<users, touches>>
        /\ \/ session' = [session EXCEPT ![t] = Revoked(session[t])] /\ unrevoked' = unrevoked
           \/ session' = session /\ unrevoked' = unrevoked \cup {t}
    BY <1>9, <2>1 DEF RevokeSession, ConsoleInv, TypeOK
  <2>3. /\ req'[r].pc = "loggedout" /\ req'[r].token = t
        /\ \A q \in Requests \ {r} : req'[q] = req[q]
        /\ HandlerOK' /\ HandlerInv'
    BY <2>1, <2>2 DEF ConsoleInv, HandlerOK, HandlerState, HandlerInv
  <2>4. session' \in [Tokens -> SessionRow] /\ RowInv' /\ SessionsAge
    BY <1>9, RevokeSessionAges
  <2>5. unrevoked' \subseteq unrevoked \cup {t} /\ unrevoked \subseteq unrevoked'
    BY <2>2
  <2>6. TypeOK'
    BY <2>2, <2>3, <2>4, <2>5
       DEF ConsoleInv, TypeOK, SessionRow, HandlerOK, HandlerState, HandlerInv, SessionsAge
  <2>7. ~Active(t)' \/ t \in unrevoked'
    <3>1. session[t] \in SessionRow
      BY DEF ConsoleInv, TypeOK, SessionRow
    <3>2. Revoked(session[t]).revoked = TRUE
      BY <2>2, <3>1, RowOperations
    <3>3. QED
      BY <2>2, <3>2 DEF Active, ConsoleInv, TypeOK
  <2>8. \A s \in Tokens : session[s].user # NoEmail /\ ~Active(s) => ~Active(s)'
    BY <2>4 DEF Active, SessionsAge
  <2>9. LogoutEndsSession'
    <3> SUFFICES ASSUME NEW q \in Requests, (req[q].pc = "loggedout")'
                 PROVE  (~Active(req[q].token) \/ req[q].token \in unrevoked)'
      BY DEF LogoutEndsSession
    <3>1. CASE q = r
      BY <3>1, <2>3, <2>7 DEF Active
    <3>2. CASE q # r
      <4>1. req[q].pc = "loggedout" /\ req'[q].token = req[q].token
        BY <3>2, <2>3
      <4>2. req[q].token \in Tokens /\ session[req[q].token].user \in Emails
        BY <4>1 DEF ConsoleInv, TypeOK, HandlerInv
      <4>3. ~Active(req[q].token) \/ req[q].token \in unrevoked
        BY <4>1 DEF ConsoleInv, LogoutEndsSession
      <4>4. QED
        BY <4>1, <4>2, <4>3, <2>5, <2>8 DEF Active
    <3>3. QED
      BY <3>1, <3>2
  <2>10. QED
    BY <2>3, <2>4, <2>6, <2>9 DEF ConsoleInv
<1>10. ASSUME NEW t \in Tokens, TouchSessionLastUsed(t)
      PROVE  ConsoleInv'
  BY <1>10, TouchSessionAges, SessionStep DEF TouchSessionLastUsed, UsersStay, ConsoleInv, TypeOK
<1>11. ASSUME NEW t \in Tokens, Expire(t)
       PROVE  ConsoleInv'
  BY <1>11, ExpireAges, SessionStep DEF Expire, UsersStay, ConsoleInv, TypeOK
<1>12. ASSUME NEW e \in Emails, NEW p \in Passwords, ResetPassword(e, p)
       PROVE  ConsoleInv'
  <2>1. users' = [users EXCEPT ![e] = p] /\ UNCHANGED <<session, req, touches, unrevoked>>
    BY <1>12 DEF ResetPassword, UpdatePassword
  <2>2. UsersStay /\ users' \in [Emails -> Passwords \cup {NoPassword}]
    BY <2>1 DEF ConsoleInv, TypeOK, SessionRow, UsersStay
  <2>3. QED
    BY <2>1, <2>2, SessionStep DEF SessionsAge, ConsoleInv, TypeOK, SessionRow, RowInv
<1>13. CASE UNCHANGED vars
  BY <1>13, SessionStep DEF vars, SessionsAge, UsersStay, ConsoleInv, TypeOK, SessionRow, RowInv
<1>14. QED
  BY <1>1, <1>2, <1>3, <1>4, <1>5, <1>6, <1>7, <1>8, <1>9, <1>10, <1>11, <1>12, <1>13
     DEF Next

\* The rows and the handlers of the dashboard have their types, and every handler
\* holds what its place in the code needs, whatever the requests and their order.
THEOREM ConsoleTypeCorrect == Spec => []TypeOK
<1>1. ConsoleInv => TypeOK
  BY DEF ConsoleInv
<1>2. QED
  BY <1>1, InitConsole, ConsoleStep, PTL DEF Spec

\* handleLogout: a browser told it is logged out has no usable session left, unless
\* the database failed the lookup or the revocation of a logout of that session.
THEOREM LogoutEndsSessionAlways == Spec => []LogoutEndsSession
<1>1. ConsoleInv => LogoutEndsSession
  BY DEF ConsoleInv
<1>2. QED
  BY <1>1, InitConsole, ConsoleStep, PTL DEF Spec

\* Whatever step is taken, sessions only age.
LEMMA SessionsOnlyAge ==
  ASSUME ConsoleInv, [Next]_vars
  PROVE  SessionsAge
<1>1. ASSUME NEW r \in Requests, NEW t \in Tokens, CreateSession(r, t)
      PROVE  SessionsAge
  BY <1>1, CreateSessionAges
<1>2. ASSUME NEW r \in Requests, RevokeSession(r)
      PROVE  SessionsAge
  BY <1>2, RevokeSessionAges
<1>3. ASSUME NEW t \in Tokens, TouchSessionLastUsed(t)
      PROVE  SessionsAge
  BY <1>3, TouchSessionAges
<1>4. ASSUME NEW t \in Tokens, Expire(t)
      PROVE  SessionsAge
  BY <1>4, ExpireAges
<1>5. CASE UNCHANGED session
  BY <1>5 DEF SessionsAge
<1>6. QED
  BY <1>1, <1>2, <1>3, <1>4, <1>5
     DEF Next, vars, SetupGate, Bootstrap, Begin, Login, RequireSession, Logout,
         LogoutLookupFails, CreateUser, ServePage, StatementFails, ResetPassword

\* Sessions end for good: no write of last_used_at that comes late, no second
\* logout and no login brings a revoked or expired session back.
THEOREM EndedStaysEndedAlways == Spec => EndedStaysEnded
<1>1. ASSUME ConsoleInv, [Next]_vars
      PROVE  [\A t \in Tokens : session[t] # NoSession /\ ~Active(t) =>
                ~Active(t)' /\ session'[t] # NoSession]_vars
  <2>1. SessionsAge
    BY <1>1, SessionsOnlyAge
  <2>2. SUFFICES ASSUME NEW t \in Tokens, session[t] # NoSession, ~Active(t)
                 PROVE  ~Active(t)' /\ session'[t] # NoSession
    OBVIOUS
  <2>3. session[t].user # NoEmail
    BY <1>1, <2>2 DEF ConsoleInv, RowInv
  <2>4. QED
    BY <2>1, <2>2, <2>3 DEF SessionsAge, Active, NoSession
<1>2. QED
  BY <1>1, InitConsole, ConsoleStep, PTL DEF Spec, EndedStaysEnded

(***************************************************************************)
(* The setup gate.  Accounts and setups are counted, so the proof also      *)
(* shows that there are finitely many of both at any time.                  *)
(***************************************************************************)
Accounts == {e \in Emails : users[e] # NoPassword}

FiniteInv == IsFiniteSet(Accounts) /\ IsFiniteSet(Creating)

\* What SetupDrains says of one step.
Drains ==
  CountUsers > 0 =>
    /\ CountUsers' >= CountUsers
    /\ CountUsers' + Cardinality(Creating') <= CountUsers + Cardinality(Creating)

LEMMA NoNewSetup ==
  ASSUME FiniteInv, Accounts' = Accounts, Creating' \subseteq Creating
  PROVE  FiniteInv' /\ Drains
<1>1. /\ IsFiniteSet(Creating') /\ Cardinality(Creating') <= Cardinality(Creating)
      /\ Cardinality(Creating') \in Nat /\ Cardinality(Creating) \in Nat
  BY FS_Subset, FS_CardinalityType DEF FiniteInv
<1>2. CountUsers' = CountUsers /\ CountUsers \in Nat
  BY FS_CardinalityType DEF FiniteInv, CountUsers, Accounts
<1>3. QED
  BY <1>1, <1>2 DEF FiniteInv, Drains

LEMMA BeginDrains ==
  ASSUME ConsoleInv, FiniteInv, NEW r \in Requests, NEW e \in Emails, NEW p \in Passwords,
         Begin(r, e, p)
  PROVE  FiniteInv' /\ Drains
<1>1. Creating' = Creating \cup {r} /\ Accounts' = Accounts /\ ~(CountUsers > 0)
  BY DEF Begin, Creating, Accounts, SetupComplete, Idle, ConsoleInv, HandlerOK
<1>2. QED
  BY <1>1, FS_AddElement DEF FiniteInv, Drains

LEMMA CreateUserDrains ==
  ASSUME ConsoleInv, FiniteInv, NEW r \in Requests, CreateUser(r)
  PROVE  FiniteInv' /\ Drains
<1>1. PICK e \in Emails : e = req[r].email
  BY DEF CreateUser, ConsoleInv, TypeOK
<1>2. r \in Creating /\ Creating' = Creating \ {r}
  BY DEF CreateUser, Creating, Idle, ConsoleInv, HandlerOK
<1>3. Accounts' = Accounts \cup {e} \/ Accounts' = Accounts
  BY <1>1, ConsoleAssumption DEF CreateUser, Inserted, Accounts, ConsoleInv, TypeOK
<1>4. /\ IsFiniteSet(Creating') /\ Cardinality(Creating') = Cardinality(Creating) - 1
      /\ Cardinality(Creating) \in Nat
  BY <1>2, FS_RemoveElement, FS_CardinalityType DEF FiniteInv
<1>5. /\ IsFiniteSet(Accounts') /\ Cardinality(Accounts) \in Nat
      /\ Cardinality(Accounts') \in {Cardinality(Accounts), Cardinality(Accounts) + 1}
  BY <1>3, FS_AddElement, FS_CardinalityType DEF FiniteInv
<1>6. CountUsers = Cardinality(Accounts) /\ CountUsers' = Cardinality(Accounts')
  BY DEF CountUsers, Accounts
<1>7. QED
  BY <1>4, <1>5, <1>6 DEF FiniteInv, Drains

LEMMA DrainStep ==
  ASSUME ConsoleInv, FiniteInv, [Next]_vars
  PROVE  FiniteInv' /\ Drains
<1>1. ASSUME NEW r \in Requests, NEW e \in Emails, NEW p \in Passwords,
             SetupGate(r, e, p) \/ Bootstrap(r, e, p)
      PROVE  FiniteInv' /\ Drains
  BY <1>1, BeginDrains DEF SetupGate, Bootstrap
<1>2. ASSUME NEW r \in Requests, CreateUser(r)
      PROVE  FiniteInv' /\ Drains
  BY <1>2, CreateUserDrains
<1>3. ASSUME NEW e \in Emails, NEW p \in Passwords, ResetPassword(e, p)
      PROVE  FiniteInv' /\ Drains
  <2>1. Accounts' = Accounts
    BY <1>3, ConsoleAssumption
       DEF ResetPassword, UpdatePassword, UserExists, Accounts, ConsoleInv, TypeOK
  <2>2. Creating' = Creating
    BY <1>3 DEF ResetPassword, Creating
  <2>3. QED
    BY <2>1, <2>2, NoNewSetup
<1>4. ASSUME UNCHANGED users,
             \/ UNCHANGED req
             \/ \E r \in Requests : \E h :
                  /\ req' = [req EXCEPT ![r] = h] /\ h.pc # "creating"
      PROVE  FiniteInv' /\ Drains
  BY <1>4, NoNewSetup DEF Accounts, Creating, ConsoleInv, HandlerOK
<1>5. ASSUME NEW r \in Requests, NEW e \in Emails, NEW p \in Passwords, Login(r, e, p)
      PROVE  FiniteInv' /\ Drains
  <2> DEFINE h == [Idle EXCEPT !.pc = "verified", !.email = e]
  <2>1. h.pc # "creating" /\ req' = [req EXCEPT ![r] = h] /\ UNCHANGED users
    BY <1>5 DEF Login, Idle
  <2>2. QED
    BY <2>1, <1>4
<1>6. ASSUME NEW r \in Requests, NEW t \in Tokens, RequireSession(r, t)
      PROVE  FiniteInv' /\ Drains
  <2> DEFINE h == [Idle EXCEPT !.pc = "page", !.token = t]
  <2>1. h.pc # "creating" /\ req' = [req EXCEPT ![r] = h] /\ UNCHANGED users
    BY <1>6 DEF RequireSession, Idle
  <2>2. QED
    BY <2>1, <1>4
<1>7. ASSUME NEW r \in Requests, NEW t \in Tokens, Logout(r, t)
      PROVE  FiniteInv' /\ Drains
  <2> DEFINE h == [Idle EXCEPT !.pc = IF Active(t) THEN "revoking" ELSE "loggedout", !.token = t]
  <2>1. h.pc # "creating" /\ req' = [req EXCEPT ![r] = h] /\ UNCHANGED users
    BY <1>7 DEF Logout, Idle
  <2>2. QED
    BY <2>1, <1>4
<1>8. ASSUME NEW r \in Requests, NEW t \in Tokens, LogoutLookupFails(r, t)
       PROVE  FiniteInv' /\ Drains
  <2> DEFINE h == [Idle EXCEPT !.pc = "loggedout", !.token = t]
  <2>1. h.pc # "creating" /\ req' = [req EXCEPT ![r] = h] /\ UNCHANGED users
    BY <1>8 DEF LogoutLookupFails, Idle
  <2>2. QED
    BY <2>1, <1>4
<1>9. ASSUME NEW r \in Requests,
             \/ \E t \in Tokens : CreateSession(r, t)
             \/ ServePage(r) \/ StatementFails(r)
      PROVE  FiniteInv' /\ Drains
  <2>1. Idle.pc # "creating" /\ req' = [req EXCEPT ![r] = Idle] /\ UNCHANGED users
    BY <1>9 DEF CreateSession, ServePage, StatementFails, Idle
  <2>2. QED
    BY <2>1, <1>4
<1>10. ASSUME NEW r \in Requests, RevokeSession(r)
      PROVE  FiniteInv' /\ Drains
  <2> DEFINE h == [req[r] EXCEPT !.pc = "loggedout"]
  <2>1. h.pc # "creating" /\ req' = [req EXCEPT ![r] = h] /\ UNCHANGED users
    BY <1>10 DEF RevokeSession, ConsoleInv, HandlerOK, HandlerState
  <2>2. QED
    BY <2>1, <1>4
<1>11. CASE \/ \E t \in Tokens : TouchSessionLastUsed(t) \/ Expire(t)
            \/ UNCHANGED vars
  BY <1>4, <1>11 DEF TouchSessionLastUsed, Expire, vars
<1>12. QED
  BY <1>1, <1>2, <1>3, <1>5, <1>6, <1>7, <1>8, <1>9, <1>10, <1>11 DEF Next

\* setupGate and runBootstrap, for any number of setups that race: once an admin
\* exists no account goes away, and the ones that still come are at most as many
\* as the setups that were already past the gate.
THEOREM SetupDrainsAlways == Spec => SetupDrains
<1>1. Init => FiniteInv
  <2>1. Init => Accounts = {} /\ Creating = {}
    BY DEF Init, Accounts, Creating, Idle
  <2>2. QED
    BY <2>1, FS_EmptySet DEF FiniteInv
<1>2. ConsoleInv /\ FiniteInv /\ [Next]_vars => FiniteInv'
  BY DrainStep
<1>3. ConsoleInv /\ FiniteInv /\ [Next]_vars =>
        [CountUsers > 0 =>
           /\ CountUsers' >= CountUsers
           /\ CountUsers' + Cardinality(Creating') <= CountUsers + Cardinality(Creating)]_vars
  BY DrainStep DEF Drains
<1>4. QED
  BY <1>1, <1>2, <1>3, InitConsole, ConsoleStep, PTL DEF Spec, SetupDrains
=============================================================================
