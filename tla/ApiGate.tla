------------------------------- MODULE ApiGate -------------------------------
(***************************************************************************)
(* The gate in front of the public API: API keys, their scopes and their   *)
(* revocation, and the inbound rate limiter with its two ceilings          *)
(* (internal/apikey, requireScope in internal/transport/http, the API keys *)
(* tab of the dashboard and the create-project and create-api-key          *)
(* commands).                                                              *)
(*                                                                         *)
(* A request is let in by three steps that other requests, a revocation    *)
(* and the clock can come between: the lookup of its key, the ceiling of   *)
(* the key and the ceiling of the project.  Each ceiling is a counter in   *)
(* Redis that one command tests and charges (the GCRA of redis_rate): a    *)
(* debt that an accepted request raises and time pays off.  Debts are      *)
(* counted in ticks: a project earns a request in Grain ticks and a key in *)
(* Ratio times as many, so that time passes between any two steps, in      *)
(* pieces as small as one likes.  An error of Redis lets the request pass. *)
(*                                                                         *)
(* Left out: the text of keys and headers, Retry-After, and the columns    *)
(* expires_at of api_keys and status of projects, which the lookup tests   *)
(* but no statement of the program ever sets.                              *)
(***************************************************************************)
EXTENDS Naturals, FiniteSets

CONSTANTS
  Requests,   \* requests that are handled at the same time
  Keys,       \* API keys; a key stands for its SHA-256
  Projects,   \* projects; a project stands for its slug
  NoKey,      \* no key
  Default,    \* the project the schema's migration inserts
  NoProject,  \* no project
  Rate,       \* requests a key may make in one second, and at once
  Ratio,      \* how many keys' worth of requests a project may make: 5
  Grain,      \* ticks in which a project earns one request
  MaxDelay    \* ticks between the two checks of a request that count as prompt

ASSUME ApiGateAssumption ==
  /\ NoKey \notin Keys
  /\ NoProject \notin Projects
  /\ Default \in Projects
  /\ Rate \in Nat \ {0}
  /\ Ratio \in Nat \ {0}
  /\ Grain \in Nat \ {0}
  /\ MaxDelay \in Nat

VARIABLES
  projects,   \* projects rows
  apiKeys,    \* api_keys rows: project, scope, revoked, whether last_used_at is set
  shown,      \* keys whose raw text was handed to an operator
  rendering,  \* keys whose row is inserted and whose page is not rendered yet
  req,        \* each request: pc, the key it came with, ticks since its key was checked
  keyDebt,    \* Redis: the debt of each key
  projectDebt, \* Redis: the debt of each project
  touches,    \* goroutines of requireScope, by the row they update
  disturbed   \* history: projects with a debt from before the last request whose key
              \* went unchecked or whose second check came late

vars == <<projects, apiKeys, shown, rendering, req, keyDebt, projectDebt, touches, disturbed>>

admin == <<projects, apiKeys, shown, rendering>>

NoRow == [project |-> NoProject, scope |-> "none", revoked |-> FALSE, used |-> FALSE]
Idle == [pc |-> "idle", key |-> NoKey, age |-> 0]

Scopes == {"read", "send"}

Stored(k) == apiKeys[k].project # NoProject

(***************************************************************************)
(* Projects and keys                                                       *)
(***************************************************************************)
\* GetProjectByID and GetProjectBySlug find a row.
KnownProject(p) == p \in projects

\* insert into projects; a taken slug is refused.
CreateProject(p) ==
  /\ p \notin projects
  /\ projects' = projects \cup {p}
  /\ UNCHANGED <<apiKeys, shown, rendering, req, keyDebt, projectDebt, touches, disturbed>>

\* The page of the dashboard, and the create-project command.
HandleCreateProject(p) == CreateProject(p)
RunCreateProject(p) == CreateProject(p)

\* The row of a new key: not revoked, never used.
NewKey(p, scope) == [NoRow EXCEPT !.project = p, !.scope = scope]

\* Generate makes a key no one has, and its hash is inserted; without a project or
\* when the insert fails nothing is stored.
CreateAPIKey(k, p, scope) ==
  /\ KnownProject(p)
  /\ ~Stored(k)
  /\ apiKeys' = [apiKeys EXCEPT ![k] = NewKey(p, scope)]
  /\ rendering' = rendering \cup {k}
  /\ UNCHANGED <<projects, shown, req, keyDebt, projectDebt, touches, disturbed>>

\* The page of the dashboard, and the create-api-key command, up to the answer.
HandleCreateAPIKey(k, p, scope) == CreateAPIKey(k, p, scope)
RunCreateAPIKey(k, p, scope) == CreateAPIKey(k, p, scope)

\* The raw key is shown, once; or the page that would show it fails, or the command
\* dies before it prints, and the row stays without anyone who holds the key.
RenderAPIKeysTab(k) ==
  /\ k \in rendering
  /\ rendering' = rendering \ {k}
  /\ \/ shown' = shown \cup {k}
     \/ UNCHANGED shown
  /\ UNCHANGED <<projects, apiKeys, req, keyDebt, projectDebt, touches, disturbed>>

\* update api_keys set revoked_at where id and project_id
Revoked(row, p) == IF row.project = p THEN [row EXCEPT !.revoked = TRUE] ELSE row

\* handleRevokeAPIKey for the project and the key of its path; an error is only logged.
RevokeAPIKey(k, p) ==
  /\ Stored(k)
  /\ apiKeys' = [apiKeys EXCEPT ![k] = Revoked(@, p)]
  /\ UNCHANGED <<projects, shown, rendering, req, keyDebt, projectDebt, touches, disturbed>>

(***************************************************************************)
(* requireScope                                                            *)
(***************************************************************************)
\* The where clause of GetActiveAPIKeyByHash.
ActiveKey(k) == Stored(k) /\ ~apiKeys[k].revoked

\* Scope.Satisfies: send implies read.
Satisfies(scope, required) == scope = "send" \/ scope = required

\* A client that holds the raw key calls a route that needs the scope; a key that is
\* not active gets a 401, a scope that does not reach a 403.
ResolveKey(r, k, required) ==
  /\ req[r].pc = "idle"
  /\ k \in shown
  /\ ActiveKey(k)
  /\ Satisfies(apiKeys[k].scope, required)
  /\ req' = [req EXCEPT ![r] = [pc |-> "keycheck", key |-> k, age |-> 0]]
  /\ UNCHANGED <<admin, keyDebt, projectDebt, touches, disturbed>>

\* perKey is a burst of Rate requests, perProject one of Ratio * Rate: both are earned
\* in one second.
KeyCost == Ratio * Grain
KeyCapacity == Rate * KeyCost
ProjectCapacity_perKey == Rate * Grain
ProjectCapacity == (Rate * Ratio) * Grain

KeyAllows_overdrawn(k) == keyDebt[k] <= KeyCapacity
KeyAllows(k) == keyDebt[k] + KeyCost <= KeyCapacity
ProjectAllows(p) == projectDebt[p] + Grain <= ProjectCapacity

Goto(r, pc) == req' = [req EXCEPT ![r] = [pc |-> pc, key |-> @.key, age |-> 0]]
Refuse(r) == req' = [req EXCEPT ![r] = Idle]

\* The ceiling of the key, first.
CheckKey(r) ==
  LET k == req[r].key
  IN /\ req[r].pc = "keycheck"
     /\ \/ /\ KeyAllows(k)
           /\ keyDebt' = [keyDebt EXCEPT ![k] = @ + KeyCost]
           /\ Goto(r, "projectcheck")
        \/ ~KeyAllows(k) /\ Refuse(r) /\ UNCHANGED keyDebt
     /\ UNCHANGED <<admin, projectDebt, touches, disturbed>>

\* Redis fails: the request goes on.
CheckKeyFailsOpen(r) ==
  /\ req[r].pc = "keycheck"
  /\ Goto(r, "projectcheck")
  /\ disturbed' = disturbed \cup {apiKeys[req[r].key].project}
  /\ UNCHANGED <<admin, keyDebt, projectDebt, touches>>

\* A request past both ceilings: the goroutine that will touch the row is started,
\* and the handler runs.
Admit(r) == Goto(r, "admitted") /\ touches' = touches \cup {req[r].key}

\* The ceiling of the project; the debt of the key stays when it refuses.
CheckProject(r) ==
  LET p == apiKeys[req[r].key].project
  IN /\ req[r].pc = "projectcheck"
     /\ \/ /\ ProjectAllows(p)
           /\ projectDebt' = [projectDebt EXCEPT ![p] = @ + Grain]
           /\ Admit(r)
        \/ ~ProjectAllows(p) /\ Refuse(r) /\ UNCHANGED <<projectDebt, touches>>
     /\ UNCHANGED <<admin, keyDebt, disturbed>>

CheckProjectFailsOpen(r) ==
  /\ req[r].pc = "projectcheck"
  /\ Admit(r)
  /\ UNCHANGED <<admin, keyDebt, projectDebt, disturbed>>

\* The handler behind the gate returns.
ServeHTTP(r) ==
  /\ req[r].pc = "admitted"
  /\ req' = [req EXCEPT ![r] = Idle]
  /\ UNCHANGED <<admin, keyDebt, projectDebt, touches, disturbed>>

Touched_row(row) == [row EXCEPT !.used = TRUE, !.revoked = FALSE]
\* update api_keys set last_used_at: no other column.
Touched(row) == [row EXCEPT !.used = TRUE]

TouchAPIKeyLastUsed(k) ==
  /\ k \in touches
  /\ touches' = touches \ {k}
  /\ \/ apiKeys' = [apiKeys EXCEPT ![k] = Touched(@)]
     \/ UNCHANGED apiKeys   \* it failed, which is only logged
  /\ UNCHANGED <<projects, shown, rendering, req, keyDebt, projectDebt, disturbed>>

\* Requests past their key's ceiling and not at their project's.
Pending(p) == {r \in Requests : req[r].pc = "projectcheck" /\ apiKeys[req[r].key].project = p}

\* A request on the way to its second check; how late it is no longer matters once it is.
Aged(h) == IF h.pc = "projectcheck" /\ h.age <= MaxDelay THEN [h EXCEPT !.age = @ + 1] ELSE h

\* Time passes: each debt shrinks by a tick.  A project is settled once its debt is gone.
Tick ==
  /\ keyDebt' = [k \in Keys |-> IF keyDebt[k] = 0 THEN 0 ELSE keyDebt[k] - 1]
  /\ projectDebt' = [p \in Projects |-> IF projectDebt[p] = 0 THEN 0 ELSE projectDebt[p] - 1]
  /\ req' = [r \in Requests |-> Aged(req[r])]
  /\ disturbed' = {p \in Projects :
                     \/ p \in disturbed /\ (projectDebt'[p] # 0 \/ Pending(p) # {})
                     \/ \E r \in Pending(p) : req'[r].age > MaxDelay}
  /\ UNCHANGED <<admin, touches>>

Init ==
  /\ projects = {Default}
  /\ apiKeys = [k \in Keys |-> NoRow]
  /\ shown = {}
  /\ rendering = {}
  /\ req = [r \in Requests |-> Idle]
  /\ keyDebt = [k \in Keys |-> 0]
  /\ projectDebt = [p \in Projects |-> 0]
  /\ touches = {}
  /\ disturbed = {}

Next ==
  \/ \E p \in Projects : HandleCreateProject(p) \/ RunCreateProject(p)
  \/ \E k \in Keys :
       \/ \E p \in Projects :
            \/ RevokeAPIKey(k, p)
            \/ \E scope \in Scopes :
                 HandleCreateAPIKey(k, p, scope) \/ RunCreateAPIKey(k, p, scope)
       \/ RenderAPIKeysTab(k)
       \/ TouchAPIKeyLastUsed(k)
  \/ \E r \in Requests :
       \/ \E k \in Keys, required \in Scopes : ResolveKey(r, k, required)
       \/ CheckKey(r) \/ CheckKeyFailsOpen(r)
       \/ CheckProject(r) \/ CheckProjectFailsOpen(r)
       \/ ServeHTTP(r)
  \/ Tick

Spec == Init /\ [][Next]_vars

(***************************************************************************)
(* Properties                                                              *)
(***************************************************************************)
\* The types; and that a key is shown only when its row is stored, a request is
\* past the lookup only with a stored key, and only such keys owe a debt.
TypeOK ==
  /\ projects \subseteq Projects
  /\ apiKeys \in [Keys -> [project : projects \cup {NoProject}, scope : Scopes \cup {"none"},
                           revoked : BOOLEAN, used : BOOLEAN]]
  /\ \A r \in Requests :
       \/ req[r] = Idle
       \/ req[r].pc \in {"keycheck", "projectcheck", "admitted"} /\ req[r].key \in shown
  /\ shown \cup rendering \cup touches \subseteq {k \in Keys : Stored(k)}
  /\ keyDebt \in [Keys -> 0..KeyCapacity]
  /\ projectDebt \in [Projects -> 0..ProjectCapacity]
  /\ \A k \in Keys : keyDebt[k] > 0 => Stored(k)
  /\ disturbed \subseteq Projects

KeysOf(p) == {k \in Keys : apiKeys[k].project = p}

\* The keys of p leave room for the delays: with n keys, a capacity of one second and
\* Ratio = 5, the two checks of a request may be up to (5 - n) / n seconds apart.
RoomFor(p) == Cardinality(KeysOf(p)) * (KeyCapacity + MaxDelay) <= Ratio * KeyCapacity

\* NewRateLimiter and Allow, "a per-key ceiling and a looser per-project ceiling": how
\* much looser it has to be.  The two checks are two round trips, and the key's debt
\* shrinks in between, so that keys within their ceilings can charge their project in
\* bursts that are closer together than their own.  Still, keys that leave room for the
\* delay do not exhaust their project between them: a request past its key's ceiling,
\* and charged for it, is not refused by its project's, as long as the second checks
\* were no later than MaxDelay and no key went unchecked since the project's debt was
\* last paid off.
KeyCeilingsProtectProject ==
  \A r \in Requests :
    LET p == apiKeys[req[r].key].project
    IN req[r].pc = "projectcheck" /\ p \notin disturbed /\ RoomFor(p) => ProjectAllows(p)

\* Requests past the lookup of key k, which do not look at the row again.
InFlight(k) == {r \in Requests : req[r].key = k}

\* requireScope against a revocation: from then on no request gets in with the key
\* but the ones that had already looked it up, and neither the detached write of
\* last_used_at nor anything else brings the key back.
RevokedDrains ==
  [][\A k \in Keys : apiKeys[k].revoked =>
       apiKeys'[k].revoked /\ InFlight(k)' \subseteq InFlight(k)]_vars
=============================================================================
