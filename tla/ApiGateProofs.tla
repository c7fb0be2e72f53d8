---------------------------- MODULE ApiGateProofs ----------------------------
(***************************************************************************)
(* Proofs about the gate in front of the public API, for any number of     *)
(* keys, projects and overlapping requests and any rate.                   *)
(***************************************************************************)
EXTENDS ApiGate, FiniteSetTheorems, TLAPS

KeyRow == [project : projects \cup {NoProject}, scope : Scopes \cup {"none"},
           revoked : BOOLEAN, used : BOOLEAN]

RequestOK ==
  req \in [Requests -> [pc : {"idle", "keycheck", "projectcheck", "admitted"},
                        key : Keys \cup {NoKey}, age : Nat]]

\* A key that is not stored was not revoked: its row is still to come.
RevokedStored == \A k \in Keys : apiKeys[k].revoked => Stored(k)

GateInv == TypeOK /\ RequestOK /\ RevokedStored

\* Both capacities are what is earned in one second.
LEMMA Capacities ==
  /\ KeyCapacity \in Nat \ {0} /\ ProjectCapacity = KeyCapacity
  /\ KeyCost \in Nat \ {0} /\ KeyCost = Ratio * Grain
<1>1. Rate \in Nat \ {0} /\ Ratio \in Nat \ {0} /\ Grain \in Nat \ {0}
  BY ApiGateAssumption
<1>2. Rate * (Ratio * Grain) = (Rate * Ratio) * Grain
  BY <1>1
<1>3. Ratio * Grain \in Nat \ {0}
  BY <1>1
<1>4. Rate * (Ratio * Grain) \in Nat \ {0}
  BY <1>1, <1>3
<1>5. QED
  BY <1>2, <1>3, <1>4 DEF KeyCapacity, ProjectCapacity, KeyCost

LEMMA InitGate == Init => GateInv
BY ApiGateAssumption, Capacities
   DEF Init, GateInv, TypeOK, RequestOK, RevokedStored, Idle, NoRow, Stored, Scopes

\* What the statements on api_keys do to a row.
LEMMA KeyOperations ==
  ASSUME NEW row \in KeyRow, NEW p \in projects, NEW q, NEW scope \in Scopes
  PROVE  /\ NewKey(p, scope) \in KeyRow /\ NewKey(p, scope).project = p
         /\ Revoked(row, q) \in KeyRow /\ Revoked(row, q).project = row.project
         /\ row.revoked => Revoked(row, q).revoked
         /\ Touched(row) \in KeyRow /\ Touched(row).project = row.project
         /\ Touched(row).revoked = row.revoked
BY DEF KeyRow, NewKey, NoRow, Revoked, Touched

\* No row of api_keys goes away, changes its project or loses its revocation.
KeysKept ==
  \A k \in Keys : Stored(k) =>
    /\ apiKeys'[k].project = apiKeys[k].project
    /\ apiKeys[k].revoked => apiKeys'[k].revoked

\* A step that leaves the ceilings alone.
LEMMA FrameGate ==
  ASSUME GateInv, UNCHANGED <<keyDebt, projectDebt, req, disturbed>>,
         projects \subseteq projects', projects' \subseteq Projects,
         apiKeys' \in [Keys -> KeyRow'], KeysKept, RevokedStored',
         shown' \cup rendering' \cup touches' \subseteq {k \in Keys : Stored(k)'},
         shown \subseteq shown'
  PROVE  GateInv'
<1>1. TypeOK'
  BY DEF GateInv, TypeOK, KeysKept, Stored, KeyRow
<1>2. RequestOK'
  BY DEF GateInv, RequestOK
<1>3. QED
  BY <1>1, <1>2 DEF GateInv

\* A step of request r.
LEMMA RequestStep ==
  ASSUME GateInv, UNCHANGED admin, NEW r \in Requests, NEW h, req' = [req EXCEPT ![r] = h],
         \/ h = Idle
         \/ /\ h \in [pc : {"keycheck", "projectcheck", "admitted"}, key : Keys, age : {0}]
            /\ h.key \in shown,
         touches' \subseteq {k \in Keys : Stored(k)},
         disturbed' \subseteq Projects,
         keyDebt' \in [Keys -> 0..KeyCapacity],
         \A k \in Keys : keyDebt'[k] > 0 => Stored(k),
         projectDebt' \in [Projects -> 0..ProjectCapacity]
  PROVE  GateInv'
<1>1. RequestOK'
  BY DEF GateInv, RequestOK, Idle
<1>2. \A q \in Requests :
        \/ req'[q] = Idle
        \/ req'[q].pc \in {"keycheck", "projectcheck", "admitted"} /\ req'[q].key \in shown
  BY DEF GateInv, TypeOK, RequestOK
<1>3. TypeOK'
  BY <1>2 DEF GateInv, TypeOK, Stored, admin, Idle, KeyCapacity, ProjectCapacity
<1>4. RevokedStored'
  BY DEF GateInv, RevokedStored, Stored, admin
<1>5. QED
  BY <1>1, <1>3, <1>4 DEF GateInv

\* The request of a handler that is past the lookup, and its next place.
LEMMA Advance ==
  ASSUME GateInv, NEW r \in Requests, req[r].pc \in {"keycheck", "projectcheck", "admitted"},
         NEW pc \in {"keycheck", "projectcheck", "admitted"}, Goto(r, pc)
  PROVE  /\ req[r].key \in shown /\ req[r].key \in Keys /\ Stored(req[r].key)
         /\ req' = [req EXCEPT ![r] = [pc |-> pc, key |-> req[r].key, age |-> 0]]
<1>1. req[r].key \in shown /\ req[r].key \in Keys /\ Stored(req[r].key)
  BY DEF GateInv, TypeOK, Idle
<1>2. QED
  BY <1>1 DEF Goto

\* Time passes over a request: only its age changes, and only before its second check.
LEMMA TickAges ==
  ASSUME RequestOK, Tick
  PROVE  /\ RequestOK'
         /\ \A r \in Requests :
              /\ req'[r].pc = req[r].pc /\ req'[r].key = req[r].key
              /\ req[r].pc = "projectcheck" /\ req[r].age <= MaxDelay => req'[r].age = req[r].age + 1
              /\ req'[r] = req[r] \/ req[r].pc = "projectcheck"
<1>1. req' = [r \in Requests |-> Aged(req[r])]
  BY DEF Tick
<1>2. ASSUME NEW r \in Requests
      PROVE  /\ Aged(req[r]) \in [pc : {"idle", "keycheck", "projectcheck", "admitted"},
                                  key : Keys \cup {NoKey}, age : Nat]
             /\ Aged(req[r]).pc = req[r].pc /\ Aged(req[r]).key = req[r].key
             /\ req[r].pc = "projectcheck" /\ req[r].age <= MaxDelay =>
                  Aged(req[r]).age = req[r].age + 1
             /\ Aged(req[r]) = req[r] \/ req[r].pc = "projectcheck"
  <2>1. PICK h \in [pc : {"idle", "keycheck", "projectcheck", "admitted"},
                    key : Keys \cup {NoKey}, age : Nat] : h = req[r]
    BY DEF RequestOK
  <2>2. CASE h.pc = "projectcheck" /\ h.age <= MaxDelay
    <3>1. PICK n \in Nat : n = h.age + 1
      OBVIOUS
    <3>2. Aged(h) = [h EXCEPT !.age = n]
      BY <2>2, <3>1 DEF Aged
    <3>3. QED
      BY <2>1, <2>2, <3>1, <3>2
  <2>3. CASE ~(h.pc = "projectcheck" /\ h.age <= MaxDelay)
    BY <2>1, <2>3 DEF Aged
  <2>4. QED
    BY <2>2, <2>3
<1>3. QED
  BY <1>1, <1>2 DEF RequestOK

LEMMA GateStep ==
  ASSUME GateInv, [Next]_vars
  PROVE  GateInv' /\ KeysKept /\ projects \subseteq projects'
<1> USE ApiGateAssumption
<1>1. ASSUME NEW p \in Projects, CreateProject(p)
      PROVE  GateInv' /\ KeysKept /\ projects \subseteq projects'
  <2>1. /\ projects' = projects \cup {p}
        /\ UNCHANGED <<apiKeys, shown, rendering, req, keyDebt, projectDebt, touches, disturbed>>
    BY <1>1 DEF CreateProject
  <2>2. KeysKept
    BY <2>1 DEF KeysKept
  <2>3. apiKeys' \in [Keys -> KeyRow'] /\ RevokedStored'
    BY <2>1 DEF GateInv, TypeOK, KeyRow, RevokedStored, Stored
  <2>4. shown' \cup rendering' \cup touches' \subseteq {k \in Keys : Stored(k)'}
    BY <2>1 DEF GateInv, TypeOK, Stored
  <2>5. GateInv'
    BY <2>1, <2>2, <2>3, <2>4, FrameGate DEF GateInv, TypeOK
  <2>6. QED
    BY <2>1, <2>2, <2>5
<1>2. ASSUME NEW k \in Keys, NEW p \in Projects, NEW scope \in Scopes, CreateAPIKey(k, p, scope)
      PROVE  GateInv' /\ KeysKept /\ projects \subseteq projects'
  <2>1. /\ p \in projects /\ ~Stored(k) /\ apiKeys' = [apiKeys EXCEPT ![k] = NewKey(p, scope)]
        /\ rendering' = rendering \cup {k}
        /\ UNCHANGED <<projects, shown, req, keyDebt, projectDebt, touches, disturbed>>
    BY <1>2 DEF CreateAPIKey, KnownProject
  <2>2. apiKeys \in [Keys -> KeyRow] /\ apiKeys[k] \in KeyRow
    BY DEF GateInv, TypeOK, KeyRow
  <2>3. NewKey(p, scope) \in KeyRow /\ NewKey(p, scope).project = p
    BY <2>1, <2>2, KeyOperations
  <2>4. \A j \in Keys : j # k => apiKeys'[j] = apiKeys[j]
    BY <2>1, <2>2
  <2>5. KeysKept /\ Stored(k)'
    BY <2>1, <2>2, <2>3, <2>4 DEF KeysKept, Stored, GateInv, TypeOK
  <2>6. apiKeys' \in [Keys -> KeyRow'] /\ RevokedStored'
    BY <2>1, <2>2, <2>3, <2>4, <2>5 DEF GateInv, KeyRow, RevokedStored, Stored
  <2>7. shown' \cup rendering' \cup touches' \subseteq {j \in Keys : Stored(j)'}
    BY <2>1, <2>4, <2>5 DEF GateInv, TypeOK, Stored
  <2>8. GateInv'
    BY <2>1, <2>5, <2>6, <2>7, FrameGate DEF GateInv, TypeOK
  <2>9. QED
    BY <2>1, <2>5, <2>8
<1>3. ASSUME NEW k \in Keys, NEW row \in KeyRow, Stored(k), row.project = apiKeys[k].project,
             apiKeys[k].revoked => row.revoked,
             apiKeys' = [apiKeys EXCEPT ![k] = row], touches' \subseteq touches,
             UNCHANGED <<projects, shown, rendering, req, keyDebt, projectDebt, disturbed>>
      PROVE  GateInv' /\ KeysKept /\ projects \subseteq projects'
  <2>1. apiKeys \in [Keys -> KeyRow]
    BY DEF GateInv, TypeOK, KeyRow
  <2>2. KeysKept /\ \A j \in Keys : Stored(j)' = Stored(j)
    BY <1>3, <2>1 DEF KeysKept, Stored
  <2>3. apiKeys' \in [Keys -> KeyRow'] /\ RevokedStored'
    BY <1>3, <2>1, <2>2 DEF GateInv, KeyRow, RevokedStored, Stored
  <2>4. shown' \cup rendering' \cup touches' \subseteq {j \in Keys : Stored(j)'}
    BY <1>3, <2>2 DEF GateInv, TypeOK
  <2>5. GateInv'
    BY <1>3, <2>2, <2>3, <2>4, FrameGate DEF GateInv, TypeOK
  <2>6. QED
    BY <1>3, <2>2, <2>5
<1>4. ASSUME UNCHANGED <<projects, apiKeys, req, keyDebt, projectDebt, disturbed>>,
             shown \subseteq shown', shown' \cup rendering' \subseteq shown \cup rendering,
             touches' \subseteq touches
      PROVE  GateInv' /\ KeysKept /\ projects \subseteq projects'
  <2>1. KeysKept
    BY <1>4 DEF KeysKept
  <2>2. apiKeys' \in [Keys -> KeyRow'] /\ RevokedStored'
    BY <1>4 DEF GateInv, TypeOK, KeyRow, RevokedStored, Stored
  <2>3. shown' \cup rendering' \cup touches' \subseteq {k \in Keys : Stored(k)'}
    BY <1>4 DEF GateInv, TypeOK, Stored
  <2>4. GateInv'
    BY <1>4, <2>1, <2>2, <2>3, FrameGate DEF GateInv, TypeOK
  <2>5. QED
    BY <1>4, <2>1, <2>4
<1>5. ASSUME NEW k \in Keys, NEW p \in Projects, RevokeAPIKey(k, p)
      PROVE  GateInv' /\ KeysKept /\ projects \subseteq projects'
  <2>1. apiKeys[k] \in KeyRow
    BY DEF GateInv, TypeOK, KeyRow
  <2>2. /\ Revoked(apiKeys[k], p) \in KeyRow
        /\ Revoked(apiKeys[k], p).project = apiKeys[k].project
        /\ apiKeys[k].revoked => Revoked(apiKeys[k], p).revoked
    BY <2>1 DEF KeyRow, Revoked
  <2>3. QED
    BY <1>3, <1>5, <2>2 DEF RevokeAPIKey
<1>6. ASSUME NEW k \in Keys, TouchAPIKeyLastUsed(k)
      PROVE  GateInv' /\ KeysKept /\ projects \subseteq projects'
  <2>1. apiKeys[k] \in KeyRow /\ Stored(k)
    BY <1>6 DEF GateInv, TypeOK, KeyRow, TouchAPIKeyLastUsed
  <2>2. /\ Touched(apiKeys[k]) \in KeyRow
        /\ Touched(apiKeys[k]).project = apiKeys[k].project
        /\ apiKeys[k].revoked => Touched(apiKeys[k]).revoked
    BY <2>1 DEF KeyRow, Touched
  <2>3. CASE apiKeys' = [apiKeys EXCEPT ![k] = Touched(apiKeys[k])]
    BY <1>3, <1>6, <2>1, <2>2, <2>3 DEF TouchAPIKeyLastUsed
  <2>4. CASE UNCHANGED apiKeys
    BY <1>4, <1>6, <2>4 DEF TouchAPIKeyLastUsed
  <2>5. QED
    BY <1>6, <2>3, <2>4 DEF TouchAPIKeyLastUsed
<1>7. ASSUME NEW k \in Keys, RenderAPIKeysTab(k)
      PROVE  GateInv' /\ KeysKept /\ projects \subseteq projects'
  BY <1>4, <1>7 DEF RenderAPIKeysTab
<1>8. ASSUME UNCHANGED admin
      PROVE  KeysKept /\ projects \subseteq projects'
  BY <1>8 DEF KeysKept, admin
<1>9. ASSUME NEW r \in Requests, NEW k \in Keys, NEW required \in Scopes, ResolveKey(r, k, required)
      PROVE  GateInv'
  BY <1>9, RequestStep DEF ResolveKey, GateInv, TypeOK
<1>10. ASSUME NEW r \in Requests, CheckKey(r)
       PROVE  GateInv'
  <2>1. CASE KeyAllows(req[r].key)
    <3>1. PICK k \in Keys : k = req[r].key /\ k \in shown /\ Stored(k)
      BY <1>10 DEF CheckKey, GateInv, TypeOK, Idle
    <3>2. /\ keyDebt' = [keyDebt EXCEPT ![k] = @ + KeyCost] /\ keyDebt[k] + KeyCost <= KeyCapacity
          /\ req' = [req EXCEPT ![r] = [pc |-> "projectcheck", key |-> k, age |-> 0]]
          /\ UNCHANGED <<admin, projectDebt, touches, disturbed>>
      BY <1>10, <2>1, <3>1, Advance DEF CheckKey, KeyAllows
    <3>3. /\ keyDebt' \in [Keys -> 0..KeyCapacity]
          /\ \A j \in Keys : keyDebt'[j] > 0 => Stored(j)
      BY <3>1, <3>2, Capacities DEF GateInv, TypeOK
    <3>4. QED
      BY <3>1, <3>2, <3>3, RequestStep DEF GateInv, TypeOK
  <2>2. CASE ~KeyAllows(req[r].key)
    BY <1>10, <2>2, RequestStep DEF CheckKey, Refuse, GateInv, TypeOK
  <2>3. QED
    BY <2>1, <2>2
<1>11. ASSUME NEW r \in Requests, CheckKeyFailsOpen(r)
       PROVE  GateInv'
  <2>1. /\ req[r].key \in shown /\ req[r].key \in Keys
        /\ req' = [req EXCEPT ![r] = [pc |-> "projectcheck", key |-> req[r].key, age |-> 0]]
        /\ disturbed' = disturbed \cup {apiKeys[req[r].key].project}
        /\ UNCHANGED <<admin, keyDebt, projectDebt, touches>>
    BY <1>11, Advance DEF CheckKeyFailsOpen
  <2>2. apiKeys[req[r].key].project \in Projects
    BY <2>1 DEF GateInv, TypeOK, Stored
  <2>3. QED
    BY <2>1, <2>2, RequestStep DEF GateInv, TypeOK
<1>12. ASSUME NEW r \in Requests, CheckProject(r)
       PROVE  GateInv'
  <2> DEFINE p == apiKeys[req[r].key].project
  <2>1. CASE ProjectAllows(p)
    <3>1. /\ req[r].key \in shown /\ req[r].key \in Keys /\ Stored(req[r].key)
          /\ req' = [req EXCEPT ![r] = [pc |-> "admitted", key |-> req[r].key, age |-> 0]]
          /\ projectDebt' = [projectDebt EXCEPT ![p] = @ + Grain] /\ projectDebt[p] + Grain <= ProjectCapacity
          /\ touches' = touches \cup {req[r].key}
          /\ UNCHANGED <<admin, keyDebt, disturbed>>
      BY <1>12, <2>1, Advance DEF CheckProject, ProjectAllows, Admit
    <3>2. PICK q \in Projects : q = p
      BY <3>1 DEF GateInv, TypeOK, Stored
    <3>3. projectDebt' \in [Projects -> 0..ProjectCapacity]
      <4>1. /\ projectDebt \in [Projects -> 0..ProjectCapacity]
            /\ projectDebt' = [projectDebt EXCEPT ![q] = projectDebt[q] + Grain]
            /\ projectDebt[q] + Grain <= ProjectCapacity
        BY <3>1, <3>2 DEF GateInv, TypeOK
      <4>2. projectDebt[q] + Grain \in 0..ProjectCapacity
        BY <4>1, Capacities
      <4>3. QED
        BY <4>1, <4>2
    <3>4. QED
      BY <3>1, <3>3, RequestStep DEF GateInv, TypeOK
  <2>2. CASE ~ProjectAllows(p)
    BY <1>12, <2>2, RequestStep DEF CheckProject, Refuse, GateInv, TypeOK
  <2>3. QED
    BY <2>1, <2>2
<1>13. ASSUME NEW r \in Requests, CheckProjectFailsOpen(r)
       PROVE  GateInv'
  <2>1. /\ req[r].key \in shown /\ req[r].key \in Keys /\ Stored(req[r].key)
        /\ req' = [req EXCEPT ![r] = [pc |-> "admitted", key |-> req[r].key, age |-> 0]]
        /\ touches' = touches \cup {req[r].key}
        /\ UNCHANGED <<admin, keyDebt, projectDebt, disturbed>>
    BY <1>13, Advance DEF CheckProjectFailsOpen, Admit
  <2>2. QED
    BY <2>1, RequestStep DEF GateInv, TypeOK
<1>14. ASSUME NEW r \in Requests, ServeHTTP(r)
       PROVE  GateInv'
  BY <1>14, RequestStep DEF ServeHTTP, GateInv, TypeOK
<1>15. ASSUME Tick
       PROVE  GateInv'
  <2>1. /\ UNCHANGED <<admin, touches>> /\ disturbed' \subseteq Projects
        /\ keyDebt' = [k \in Keys |-> IF keyDebt[k] = 0 THEN 0 ELSE keyDebt[k] - 1]
        /\ projectDebt' = [p \in Projects |-> IF projectDebt[p] = 0 THEN 0 ELSE projectDebt[p] - 1]
    BY <1>15 DEF Tick
  <2>2. /\ keyDebt' \in [Keys -> 0..KeyCapacity]
        /\ projectDebt' \in [Projects -> 0..ProjectCapacity]
        /\ \A k \in Keys : keyDebt'[k] > 0 => Stored(k)
    BY <2>1, Capacities DEF GateInv, TypeOK
  <2>3. RequestOK' /\ \A r \in Requests : req'[r] = req[r] \/ req[r].pc = "projectcheck"
    BY <1>15, TickAges DEF GateInv
  <2>4. \A r \in Requests :
          \/ req'[r] = Idle
          \/ req'[r].pc \in {"keycheck", "projectcheck", "admitted"} /\ req'[r].key \in shown
    BY <1>15, <2>3, TickAges DEF GateInv, TypeOK, Idle
  <2>5. QED
    BY <2>1, <2>2, <2>3, <2>4 DEF GateInv, TypeOK, RevokedStored, Stored, admin,
                      KeyCapacity, KeyCost, ProjectCapacity
<1>16. CASE UNCHANGED vars
  BY <1>4, <1>16 DEF vars
<1>17. QED
  BY <1>1, <1>2, <1>5, <1>6, <1>7, <1>8, <1>9, <1>10, <1>11, <1>12, <1>13, <1>14, <1>15, <1>16
     DEF Next, HandleCreateProject, RunCreateProject, HandleCreateAPIKey, RunCreateAPIKey,
         ResolveKey, CheckKey, CheckKeyFailsOpen, CheckProject, CheckProjectFailsOpen,
         ServeHTTP, Tick

\* The rows, the requests and the debts of the gate have their types: a debt stays
\* within its ceiling, and only keys that are stored are shown, used or in debt.
THEOREM GateTypeCorrect == Spec => []TypeOK
<1>1. GateInv => TypeOK
  BY DEF GateInv
<1>2. QED
  BY <1>1, InitGate, GateStep, PTL DEF Spec

(***************************************************************************)
(* Revocation                                                              *)
(***************************************************************************)
\* A request comes by a key only at its lookup, which finds an active row.
LEMMA LookupsActive ==
  ASSUME GateInv, [Next]_vars, NEW q \in Requests, NEW k \in Keys, req'[q].key = k
  PROVE  req[q].key = k \/ ActiveKey(k)
<1>1. ASSUME NEW r \in Requests, req' = [req EXCEPT ![r] = Idle]
      PROVE  req[q].key = k
  BY <1>1, ApiGateAssumption DEF Idle, GateInv, RequestOK
<1>2. ASSUME NEW r \in Requests, NEW pc, Goto(r, pc)
      PROVE  req[q].key = k
  BY <1>2 DEF Goto, GateInv, RequestOK
<1>3. ASSUME NEW r \in Requests, NEW j \in Keys, NEW required \in Scopes, ResolveKey(r, j, required)
      PROVE  req[q].key = k \/ ActiveKey(k)
  BY <1>3 DEF ResolveKey, GateInv, RequestOK
<1>4. CASE UNCHANGED req
  BY <1>4
<1>5. CASE Tick
  BY <1>5, TickAges DEF GateInv
<1>6. QED
  BY <1>1, <1>2, <1>3, <1>4, <1>5
     DEF Next, vars, HandleCreateProject, RunCreateProject, CreateProject,
         HandleCreateAPIKey, RunCreateAPIKey, CreateAPIKey, RenderAPIKeysTab, RevokeAPIKey,
         TouchAPIKeyLastUsed, CheckKey, CheckKeyFailsOpen, CheckProject, CheckProjectFailsOpen,
         Admit, Refuse, ServeHTTP

\* requireScope against a revocation: from then on no request gets in with the key
\* but the ones that had already looked it up, and nothing brings the key back.
THEOREM RevokedDrainsAlways == Spec => RevokedDrains
<1>1. ASSUME GateInv, [Next]_vars
      PROVE  [\A k \in Keys : apiKeys[k].revoked =>
                apiKeys'[k].revoked /\ InFlight(k)' \subseteq InFlight(k)]_vars
  <2>1. SUFFICES ASSUME NEW k \in Keys, apiKeys[k].revoked
                 PROVE  apiKeys'[k].revoked /\ InFlight(k)' \subseteq InFlight(k)
    OBVIOUS
  <2>2. apiKeys'[k].revoked
    BY <1>1, <2>1, GateStep DEF GateInv, RevokedStored, KeysKept
  <2>3. ~ActiveKey(k)
    BY <2>1 DEF ActiveKey
  <2>4. \A q \in Requests : req'[q].key = k => req[q].key = k
    BY <1>1, <2>3, LookupsActive
  <2>5. InFlight(k)' \subseteq InFlight(k)
    BY <2>4 DEF InFlight
  <2>6. QED
    BY <2>2, <2>5
<1>2. QED
  BY <1>1, InitGate, GateStep, PTL DEF Spec, RevokedDrains

(***************************************************************************)
(* The two ceilings.  The debts of a project's keys are added up by         *)
(* counting their ticks: Owed(p) has one member for each tick each key      *)
(* owes.  A key is charged KeyCost ticks before its project is charged      *)
(* Grain, which is worth Ratio times as much.  Time pays off at most one    *)
(* tick of each key while it pays off one tick of the project, worth Ratio, *)
(* as long as the project owes anything.  When it does not, the only        *)
(* charges to come are those of pending requests, whose keys were charged   *)
(* at most MaxDelay ticks ago: so the project's charges, made or pending,   *)
(* are backed by what its keys owe and by what they may have paid off in    *)
(* MaxDelay ticks.                                                          *)
(***************************************************************************)
Owed(p) == {u \in KeysOf(p) \X (1..KeyCapacity) : u[2] <= keyDebt[u[1]]}

\* Pending requests whose key was checked no more than a ticks ago.
Young(p, a) == {r \in Pending(p) : req[r].age <= a}

FiniteInv ==
  IsFiniteSet({k \in Keys : Stored(k)}) /\ IsFiniteSet({r \in Requests : req[r].pc # "idle"})

KeyCount(p) == Cardinality(KeysOf(p))

\* Requests that are pending a ticks or less are backed, whatever was paid off since.
Prompt(p) ==
  \A a \in 0..MaxDelay : KeyCost * Cardinality(Young(p, a)) <= Cardinality(Owed(p)) + KeyCount(p) * a

Covered(p) ==
  Ratio * (projectDebt[p] + Grain * Cardinality(Pending(p))) <=
    Cardinality(Owed(p)) + KeyCount(p) * MaxDelay

Backed(p) ==
  p \notin disturbed /\ KeyCount(p) <= Ratio =>
    (\A r \in Pending(p) : req[r].age <= MaxDelay) /\ Prompt(p) /\ Covered(p)

BalanceInv == \A p \in Projects : Backed(p)

\* The sets that are counted are finite, and no key owes more than its capacity.
CountsOK ==
  \A p \in Projects :
    /\ IsFiniteSet(KeysOf(p)) /\ KeyCount(p) \in Nat
    /\ IsFiniteSet(Pending(p)) /\ Cardinality(Pending(p)) \in Nat
    /\ \A a \in 0..MaxDelay : IsFiniteSet(Young(p, a)) /\ Cardinality(Young(p, a)) \in Nat
    /\ IsFiniteSet(Owed(p)) /\ Cardinality(Owed(p)) \in Nat
    /\ Cardinality(Owed(p)) <= KeyCount(p) * KeyCapacity

LEMMA FiniteParts == FiniteInv => CountsOK
<1> SUFFICES ASSUME FiniteInv, NEW p \in Projects
             PROVE  /\ IsFiniteSet(KeysOf(p)) /\ KeyCount(p) \in Nat
                    /\ IsFiniteSet(Pending(p)) /\ Cardinality(Pending(p)) \in Nat
                    /\ \A a \in 0..MaxDelay :
                         IsFiniteSet(Young(p, a)) /\ Cardinality(Young(p, a)) \in Nat
                    /\ IsFiniteSet(Owed(p)) /\ Cardinality(Owed(p)) \in Nat
                    /\ Cardinality(Owed(p)) <= KeyCount(p) * KeyCapacity
  BY DEF CountsOK
<1>1. KeysOf(p) \subseteq {k \in Keys : Stored(k)}
  BY ApiGateAssumption DEF KeysOf, Stored
<1>2. Pending(p) \subseteq {r \in Requests : req[r].pc # "idle"}
  BY DEF Pending
<1>3. IsFiniteSet(KeysOf(p)) /\ IsFiniteSet(Pending(p))
  BY <1>1, <1>2, FS_Subset DEF FiniteInv
<1>4. \A a \in 0..MaxDelay : IsFiniteSet(Young(p, a)) /\ Cardinality(Young(p, a)) \in Nat
  <2>1. \A a \in 0..MaxDelay : Young(p, a) \subseteq Pending(p)
    BY DEF Young
  <2>2. QED
    BY <1>3, <2>1, FS_Subset, FS_CardinalityType
<1>5. IsFiniteSet(1..KeyCapacity) /\ Cardinality(1..KeyCapacity) = KeyCapacity
  <2>1. 1 \in Int /\ KeyCapacity \in Int /\ ~(1 > KeyCapacity) /\ KeyCapacity - 1 + 1 = KeyCapacity
    BY Capacities
  <2>2. QED
    BY <2>1, FS_Interval
<1>6. /\ IsFiniteSet(KeysOf(p) \X (1..KeyCapacity))
      /\ Cardinality(KeysOf(p) \X (1..KeyCapacity)) = KeyCount(p) * KeyCapacity
  BY <1>3, <1>5, FS_Product DEF KeyCount
<1>7. Owed(p) \subseteq KeysOf(p) \X (1..KeyCapacity)
  BY DEF Owed
<1>8. IsFiniteSet(Owed(p)) /\ Cardinality(Owed(p)) <= KeyCount(p) * KeyCapacity
  BY <1>6, <1>7, FS_Subset
<1>9. QED
  BY <1>3, <1>4, <1>8, FS_CardinalityType DEF KeyCount

\* A product keeps the order of its factors.
LEMMA Monotone ==
  ASSUME NEW a \in Nat, NEW b \in Nat, NEW c \in Nat, a <= b
  PROVE  a * c <= b * c /\ c * a <= c * b
<1>1. PICK d \in Nat : b = a + d
  BY SMT
<1>2. b * c = a * c + d * c /\ d * c \in Nat /\ a * c \in Nat
  BY <1>1
<1>3. QED
  BY <1>2

LEMMA Cancel ==
  ASSUME NEW a \in Nat, NEW b \in Nat, NEW c \in Nat \ {0}, c * a <= c * b
  PROVE  a <= b
<1>1. SUFFICES ASSUME b + 1 <= a
               PROVE  FALSE
  OBVIOUS
<1>2. c * (b + 1) <= c * a
  BY <1>1, Monotone
<1>3. c * (b + 1) = c * b + c /\ c * b \in Nat /\ c * a \in Nat
  OBVIOUS
<1>4. QED
  BY <1>2, <1>3

LEMMA FinitePartsNext == FiniteInv' => CountsOK'
BY FiniteParts, PTL

\* The numbers of a project, and their types.
LEMMA Numbers ==
  ASSUME GateInv, CountsOK, NEW p \in Projects
  PROVE  /\ Cardinality(Pending(p)) \in Nat /\ Cardinality(Owed(p)) \in Nat
         /\ KeyCount(p) \in Nat /\ projectDebt[p] \in Nat
         /\ Ratio \in Nat \ {0} /\ Grain \in Nat \ {0} /\ MaxDelay \in Nat
         /\ KeyCost \in Nat \ {0} /\ KeyCost = Ratio * Grain
BY Capacities, ApiGateAssumption DEF CountsOK, GateInv, TypeOK

LEMMA NumbersNext ==
  ASSUME GateInv', CountsOK', NEW p \in Projects
  PROVE  /\ Cardinality(Pending(p)') \in Nat /\ Cardinality(Owed(p)') \in Nat
         /\ KeyCount(p)' \in Nat /\ projectDebt'[p] \in Nat
<1>1. projectDebt' \in [Projects -> 0..KeyCapacity] /\ KeyCapacity \in Nat
  BY Capacities DEF GateInv, TypeOK, ProjectCapacity, KeyCapacity, KeyCost
<1>2. projectDebt'[p] \in Nat
  BY <1>1
<1>3. QED
  BY <1>2 DEF CountsOK

\* The project stays backed when `charged` requests are charged to it, or become
\* pending, and its keys owe KeyCost ticks more for each.
LEMMA StaysBacked ==
  ASSUME NEW p \in Projects, Backed(p), CountsOK, CountsOK', GateInv, GateInv',
         p \notin disturbed' => p \notin disturbed,
         KeysOf(p) \subseteq KeysOf(p)',
         NEW charged \in Nat,
         Cardinality(Owed(p)) + KeyCost * charged <= Cardinality(Owed(p)'),
         projectDebt'[p] + Grain * Cardinality(Pending(p)') <=
           projectDebt[p] + Grain * Cardinality(Pending(p)) + Grain * charged,
         \A r \in Pending(p)' : req'[r].age = 0 \/ (r \in Pending(p) /\ req'[r].age = req[r].age),
         \A a \in 0..MaxDelay : Cardinality(Young(p, a)') <= Cardinality(Young(p, a)) + charged
  PROVE  Backed(p)'
<1>1. SUFFICES ASSUME p \notin disturbed', KeyCount(p)' <= Ratio
               PROVE  /\ \A r \in Pending(p)' : req'[r].age <= MaxDelay
                      /\ Prompt(p)' /\ Covered(p)'
  BY DEF Backed
<1>2. PICK n \in Nat, n2 \in Nat, o \in Nat, o2 \in Nat, c \in Nat, c2 \in Nat,
           d \in Nat, d2 \in Nat :
        /\ n = Cardinality(Pending(p)) /\ n2 = Cardinality(Pending(p)')
        /\ o = Cardinality(Owed(p)) /\ o2 = Cardinality(Owed(p)')
        /\ c = KeyCount(p) /\ c2 = KeyCount(p)'
        /\ d = projectDebt[p] /\ d2 = projectDebt'[p]
  BY Numbers, NumbersNext
<1>3. Ratio \in Nat /\ Grain \in Nat /\ MaxDelay \in Nat /\ KeyCost = Ratio * Grain /\ KeyCost \in Nat
  BY Numbers
<1>4. c <= c2
  BY <1>2, FS_Subset DEF CountsOK, KeyCount
<1>5. (\A r \in Pending(p) : req[r].age <= MaxDelay) /\ Prompt(p) /\ Covered(p)
  BY <1>1, <1>2, <1>3, <1>4 DEF Backed
<1>6. \A r \in Pending(p)' : req'[r].age <= MaxDelay
  BY <1>3, <1>5
<1>7. o + KeyCost * charged <= o2
  BY <1>2
<1>8. Prompt(p)'
  <2>1. SUFFICES ASSUME NEW a \in 0..MaxDelay
                 PROVE  KeyCost * Cardinality(Young(p, a)') <= o2 + c2 * a
    BY <1>2 DEF Prompt, KeyCost
  <2>2. PICK y \in Nat, y2 \in Nat : y = Cardinality(Young(p, a)) /\ y2 = Cardinality(Young(p, a)')
    BY DEF CountsOK
  <2>3. y2 <= y + charged /\ a \in Nat
    BY <1>3, <2>2
  <2>4. KeyCost * y <= o + c * a
    BY <1>2, <1>5, <2>2 DEF Prompt
  <2>5. KeyCost * y2 <= KeyCost * (y + charged) /\ c * a <= c2 * a
    BY <1>3, <1>4, <2>3, Monotone
  <2>6. KeyCost * (y + charged) = KeyCost * y + KeyCost * charged
    BY <1>3
  <2>7. /\ KeyCost * y2 \in Nat /\ KeyCost * y \in Nat /\ KeyCost * charged \in Nat
        /\ c * a \in Nat /\ c2 * a \in Nat /\ KeyCost * (y + charged) \in Nat
    BY <1>3, <2>3
  <2>8. KeyCost * y2 <= o2 + c2 * a
    BY <1>7, <2>4, <2>5, <2>6, <2>7
  <2>9. QED
    BY <2>2, <2>8
<1>9. Covered(p)'
  <2>1. d2 + Grain * n2 <= d + Grain * n + Grain * charged
    BY <1>2
  <2>2. Ratio * (d + Grain * n) <= o + c * MaxDelay
    BY <1>2, <1>5 DEF Covered
  <2>3. /\ Grain * n \in Nat /\ Grain * n2 \in Nat /\ Grain * charged \in Nat
        /\ c * MaxDelay \in Nat /\ c2 * MaxDelay \in Nat /\ KeyCost * charged \in Nat
    BY <1>3
  <2>4. Ratio * (d2 + Grain * n2) <= Ratio * ((d + Grain * n) + Grain * charged)
    BY <1>3, <2>1, <2>3, Monotone
  <2>5. Ratio * ((d + Grain * n) + Grain * charged) = Ratio * (d + Grain * n) + Ratio * (Grain * charged)
    BY <1>3, <2>3
  <2>6. Ratio * (Grain * charged) = KeyCost * charged
    BY <1>3
  <2>7. c * MaxDelay <= c2 * MaxDelay
    BY <1>3, <1>4, Monotone
  <2>8. /\ Ratio * (d2 + Grain * n2) \in Nat /\ Ratio * (d + Grain * n) \in Nat
        /\ Ratio * ((d + Grain * n) + Grain * charged) \in Nat
    BY <1>3, <2>3
  <2>9. Ratio * (d2 + Grain * n2) <= o2 + c2 * MaxDelay
    BY <1>7, <2>2, <2>3, <2>4, <2>5, <2>6, <2>7, <2>8
  <2>10. QED
    BY <1>2, <2>9 DEF Covered
<1>10. QED
  BY <1>6, <1>8, <1>9

\* A step that charges nothing: no key of the project owes less, nothing new is pending.
LEMMA NothingCharged ==
  ASSUME NEW p \in Projects, Backed(p), CountsOK, CountsOK', GateInv, GateInv',
         p \notin disturbed' => p \notin disturbed,
         KeysOf(p) \subseteq KeysOf(p)', UNCHANGED keyDebt,
         projectDebt'[p] = projectDebt[p], Pending(p)' \subseteq Pending(p),
         \A r \in Pending(p)' : req'[r].age = req[r].age
  PROVE  Backed(p)'
<1>1. Owed(p) \subseteq Owed(p)'
  BY DEF Owed, KeyCapacity, KeyCost
<1>2. /\ Cardinality(Owed(p)) <= Cardinality(Owed(p)')
      /\ Cardinality(Pending(p)') <= Cardinality(Pending(p))
  BY <1>1, FS_Subset DEF CountsOK
<1>3. ASSUME NEW a \in 0..MaxDelay
      PROVE  Cardinality(Young(p, a)') <= Cardinality(Young(p, a)) + 0
  <2>1. Young(p, a)' \subseteq Young(p, a)
    BY DEF Young
  <2>2. Cardinality(Young(p, a)') <= Cardinality(Young(p, a))
    BY <2>1, FS_Subset DEF CountsOK
  <2>3. QED
    BY <2>2 DEF CountsOK
<1>4. /\ Cardinality(Pending(p)) \in Nat /\ Cardinality(Owed(p)) \in Nat
      /\ Cardinality(Pending(p)') \in Nat /\ Cardinality(Owed(p)') \in Nat
      /\ projectDebt[p] \in Nat /\ Grain \in Nat /\ KeyCost \in Nat
  BY Numbers DEF CountsOK
<1>5. Grain * Cardinality(Pending(p)') <= Grain * Cardinality(Pending(p))
  BY <1>2, <1>4, Monotone
<1>6. Grain * Cardinality(Pending(p)') \in Nat /\ Grain * Cardinality(Pending(p)) \in Nat
  BY <1>4
<1>7. /\ Cardinality(Owed(p)) + KeyCost * 0 <= Cardinality(Owed(p)')
      /\ projectDebt'[p] + Grain * Cardinality(Pending(p)') <=
           projectDebt[p] + Grain * Cardinality(Pending(p)) + Grain * 0
  BY <1>2, <1>4, <1>5, <1>6
<1>8. QED
  BY <1>3, <1>7, StaysBacked

\* The ceiling of a key lets a request pass: its project's keys owe KeyCost ticks more.
LEMMA KeyCharged ==
  ASSUME CountsOK, CountsOK', GateInv, NEW p \in Projects, NEW k \in KeysOf(p),
         KeyAllows(k), keyDebt' = [keyDebt EXCEPT ![k] = @ + KeyCost], UNCHANGED apiKeys
  PROVE  Cardinality(Owed(p)') = Cardinality(Owed(p)) + KeyCost
<1> DEFINE d == keyDebt[k]
           ticks == {k} \X ((d + 1)..(d + KeyCost))
<1>1. /\ d \in Nat /\ KeyCost \in Nat \ {0} /\ d + KeyCost <= KeyCapacity
      /\ keyDebt \in [Keys -> 0..KeyCapacity] /\ KeyCapacity \in Nat /\ k \in Keys
  BY Capacities, ApiGateAssumption DEF GateInv, TypeOK, KeysOf, KeyAllows
<1>2. KeysOf(p)' = KeysOf(p) /\ KeysOf(p) \subseteq Keys
  BY DEF KeysOf
<1>3. Owed(p)' = Owed(p) \cup ticks
  <2>1. Owed(p)' = {u \in KeysOf(p) \X (1..KeyCapacity) : u[2] <= keyDebt'[u[1]]}
    BY <1>2 DEF Owed, KeyCapacity, KeyCost
  <2>2. keyDebt'[k] = d + KeyCost /\ \A j \in Keys : j # k => keyDebt'[j] = keyDebt[j]
    BY <1>1
  <2>3. ASSUME NEW j \in KeysOf(p), NEW i \in 1..KeyCapacity
        PROVE  i <= keyDebt'[j] <=> i <= keyDebt[j] \/ <<j, i>> \in ticks
    BY <1>1, <1>2, <2>2
  <2>4. ticks \subseteq KeysOf(p) \X (1..KeyCapacity)
    BY <1>1
  <2> HIDE DEF ticks, d
  <2>5. QED
    BY <2>1, <2>3, <2>4 DEF Owed
<1>4. Owed(p) \cap ticks = {}
  BY <1>1 DEF Owed
<1>5. IsFiniteSet(ticks) /\ Cardinality(ticks) = KeyCost
  <2>1. IsFiniteSet((d + 1)..(d + KeyCost)) /\ Cardinality((d + 1)..(d + KeyCost)) = KeyCost
    <3>1. d + 1 \in Int /\ d + KeyCost \in Int /\ ~(d + 1 > d + KeyCost)
      BY <1>1
    <3> HIDE DEF d
    <3>2. /\ IsFiniteSet((d + 1)..(d + KeyCost))
          /\ Cardinality((d + 1)..(d + KeyCost)) = (d + KeyCost) - (d + 1) + 1
      BY <3>1, FS_Interval
    <3>3. QED
      BY <3>2, <1>1
  <2>2. IsFiniteSet({k}) /\ Cardinality({k}) = 1
    BY FS_Singleton
  <2> HIDE DEF d
  <2>3. /\ IsFiniteSet({k} \X ((d + 1)..(d + KeyCost)))
        /\ Cardinality({k} \X ((d + 1)..(d + KeyCost))) = 1 * KeyCost
    BY <2>1, <2>2, FS_Product
  <2>4. QED
    BY <2>3, <1>1
<1> HIDE DEF ticks
<1>6. IsFiniteSet(Owed(p)) /\ Cardinality(Owed(p)) \in Nat
  BY DEF CountsOK
<1>7. Cardinality(Owed(p) \cup ticks) = Cardinality(Owed(p)) + Cardinality(ticks) - Cardinality({})
  BY <1>4, <1>5, <1>6, FS_Union
<1>8. QED
  BY <1>1, <1>3, <1>5, <1>6, <1>7, FS_EmptySet

\* Time passes: each key of the project pays off at most one tick.
LEMMA TickPays ==
  ASSUME CountsOK, CountsOK', GateInv, NEW p \in Projects, Tick
  PROVE  Cardinality(Owed(p)) <= Cardinality(Owed(p)') + KeyCount(p)
<1> DEFINE top == {<<k, keyDebt[k]>> : k \in KeysOf(p)}
           f == [k \in KeysOf(p) |-> <<k, keyDebt[k]>>]
<1>1. /\ KeysOf(p)' = KeysOf(p) /\ KeysOf(p) \subseteq Keys
      /\ \A k \in Keys : /\ keyDebt[k] \in 0..KeyCapacity
                          /\ keyDebt'[k] = IF keyDebt[k] = 0 THEN 0 ELSE keyDebt[k] - 1
  BY DEF Tick, admin, KeysOf, GateInv, TypeOK
<1>2. IsFiniteSet(top) /\ Cardinality(top) <= KeyCount(p)
  <2>1. f \in Surjection(KeysOf(p), top)
    BY DEF Surjection
  <2> HIDE DEF top, f
  <2>2. QED
    BY <2>1, FS_Surjection DEF CountsOK, KeyCount
<1>3. Owed(p) \subseteq Owed(p)' \cup top
  <2>1. SUFFICES ASSUME NEW k \in KeysOf(p), NEW i \in 1..KeyCapacity, i <= keyDebt[k]
                 PROVE  i <= keyDebt'[k] \/ i = keyDebt[k]
    BY <1>1 DEF Owed, KeyCapacity, KeyCost
  <2>2. QED
    BY <1>1, <2>1, Capacities
<1> HIDE DEF top, f
<1>4. /\ IsFiniteSet(Owed(p)') /\ Cardinality(Owed(p)') \in Nat
      /\ Cardinality(Owed(p)) \in Nat /\ KeyCount(p) \in Nat
  BY DEF CountsOK
<1>5. /\ IsFiniteSet(Owed(p)' \cup top)
      /\ Cardinality(Owed(p)' \cup top) =
           Cardinality(Owed(p)') + Cardinality(top) - Cardinality(Owed(p)' \cap top)
  BY <1>2, <1>4, FS_Union
<1>6. Cardinality(Owed(p)' \cap top) \in Nat /\ Cardinality(top) \in Nat
  BY <1>2, <1>4, FS_Intersection, FS_CardinalityType
<1>7. Cardinality(Owed(p)) <= Cardinality(Owed(p)' \cup top)
  BY <1>3, <1>5, FS_Subset
<1>8. QED
  BY <1>2, <1>4, <1>5, <1>6, <1>7

LEMMA TickBacked ==
  ASSUME CountsOK, CountsOK', GateInv, GateInv', NEW p \in Projects, Backed(p), Tick
  PROVE  Backed(p)'
<1>1. SUFFICES ASSUME p \notin disturbed', KeyCount(p)' <= Ratio
               PROVE  /\ \A r \in Pending(p)' : req'[r].age <= MaxDelay
                      /\ Prompt(p)' /\ Covered(p)'
  BY DEF Backed
<1>2. KeyCount(p)' = KeyCount(p) /\ Pending(p)' = Pending(p)
  BY TickAges DEF Tick, admin, KeysOf, KeyCount, Pending, GateInv
<1>3. PICK n \in Nat, o \in Nat, o2 \in Nat, c \in Nat, d \in Nat, d2 \in Nat :
        /\ n = Cardinality(Pending(p)) /\ n = Cardinality(Pending(p)')
        /\ o = Cardinality(Owed(p)) /\ o2 = Cardinality(Owed(p)')
        /\ c = KeyCount(p) /\ c = KeyCount(p)'
        /\ d = projectDebt[p] /\ d2 = projectDebt'[p]
  BY <1>2, Numbers, NumbersNext
<1>4. /\ Ratio \in Nat /\ Grain \in Nat /\ MaxDelay \in Nat /\ KeyCost = Ratio * Grain
      /\ KeyCost \in Nat /\ c <= Ratio
  BY <1>1, <1>3, Numbers
<1>5. \A r \in Pending(p) : req'[r].age <= MaxDelay
  <2>1. \A r \in Pending(p) : ~(req'[r].age > MaxDelay)
    BY <1>1 DEF Tick
  <2>2. \A r \in Pending(p) : req'[r].age \in Nat
    BY DEF GateInv, RequestOK, Pending
  <2>3. QED
    BY <1>4, <2>1, <2>2
<1>6. CASE p \in disturbed
  <2>1. d2 = 0 /\ Pending(p) = {}
    BY <1>1, <1>3, <1>6 DEF Tick
  <2>2. n = 0
    BY <1>3, <2>1, FS_EmptySet
  <2>3. Covered(p)'
    <3>1. Ratio * (d2 + Grain * n) = 0 /\ c * MaxDelay \in Nat
      BY <1>4, <2>1, <2>2
    <3>2. Ratio * (d2 + Grain * n) <= o2 + c * MaxDelay
      BY <3>1
    <3>3. QED
      BY <1>3, <3>2 DEF Covered
  <2>4. Prompt(p)'
    <3>1. SUFFICES ASSUME NEW a \in 0..MaxDelay
                   PROVE  KeyCost * Cardinality(Young(p, a)') <= o2 + c * a
      BY <1>3 DEF Prompt, KeyCost
    <3>2. Young(p, a)' = {}
      BY <1>2, <2>1 DEF Young
    <3>3. Cardinality(Young(p, a)') = 0
      BY <3>2, FS_EmptySet
    <3>4. KeyCost * 0 = 0 /\ c * a \in Nat
      BY <1>4
    <3>5. QED
      BY <3>3, <3>4
  <2>5. QED
    BY <1>2, <1>5, <2>3, <2>4
<1>7. CASE p \notin disturbed
  <2>1. (\A r \in Pending(p) : req[r].age <= MaxDelay) /\ Prompt(p) /\ Covered(p)
    BY <1>3, <1>4, <1>7 DEF Backed
  <2>2. \A r \in Pending(p) : req'[r].age = req[r].age + 1 /\ req[r].age \in Nat
    BY <2>1, TickAges DEF GateInv, RequestOK, Pending
  <2>3. o <= o2 + c
    BY <1>3, TickPays
  <2>4. ASSUME NEW a \in 0..MaxDelay
        PROVE  KeyCost * Cardinality(Young(p, a)') <= o2 + c * a
    <3>1. CASE a = 0
      <4>1. Young(p, a)' = {}
        BY <1>2, <2>2, <3>1 DEF Young
      <4>2. Cardinality(Young(p, a)') = 0
        BY <4>1, FS_EmptySet
      <4>3. KeyCost * 0 = 0 /\ c * a \in Nat
        BY <1>4
      <4>4. QED
        BY <4>2, <4>3
    <3>2. CASE a # 0
      <4>1. PICK b \in 0..MaxDelay : a = b + 1
        BY <1>4, <3>2
      <4>2. Young(p, a)' = Young(p, b)
        <5>1. \A r \in Pending(p) : req'[r].age <= a <=> req[r].age <= b
          BY <1>4, <2>2, <4>1
        <5>2. QED
          BY <1>2, <5>1 DEF Young
      <4>3. PICK y \in Nat : y = Cardinality(Young(p, b)) /\ y = Cardinality(Young(p, a)')
        BY <4>2 DEF CountsOK
      <4>4. KeyCost * y <= o + c * b
        BY <1>3, <2>1, <4>3 DEF Prompt
      <4>5. c * a = c * b + c /\ c * b \in Nat /\ KeyCost * y \in Nat
        BY <1>4, <4>1
      <4>6. KeyCost * y <= o2 + c * a
        BY <2>3, <4>4, <4>5
      <4>7. QED
        BY <4>3, <4>6
    <3>3. QED
      BY <3>1, <3>2
  <2>5. Prompt(p)'
    BY <1>3, <2>4 DEF Prompt, KeyCost
  <2>6. Ratio * (d + Grain * n) <= o + c * MaxDelay
    BY <1>3, <2>1 DEF Covered
  <2>7. Grain * n \in Nat /\ c * MaxDelay \in Nat /\ KeyCost * n = Ratio * (Grain * n)
    BY <1>4
  <2>8. Ratio * (d2 + Grain * n) <= o2 + c * MaxDelay
    <3>1. CASE d = 0
      <4>1. d2 = 0
        BY <1>3, <3>1 DEF Tick
      <4>2. Young(p, MaxDelay)' = Pending(p)
        BY <1>2, <1>5 DEF Young
      <4>3. KeyCost * n <= o2 + c * MaxDelay
        <5>1. MaxDelay \in 0..MaxDelay
          BY <1>4
        <5>2. KeyCost * Cardinality(Young(p, MaxDelay)') <= o2 + c * MaxDelay
          BY <2>4, <5>1
        <5>3. Cardinality(Young(p, MaxDelay)') = n
          BY <1>3, <4>2
        <5>4. QED
          BY <5>2, <5>3
      <4>4. d2 + Grain * n = Grain * n
        BY <2>7, <4>1
      <4>5. QED
        BY <2>7, <4>3, <4>4
    <3>2. CASE d # 0
      <4>1. d2 = d - 1
        BY <1>3, <3>2 DEF Tick
      <4>2. d2 + Grain * n + 1 = d + Grain * n /\ d2 + Grain * n \in Nat
        BY <2>7, <4>1
      <4>3. Ratio * (d2 + Grain * n + 1) = Ratio * (d2 + Grain * n) + Ratio
        BY <1>4, <4>2
      <4>4. Ratio * (d2 + Grain * n) \in Nat
        BY <1>4, <4>2
      <4>5. Ratio * (d2 + Grain * n) + Ratio <= o + c * MaxDelay
        BY <2>6, <4>2, <4>3
      <4>6. QED
        BY <1>4, <2>3, <2>7, <4>4, <4>5
    <3>3. QED
      BY <3>1, <3>2
  <2>9. Covered(p)'
    BY <1>3, <2>8 DEF Covered
  <2>10. QED
    BY <1>2, <1>5, <2>5, <2>9
<1>8. QED
  BY <1>6, <1>7

LEMMA CheckKeyBacked ==
  ASSUME CountsOK, CountsOK', GateInv, GateInv', NEW p \in Projects, Backed(p),
         NEW r \in Requests, CheckKey(r)
  PROVE  Backed(p)'
<1>1. PICK k \in Keys : k = req[r].key
  BY DEF CheckKey, GateInv, TypeOK, Idle
<1>2. /\ KeysOf(p)' = KeysOf(p) /\ UNCHANGED <<apiKeys, projectDebt, disturbed>>
      /\ req[r].pc = "keycheck"
  BY DEF CheckKey, admin, KeysOf
<1>3. CASE ~KeyAllows(k)
  <2>1. /\ UNCHANGED keyDebt /\ Pending(p)' \subseteq Pending(p)
        /\ \A q \in Pending(p)' : req'[q].age = req[q].age
    BY <1>1, <1>2, <1>3 DEF CheckKey, Refuse, Pending, Idle, GateInv, RequestOK
  <2>2. QED
    BY <1>2, <2>1, NothingCharged
<1>4. CASE KeyAllows(k)
  <2>1. /\ keyDebt' = [keyDebt EXCEPT ![k] = @ + KeyCost]
        /\ req' = [req EXCEPT ![r] = [pc |-> "projectcheck", key |-> k, age |-> 0]]
    BY <1>1, <1>4 DEF CheckKey, Goto
  <2>2. /\ \A q \in Requests : q # r => req'[q] = req[q]
        /\ req'[r].pc = "projectcheck" /\ req'[r].key = k /\ req'[r].age = 0
    BY <2>1 DEF GateInv, RequestOK
  <2>3. CASE k \notin KeysOf(p)
    <3>1. /\ Pending(p)' \subseteq Pending(p)
          /\ \A q \in Pending(p)' : q \in Pending(p) /\ req'[q].age = req[q].age
      BY <1>1, <1>2, <2>2, <2>3 DEF Pending, KeysOf
    <3>2. Owed(p)' = Owed(p)
      BY <1>2, <2>1, <2>3 DEF Owed, KeyCapacity, KeyCost, GateInv, TypeOK, KeysOf
    <3>3. Cardinality(Pending(p)') <= Cardinality(Pending(p))
      BY <3>1, FS_Subset DEF CountsOK
    <3>4. ASSUME NEW a \in 0..MaxDelay
          PROVE  Cardinality(Young(p, a)') <= Cardinality(Young(p, a)) + 0
      <4>1. Young(p, a)' \subseteq Young(p, a)
        BY <3>1 DEF Young
      <4>2. Cardinality(Young(p, a)') <= Cardinality(Young(p, a))
        BY <4>1, FS_Subset DEF CountsOK
      <4>3. QED
        BY <4>2 DEF CountsOK
    <3>5. /\ Cardinality(Pending(p)) \in Nat /\ Cardinality(Owed(p)) \in Nat
          /\ Cardinality(Pending(p)') \in Nat /\ projectDebt[p] \in Nat /\ Grain \in Nat
          /\ KeyCost \in Nat
      BY Numbers, NumbersNext
    <3>6. /\ Grain * Cardinality(Pending(p)') <= Grain * Cardinality(Pending(p))
          /\ Grain * Cardinality(Pending(p)') \in Nat /\ Grain * Cardinality(Pending(p)) \in Nat
      BY <3>3, <3>5, Monotone
    <3>7. /\ Cardinality(Owed(p)) + KeyCost * 0 <= Cardinality(Owed(p)')
          /\ projectDebt'[p] + Grain * Cardinality(Pending(p)') <=
               projectDebt[p] + Grain * Cardinality(Pending(p)) + Grain * 0
      BY <1>2, <3>2, <3>5, <3>6
    <3>8. QED
      BY <1>2, <3>1, <3>4, <3>7, StaysBacked
  <2>4. CASE k \in KeysOf(p)
    <3>0. /\ r \notin Pending(p)
          /\ apiKeys'[k].project = p
      BY <1>2, <2>4 DEF Pending, KeysOf
    <3>1. /\ Pending(p)' = Pending(p) \cup {r} /\ r \notin Pending(p)
          /\ \A q \in Pending(p)' : req'[q].age = 0 \/ (q \in Pending(p) /\ req'[q].age = req[q].age)
      <4>1. r \in Pending(p)'
        BY <2>2, <3>0 DEF Pending
      <4>2. \A q \in Requests : q # r => (q \in Pending(p)' <=> q \in Pending(p))
        BY <1>2, <2>2 DEF Pending
      <4>3. Pending(p) \subseteq Requests /\ Pending(p)' \subseteq Requests
        BY DEF Pending
      <4>4. Pending(p)' = Pending(p) \cup {r}
        BY <4>1, <4>2, <4>3
      <4>5. ASSUME NEW q \in Pending(p)'
            PROVE  req'[q].age = 0 \/ (q \in Pending(p) /\ req'[q].age = req[q].age)
        <5>1. CASE q = r
          BY <2>2, <5>1
        <5>2. CASE q # r
          BY <2>2, <4>2, <4>3, <5>2
        <5>3. QED
          BY <5>1, <5>2
      <4>6. QED
        BY <3>0, <4>4, <4>5
    <3>2. Cardinality(Owed(p)') = Cardinality(Owed(p)) + KeyCost
      BY <1>2, <1>4, <2>1, <2>4, KeyCharged
    <3>3. Cardinality(Pending(p)') = Cardinality(Pending(p)) + 1
      <4>1. IsFiniteSet(Pending(p))
        BY DEF CountsOK
      <4>2. Cardinality(Pending(p) \cup {r}) = Cardinality(Pending(p)) + 1
        BY <3>0, <4>1, FS_AddElement
      <4>3. QED
        BY <3>1, <4>2
    <3>4. ASSUME NEW a \in 0..MaxDelay
          PROVE  Cardinality(Young(p, a)') <= Cardinality(Young(p, a)) + 1
      <4>1. Young(p, a)' \subseteq Young(p, a) \cup {r}
        <5>1. ASSUME NEW q \in Young(p, a)', q # r
              PROVE  q \in Young(p, a)
          <6>1. q \in Pending(p)' /\ req'[q].age <= a
            BY DEF Young
          <6>2. q \in Pending(p) /\ q \in Requests
            BY <3>1, <5>1, <6>1 DEF Pending
          <6>3. req[q].age <= a
            BY <2>2, <5>1, <6>1, <6>2
          <6>4. QED
            BY <6>2, <6>3 DEF Young
        <5>2. QED
          BY <5>1
      <4>2. r \notin Young(p, a)
        BY <3>1 DEF Young
      <4>3. /\ IsFiniteSet(Young(p, a) \cup {r})
            /\ Cardinality(Young(p, a) \cup {r}) = Cardinality(Young(p, a)) + 1
        BY <4>2, FS_AddElement DEF CountsOK
      <4>4. Cardinality(Young(p, a)') <= Cardinality(Young(p, a) \cup {r})
        BY <4>1, <4>3, FS_Subset
      <4>5. QED
        BY <4>3, <4>4
    <3>5. /\ Cardinality(Pending(p)) \in Nat /\ Cardinality(Owed(p)) \in Nat
          /\ projectDebt[p] \in Nat /\ Grain \in Nat /\ KeyCost \in Nat
      BY Numbers
    <3>6. /\ Grain * (Cardinality(Pending(p)) + 1) = Grain * Cardinality(Pending(p)) + Grain * 1
          /\ Grain * Cardinality(Pending(p)) \in Nat
      BY <3>5
    <3>7. /\ Cardinality(Owed(p)) + KeyCost * 1 <= Cardinality(Owed(p)')
          /\ projectDebt'[p] + Grain * Cardinality(Pending(p)') <=
               projectDebt[p] + Grain * Cardinality(Pending(p)) + Grain * 1
      BY <1>2, <3>2, <3>3, <3>5, <3>6
    <3>8. QED
      BY <1>2, <3>1, <3>4, <3>7, StaysBacked
  <2>5. QED
    BY <2>3, <2>4
<1>5. QED
  BY <1>3, <1>4

LEMMA CheckProjectBacked ==
  ASSUME CountsOK, CountsOK', GateInv, GateInv', NEW p \in Projects, Backed(p),
         NEW r \in Requests, CheckProject(r)
  PROVE  Backed(p)'
<1>1. PICK k \in Keys : k = req[r].key /\ Stored(k)
  BY DEF CheckProject, GateInv, TypeOK, Idle
<1>2. /\ KeysOf(p)' = KeysOf(p) /\ UNCHANGED <<apiKeys, keyDebt, disturbed>>
      /\ req[r].pc = "projectcheck"
  BY DEF CheckProject, admin, KeysOf
<1>3. /\ \A q \in Requests : q # r => req'[q] = req[q]
      /\ req'[r].pc # "projectcheck"
  BY DEF CheckProject, Admit, Goto, Refuse, Idle, GateInv, RequestOK
<1>4. /\ Pending(p)' = Pending(p) \ {r}
      /\ r \in Pending(p) <=> apiKeys[k].project = p
      /\ \A q \in Pending(p)' : q \in Pending(p) /\ req'[q].age = req[q].age
  BY <1>1, <1>2, <1>3 DEF Pending
<1>5. \/ projectDebt' = projectDebt
      \/ projectDebt' = [projectDebt EXCEPT ![apiKeys[k].project] = @ + Grain]
  BY <1>1 DEF CheckProject
<1>6. CASE projectDebt'[p] = projectDebt[p]
  BY <1>2, <1>4, <1>6, NothingCharged
<1>7. CASE projectDebt'[p] # projectDebt[p]
  <2>1. r \in Pending(p) /\ projectDebt'[p] = projectDebt[p] + Grain
    BY <1>4, <1>5, <1>7 DEF GateInv, TypeOK
  <2>2. Cardinality(Pending(p)') = Cardinality(Pending(p)) - 1
    BY <1>4, <2>1, FS_RemoveElement DEF CountsOK
  <2>3. Owed(p)' = Owed(p)
    BY <1>2 DEF Owed, KeyCapacity, KeyCost
  <2>4. ASSUME NEW a \in 0..MaxDelay
        PROVE  Cardinality(Young(p, a)') <= Cardinality(Young(p, a)) + 0
    <3>1. Young(p, a)' \subseteq Young(p, a)
      BY <1>4 DEF Young
    <3>2. Cardinality(Young(p, a)') <= Cardinality(Young(p, a))
      BY <3>1, FS_Subset DEF CountsOK
    <3>3. QED
      BY <3>2 DEF CountsOK
  <2>5. /\ Cardinality(Pending(p)') \in Nat /\ Cardinality(Owed(p)) \in Nat
        /\ projectDebt[p] \in Nat /\ Grain \in Nat /\ KeyCost \in Nat
        /\ Cardinality(Pending(p)) = Cardinality(Pending(p)') + 1
    BY <2>2, Numbers, NumbersNext
  <2>6. /\ Grain * (Cardinality(Pending(p)') + 1) = Grain * Cardinality(Pending(p)') + Grain
        /\ Grain * Cardinality(Pending(p)') \in Nat
    BY <2>5
  <2>7. /\ Cardinality(Owed(p)) + KeyCost * 0 <= Cardinality(Owed(p)')
        /\ projectDebt'[p] + Grain * Cardinality(Pending(p)') <=
             projectDebt[p] + Grain * Cardinality(Pending(p)) + Grain * 0
    BY <2>1, <2>3, <2>5, <2>6
  <2>8. QED
    BY <1>2, <1>4, <2>4, <2>7, StaysBacked
<1>8. QED
  BY <1>6, <1>7

LEMMA FiniteStep ==
  ASSUME GateInv, GateInv', FiniteInv, KeysKept, [Next]_vars
  PROVE  FiniteInv'
<1> DEFINE stored == {k \in Keys : Stored(k)}
           busy == {r \in Requests : req[r].pc # "idle"}
<1>1. IsFiniteSet(stored')
  <2>1. \/ UNCHANGED apiKeys
        \/ \E k \in Keys : \E row : apiKeys' = [apiKeys EXCEPT ![k] = row]
    BY DEF Next, vars, HandleCreateProject, RunCreateProject, CreateProject,
           HandleCreateAPIKey, RunCreateAPIKey, CreateAPIKey, RenderAPIKeysTab, RevokeAPIKey,
           TouchAPIKeyLastUsed, ResolveKey, CheckKey, CheckKeyFailsOpen, CheckProject,
           CheckProjectFailsOpen, ServeHTTP, Tick, admin
  <2>2. stored' = stored \/ \E k \in Keys : stored' \subseteq stored \cup {k}
    BY <2>1 DEF Stored, GateInv, TypeOK
  <2> HIDE DEF stored
  <2>3. QED
    BY <2>2, FS_AddElement, FS_Subset DEF FiniteInv, stored
<1>2. IsFiniteSet(busy')
  <2>1. \/ UNCHANGED req \/ Tick
        \/ \E r \in Requests : \E h : req' = [req EXCEPT ![r] = h]
    BY DEF Next, vars, HandleCreateProject, RunCreateProject, CreateProject,
           HandleCreateAPIKey, RunCreateAPIKey, CreateAPIKey, RenderAPIKeysTab, RevokeAPIKey,
           TouchAPIKeyLastUsed, ResolveKey, CheckKey, CheckKeyFailsOpen, CheckProject,
           CheckProjectFailsOpen, ServeHTTP, Goto, Refuse, Admit
  <2>2. busy' = busy \/ \E r \in Requests : busy' \subseteq busy \cup {r}
    BY <2>1, TickAges DEF GateInv, RequestOK
  <2> HIDE DEF busy
  <2>3. QED
    BY <2>2, FS_AddElement, FS_Subset DEF FiniteInv, busy
<1>3. QED
  BY <1>1, <1>2 DEF FiniteInv

LEMMA BalanceStep ==
  ASSUME GateInv, FiniteInv, BalanceInv, [Next]_vars
  PROVE  FiniteInv' /\ BalanceInv'
<1>1. GateInv' /\ KeysKept
  BY GateStep
<1>2. FiniteInv' /\ CountsOK /\ CountsOK'
  BY <1>1, FiniteStep, FiniteParts, FinitePartsNext
<1>3. SUFFICES ASSUME NEW p \in Projects
               PROVE  Backed(p)'
  BY <1>2 DEF BalanceInv
<1>4. Backed(p)
  BY DEF BalanceInv
<1>5. KeysOf(p) \subseteq KeysOf(p)'
  BY <1>1, ApiGateAssumption DEF KeysKept, KeysOf, Stored
<1>6. ASSUME p \notin disturbed' => p \notin disturbed, UNCHANGED <<keyDebt, projectDebt>>,
             Pending(p)' \subseteq Pending(p), \A r \in Pending(p)' : req'[r].age = req[r].age
      PROVE  Backed(p)'
  BY <1>1, <1>2, <1>4, <1>5, <1>6, NothingCharged
<1>7. ASSUME UNCHANGED <<keyDebt, projectDebt, disturbed, req>>
      PROVE  Backed(p)'
  <2>1. \A r \in Requests : req[r].pc = "projectcheck" => req[r].key \in Keys /\ Stored(req[r].key)
    BY DEF GateInv, TypeOK, Idle
  <2>2. Pending(p)' \subseteq Pending(p)
    BY <1>1, <1>7, <2>1 DEF Pending, KeysKept
  <2>3. QED
    BY <1>6, <1>7, <2>2
<1>8. ASSUME \A r \in Requests : req'[r] = req[r] \/ req'[r].pc # "projectcheck",
             UNCHANGED <<admin, keyDebt, projectDebt, disturbed>>
      PROVE  Backed(p)'
  <2>1. Pending(p)' \subseteq Pending(p) /\ \A r \in Pending(p)' : req'[r].age = req[r].age
    BY <1>8 DEF Pending, admin
  <2>2. QED
    BY <1>6, <1>8, <2>1
<1>9. ASSUME NEW r \in Requests, NEW k \in Keys, NEW required \in Scopes, ResolveKey(r, k, required)
      PROVE  Backed(p)'
  BY <1>8, <1>9 DEF ResolveKey, GateInv, RequestOK
<1>10. ASSUME NEW r \in Requests, CheckKeyFailsOpen(r)
       PROVE  Backed(p)'
  <2>1. PICK k \in Keys : k = req[r].key
    BY <1>10 DEF CheckKeyFailsOpen, GateInv, TypeOK, Idle
  <2>2. CASE apiKeys[k].project = p
    BY <1>10, <2>1, <2>2 DEF CheckKeyFailsOpen, Backed
  <2>3. CASE apiKeys[k].project # p
    <3>1. Pending(p)' \subseteq Pending(p) /\ \A q \in Pending(p)' : req'[q].age = req[q].age
      BY <1>10, <2>1, <2>3 DEF CheckKeyFailsOpen, Goto, Pending, admin, GateInv, RequestOK
    <3>2. QED
      BY <1>6, <1>10, <3>1 DEF CheckKeyFailsOpen
  <2>4. QED
    BY <2>2, <2>3
<1>11. ASSUME NEW r \in Requests, CheckProjectFailsOpen(r)
       PROVE  Backed(p)'
  <2>1. req' = [req EXCEPT ![r] = [pc |-> "admitted", key |-> req[r].key, age |-> 0]]
    BY <1>11, Advance DEF CheckProjectFailsOpen, Admit
  <2>2. QED
    BY <1>8, <1>11, <2>1 DEF CheckProjectFailsOpen, GateInv, RequestOK
<1>12. ASSUME NEW r \in Requests, ServeHTTP(r)
       PROVE  Backed(p)'
  BY <1>8, <1>12 DEF ServeHTTP, Idle, GateInv, RequestOK
<1>13. ASSUME NEW r \in Requests, CheckKey(r) \/ CheckProject(r)
       PROVE  Backed(p)'
  BY <1>1, <1>2, <1>4, <1>13, CheckKeyBacked, CheckProjectBacked
<1>14. CASE Tick
  BY <1>1, <1>2, <1>4, <1>14, TickBacked
<1>15. QED
  BY <1>7, <1>9, <1>10, <1>11, <1>12, <1>13, <1>14
     DEF Next, vars, HandleCreateProject, RunCreateProject, CreateProject,
         HandleCreateAPIKey, RunCreateAPIKey, CreateAPIKey, RenderAPIKeysTab, RevokeAPIKey,
         TouchAPIKeyLastUsed

\* NewRateLimiter and Allow, for every rate, ratio and delay, and time in pieces as small
\* as one likes: keys that leave room for the delay between the two checks do not exhaust
\* their project, so a request past its key's ceiling is not refused by its project's, as
\* long as second checks are prompt and no key went unchecked since the project's debt
\* was last paid off.
THEOREM KeyCeilingsProtectProjectAlways == Spec => []KeyCeilingsProtectProject
<1>1. Init => FiniteInv /\ BalanceInv
  <2>1. SUFFICES ASSUME Init
                 PROVE  FiniteInv /\ BalanceInv
    OBVIOUS
  <2>2. {k \in Keys : Stored(k)} = {} /\ {r \in Requests : req[r].pc # "idle"} = {}
    BY <2>1 DEF Init, Stored, NoRow, Idle
  <2>3. FiniteInv
    BY <2>2, FS_EmptySet DEF FiniteInv
  <2>4. ASSUME NEW p \in Projects
        PROVE  Backed(p)
    <3>1. Pending(p) = {} /\ projectDebt[p] = 0
      BY <2>1 DEF Init, Pending, Idle
    <3>2. CountsOK /\ GateInv
      BY <2>1, <2>3, FiniteParts, InitGate
    <3>3. /\ Cardinality(Pending(p)) = 0 /\ Cardinality(Owed(p)) \in Nat /\ KeyCount(p) \in Nat
          /\ Ratio \in Nat /\ Grain \in Nat /\ KeyCost \in Nat /\ MaxDelay \in Nat
      BY <3>1, <3>2, FS_EmptySet, Numbers
    <3>4. Covered(p)
      <4>1. Ratio * (0 + Grain * 0) = 0 /\ KeyCount(p) * MaxDelay \in Nat
        BY <3>3
      <4>2. QED
        BY <3>1, <3>3, <4>1 DEF Covered
    <3>5. Prompt(p)
      <4>1. SUFFICES ASSUME NEW a \in 0..MaxDelay
                     PROVE  KeyCost * Cardinality(Young(p, a)) <=
                              Cardinality(Owed(p)) + KeyCount(p) * a
        BY DEF Prompt
      <4>2. Cardinality(Young(p, a)) = 0
        BY <3>1, FS_EmptySet DEF Young
      <4>3. KeyCost * 0 = 0 /\ KeyCount(p) * a \in Nat
        BY <3>3
      <4>4. QED
        BY <3>3, <4>2, <4>3
    <3>6. QED
      BY <3>1, <3>4, <3>5 DEF Backed
  <2>5. QED
    BY <2>3, <2>4 DEF BalanceInv
<1>2. GateInv /\ FiniteInv /\ BalanceInv => KeyCeilingsProtectProject
  <2>1. SUFFICES ASSUME GateInv, FiniteInv, BalanceInv, NEW r \in Requests, NEW p,
                        p = apiKeys[req[r].key].project, req[r].pc = "projectcheck",
                        p \notin disturbed, RoomFor(p)
                 PROVE  ProjectAllows(p)
    BY DEF KeyCeilingsProtectProject
  <2>2. req[r].key \in Keys /\ Stored(req[r].key)
    BY <2>1 DEF GateInv, TypeOK, Idle
  <2>3. p \in Projects /\ r \in Pending(p)
    BY <2>1, <2>2 DEF GateInv, TypeOK, Stored, Pending
  <2>4. CountsOK
    BY <2>1, FiniteParts
  <2>5. PICK n \in Nat \ {0}, o \in Nat, c \in Nat, d \in Nat, cap \in Nat \ {0} :
          /\ n = Cardinality(Pending(p)) /\ o = Cardinality(Owed(p)) /\ c = KeyCount(p)
          /\ d = projectDebt[p] /\ cap = KeyCapacity
    <3>1. Cardinality(Pending(p)) # 0
      BY <2>3, <2>4, FS_EmptySet DEF CountsOK
    <3>2. QED
      BY <2>1, <2>3, <2>4, <3>1, Numbers, Capacities
  <2>6. Ratio \in Nat \ {0} /\ Grain \in Nat \ {0} /\ MaxDelay \in Nat
    BY ApiGateAssumption
  <2>7. c * (cap + MaxDelay) <= Ratio * cap
    BY <2>1, <2>5 DEF RoomFor, KeyCount
  <2>8. c <= Ratio
    <3>1. SUFFICES ASSUME Ratio + 1 <= c
                   PROVE  FALSE
      BY <2>5, <2>6
    <3>2. (Ratio + 1) * cap <= c * cap /\ c * cap <= c * (cap + MaxDelay)
      BY <2>5, <2>6, <3>1, Monotone
    <3>3. (Ratio + 1) * cap = Ratio * cap + cap /\ Ratio * cap \in Nat
      BY <2>5, <2>6
    <3>4. c * cap \in Nat /\ c * (cap + MaxDelay) \in Nat
      BY <2>5, <2>6
    <3>5. QED
      BY <2>5, <2>7, <3>2, <3>3, <3>4
  <2>9. Ratio * (d + Grain * n) <= o + c * MaxDelay
    BY <2>1, <2>3, <2>5, <2>8 DEF BalanceInv, Backed, Covered
  <2>10. o <= c * cap
    BY <2>3, <2>4, <2>5 DEF CountsOK
  <2>11. c * (cap + MaxDelay) = c * cap + c * MaxDelay /\ c * cap \in Nat /\ c * MaxDelay \in Nat
    BY <2>5, <2>6
  <2>12. /\ d + Grain * n \in Nat /\ Ratio * (d + Grain * n) \in Nat /\ Ratio * cap \in Nat
         /\ Grain * n \in Nat
    BY <2>5, <2>6
  <2>13. Ratio * (d + Grain * n) <= Ratio * cap
    BY <2>5, <2>7, <2>9, <2>10, <2>11, <2>12
  <2>14. d + Grain * n <= cap
    BY <2>5, <2>6, <2>12, <2>13, Cancel
  <2>15. Grain * 1 <= Grain * n
    BY <2>5, <2>6, Monotone
  <2>16. d + Grain <= cap
    BY <2>5, <2>6, <2>12, <2>14, <2>15
  <2>17. QED
    BY <2>5, <2>16, Capacities DEF ProjectAllows
<1>3. QED
  BY <1>1, <1>2, InitGate, GateStep, BalanceStep, PTL DEF Spec
=============================================================================
