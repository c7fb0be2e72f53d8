------------------------ MODULE DeviceRegistryProofs ------------------------
(***************************************************************************)
(* Proofs about device registration, for any number of concurrent          *)
(* requests, tokens, users and device uuids.                               *)
(*                                                                         *)
(* A transactional registration holds the advisory lock of its physical    *)
(* device from its first statement to its end.  So the rows of the device  *)
(* that are active when it commits are the one it upserted and those its   *)
(* search for superseded rows had found and has since marked.              *)
(***************************************************************************)
EXTENDS DeviceRegistry, TLAPS

Handlers == [pc : PCs, in : Inputs \cup {NoInput}, todo : SUBSET Tokens]
Writes == UNION {[T -> Row] : T \in SUBSET Tokens}

StateOK ==
  /\ row \in [Tokens -> Row]
  /\ reg \in [Requests -> Handlers]
  /\ writes \in [Requests -> Writes]
  /\ advisory \in [Users \X UUIDs -> Requests \cup {NoOne}]
  /\ subLock \in [Users -> Requests \cup {NoOne}]

Writing(r) == reg[r].pc \in {"upserted", "superseding"}
Key(r) == <<reg[r].in.user, reg[r].in.uuid>>

\* A handler at work has an input, and a transactional one past its first statement
\* the advisory lock of its physical device.
HandlerInv(r) ==
  /\ InFlight(r) => reg[r].in \in Inputs
  /\ reg[r].pc = "begun" \/ Writing(r) => Transactional(r)
  /\ reg[r].pc = "locked" => reg[r].in.user # NoUser
  /\ InFlight(r) /\ reg[r].pc # "begun" /\ Transactional(r) => advisory[Key(r)] = r

\* The uncommitted rows are those of one physical device, all stale but the one
\* that was registered.
WritesInv(r) ==
  /\ ~Writing(r) => DOMAIN writes[r] = {}
  /\ Writing(r) =>
       /\ reg[r].in.token \in DOMAIN writes[r]
       /\ writes[r][reg[r].in.token].status = "active"
       /\ \A t \in DOMAIN writes[r] :
            /\ writes[r][t].user = reg[r].in.user /\ writes[r][t].uuid = reg[r].in.uuid
            /\ t # reg[r].in.token => writes[r][t].status = "stale"

RegistryInv == StateOK /\ \A r \in Requests : HandlerInv(r) /\ WritesInv(r)

(***************************************************************************)
(* Facts about inputs and writes                                           *)
(***************************************************************************)
LEMMA InputFields ==
  ASSUME NEW in \in Inputs
  PROVE  in.token \in Tokens /\ in.user \in Users \cup {NoUser} /\ in.uuid \in UUIDs \cup {NoUUID}
BY RegistryAssumption

LEMMA WritesFunctions ==
  ASSUME NEW w
  PROVE  w \in Writes <=> DOMAIN w \subseteq Tokens /\ w \in [DOMAIN w -> Row]
<1>1. ASSUME w \in Writes
      PROVE  DOMAIN w \subseteq Tokens /\ w \in [DOMAIN w -> Row]
  <2>1. PICK T \in SUBSET Tokens : w \in [T -> Row]
    BY <1>1 DEF Writes
  <2>2. QED
    BY <2>1
<1>2. ASSUME DOMAIN w \subseteq Tokens, w \in [DOMAIN w -> Row]
      PROVE  w \in Writes
  BY <1>2 DEF Writes
<1>3. QED
  BY <1>1, <1>2

LEMMA NoWritesOK == NoWrites \in Writes /\ DOMAIN NoWrites = {}
<1>1. DOMAIN NoWrites = {}
  BY DEF NoWrites
<1>2. NoWrites \in [{} -> Row]
  BY DEF NoWrites
<1>3. QED
  BY <1>1, <1>2, WritesFunctions

LEMMA VersionOK ==
  ASSUME StateOK, NEW r \in Requests, NEW t \in Tokens
  PROVE  Version(r, t) \in Row
<1>1. writes[r] \in [DOMAIN writes[r] -> Row]
  BY WritesFunctions DEF StateOK
<1>2. QED
  BY <1>1 DEF StateOK, Version

\* A step of one request: what the others hold stays theirs.
LEMMA OneRequestSteps ==
  ASSUME RegistryInv, NEW r \in Requests, StateOK', HandlerInv(r)', WritesInv(r)',
         \A s \in Requests : s # r => reg'[s] = reg[s] /\ writes'[s] = writes[s],
         \A s \in Requests, key \in Users \X UUIDs :
           s # r /\ advisory[key] = s => advisory'[key] = s
  PROVE  RegistryInv'
<1>1. SUFFICES ASSUME NEW s \in Requests, s # r
               PROVE  HandlerInv(s)' /\ WritesInv(s)'
  BY DEF RegistryInv
<1>2. reg'[s] = reg[s] /\ writes'[s] = writes[s] /\ HandlerInv(s) /\ WritesInv(s)
  BY <1>1 DEF RegistryInv
<1>3. InFlight(s) /\ reg[s].pc # "begun" /\ Transactional(s) => advisory'[Key(s)] = s
  <2>1. SUFFICES ASSUME InFlight(s), reg[s].pc # "begun", Transactional(s)
                 PROVE  advisory'[Key(s)] = s
    OBVIOUS
  <2>2. advisory[Key(s)] = s
    BY <1>2, <2>1 DEF HandlerInv
  <2>3. Key(s) \in Users \X UUIDs
    <3>1. reg[s].in \in Inputs
      BY <1>2, <2>1 DEF HandlerInv
    <3>2. QED
      BY <2>1, <3>1, InputFields DEF Key, Transactional
  <2>4. QED
    BY <1>1, <2>2, <2>3
<1>4. HandlerInv(s)'
  BY <1>2, <1>3 DEF HandlerInv, InFlight, Writing, Transactional, Key
<1>5. WritesInv(s)'
  BY <1>2 DEF WritesInv, Writing
<1>6. QED
  BY <1>4, <1>5

LEMMA InitInv == Init => RegistryInv
<1> SUFFICES ASSUME Init
             PROVE  RegistryInv
  OBVIOUS
<1>1. NoRow \in Row
  BY DEF NoRow, Row
<1>2. Idle \in Handlers
  BY DEF Idle, Handlers, PCs
<1>3. StateOK
  BY <1>1, <1>2, NoWritesOK DEF Init, StateOK
<1>4. ASSUME NEW r \in Requests
      PROVE  HandlerInv(r) /\ WritesInv(r)
  <2>1. reg[r].pc = "idle" /\ DOMAIN writes[r] = {}
    BY NoWritesOK DEF Init, Idle
  <2>2. QED
    BY <2>1 DEF HandlerInv, WritesInv, InFlight, Writing
<1>5. QED
  BY <1>3, <1>4 DEF RegistryInv

(***************************************************************************)
(* The actions                                                             *)
(***************************************************************************)
LEMMA ReceiveStep ==
  ASSUME RegistryInv, NEW r \in Requests, NEW in \in Inputs, Receive(r, in)
  PROVE  RegistryInv'
<1> USE DEF RegistryInv
<1>1. UNCHANGED <<row, writes, locks>> /\ ~InFlight(r)
  BY DEF Receive
<1>2. reg' \in [Requests -> Handlers]
      /\ \A s \in Requests : s # r => reg'[s] = reg[s]
  BY DEF Receive, StateOK, Handlers, PCs
<1>3. reg'[r].in = in /\ reg'[r].pc = IF in.user # NoUser /\ in.uuid # NoUUID THEN "begun"
                                    ELSE IF in.user # NoUser THEN "locked" ELSE "subscribed"
  BY DEF Receive, StateOK
<1>4. StateOK'
  BY <1>1, <1>2 DEF StateOK, locks
<1>5. HandlerInv(r)'
  BY <1>3 DEF HandlerInv, InFlight, Writing, Transactional, Key
<1>6. WritesInv(r)'
  <2>1. DOMAIN writes'[r] = {}
    BY <1>1 DEF WritesInv, InFlight, Writing
  <2>2. ~Writing(r)'
    BY <1>3 DEF Writing
  <2>3. QED
    BY <2>1, <2>2 DEF WritesInv
<1>7. QED
  BY <1>1, <1>2, <1>4, <1>5, <1>6, OneRequestSteps DEF locks

\* A handler moves on: the rest of its record stays.
LEMMA GoesFields ==
  ASSUME StateOK, NEW r \in Requests, NEW pc \in PCs, Goes(r, pc)
  PROVE  /\ reg' \in [Requests -> Handlers]
         /\ reg'[r].pc = pc /\ reg'[r].in = reg[r].in /\ reg'[r].todo = reg[r].todo
         /\ \A s \in Requests : s # r => reg'[s] = reg[s]
BY DEF StateOK, Goes, Handlers

LEMMA AdvisoryLockStep ==
  ASSUME RegistryInv, NEW r \in Requests, AdvisoryLock(r)
  PROVE  RegistryInv'
<1> USE DEF RegistryInv
<1>1. /\ reg[r].pc = "begun" /\ advisory[Key(r)] = NoOne
      /\ advisory' = [advisory EXCEPT ![Key(r)] = r]
      /\ Goes(r, "locked") /\ UNCHANGED <<row, writes, subLock>>
  BY DEF AdvisoryLock, Key
<1>2. Transactional(r) /\ reg[r].in \in Inputs
  BY <1>1 DEF HandlerInv, InFlight
<1>3. Key(r) \in Users \X UUIDs
  BY <1>2, InputFields DEF Key, Transactional
<1>4. /\ reg' \in [Requests -> Handlers]
      /\ reg'[r].pc = "locked" /\ reg'[r].in = reg[r].in
      /\ \A s \in Requests : s # r => reg'[s] = reg[s]
  BY <1>1, GoesFields DEF PCs
<1>5. PICK k \in Users \X UUIDs : k = Key(r)
  BY <1>3
<1>6. advisory' \in [Users \X UUIDs -> Requests \cup {NoOne}] /\ advisory'[k] = r
  BY <1>1, <1>5 DEF StateOK
<1>7. StateOK'
  BY <1>1, <1>4, <1>6 DEF StateOK
<1>8. Key(r)' = k
  BY <1>4, <1>5 DEF Key
<1>9. reg[r].in.user # NoUser
  BY <1>2 DEF Transactional
<1>10. HandlerInv(r)'
  BY <1>2, <1>4, <1>6, <1>8, <1>9 DEF HandlerInv, InFlight, Writing, Transactional
<1>11. WritesInv(r)'
  <2>1. DOMAIN writes'[r] = {}
    BY <1>1 DEF WritesInv, Writing
  <2>2. ~Writing(r)'
    BY <1>4 DEF Writing
  <2>3. QED
    BY <2>1, <2>2 DEF WritesInv
<1>12. \A s \in Requests, key \in Users \X UUIDs :
         s # r /\ advisory[key] = s => advisory'[key] = s
  BY <1>1, <1>5, RegistryAssumption DEF StateOK
<1>13. QED
  BY <1>1, <1>4, <1>7, <1>10, <1>11, <1>12, OneRequestSteps

LEMMA UpsertSubscriberStep ==
  ASSUME RegistryInv, NEW r \in Requests, UpsertSubscriber(r)
  PROVE  RegistryInv'
<1> USE DEF RegistryInv
<1>1. /\ reg[r].pc = "locked"
      /\ subLock' = IF Transactional(r) THEN [subLock EXCEPT ![reg[r].in.user] = r] ELSE subLock
      /\ Goes(r, "subscribed") /\ UNCHANGED <<row, writes, advisory>>
  BY DEF UpsertSubscriber
<1>2. /\ reg' \in [Requests -> Handlers]
      /\ reg'[r].pc = "subscribed" /\ reg'[r].in = reg[r].in
      /\ \A s \in Requests : s # r => reg'[s] = reg[s]
  BY <1>1, GoesFields DEF PCs
<1>3. subLock' \in [Users -> Requests \cup {NoOne}]
  BY <1>1 DEF StateOK
<1>4. StateOK'
  BY <1>1, <1>2, <1>3 DEF StateOK
<1>5. HandlerInv(r)'
  BY <1>1, <1>2 DEF HandlerInv, InFlight, Writing, Transactional, Key
<1>6. WritesInv(r)'
  <2>1. DOMAIN writes'[r] = {}
    BY <1>1 DEF WritesInv, Writing
  <2>2. ~Writing(r)'
    BY <1>2 DEF Writing
  <2>3. QED
    BY <2>1, <2>2 DEF WritesInv
<1>7. QED
  BY <1>1, <1>2, <1>4, <1>5, <1>6, OneRequestSteps

LEMMA UpsertOK ==
  ASSUME NEW old \in Row, NEW in \in Inputs
  PROVE  /\ Upsert(old, in) \in Row
         /\ Upsert(old, in).status = "active" /\ Upsert(old, in).uuid = in.uuid
         /\ in.user # NoUser => Upsert(old, in).user = in.user
BY InputFields DEF Upsert, Row

\* The client is answered, with no transaction left.
LEMMA AnswerFields ==
  ASSUME StateOK, NEW r \in Requests, Answer(r)
  PROVE  /\ reg' \in [Requests -> Handlers] /\ reg'[r].pc = "idle"
         /\ \A s \in Requests : s # r => reg'[s] = reg[s]
<1>1. Idle \in Handlers /\ Idle.pc = "idle"
  BY DEF Idle, Handlers, PCs
<1>2. QED
  BY <1>1 DEF Answer, StateOK

LEMMA AnsweredInv ==
  ASSUME NEW r \in Requests, reg'[r].pc = "idle", DOMAIN writes'[r] = {}
  PROVE  HandlerInv(r)' /\ WritesInv(r)'
BY DEF HandlerInv, WritesInv, InFlight, Writing

LEMMA UpsertDeviceStep ==
  ASSUME RegistryInv, NEW r \in Requests, UpsertDevice(r)
  PROVE  RegistryInv'
<1> USE DEF RegistryInv
<1>1. PICK t \in Tokens, new \in Row :
        /\ t = reg[r].in.token /\ new = Upsert(row[t], reg[r].in)
  <2>1. reg[r].in \in Inputs
    BY DEF UpsertDevice, HandlerInv, InFlight
  <2>2. reg[r].in.token \in Tokens
    BY <2>1, InputFields
  <2>3. row[reg[r].in.token] \in Row
    BY <2>2 DEF StateOK
  <2>4. QED
    BY <2>1, <2>2, <2>3, UpsertOK
<1>2. reg[r].in \in Inputs /\ reg[r].pc = "subscribed" /\ UNCHANGED locks /\ row[t] \in Row
  BY <1>1 DEF UpsertDevice, HandlerInv, InFlight, StateOK
<1>3. CASE Transactional(r)
  <2>1. /\ writes' = [writes EXCEPT ![r] = [x \in {t} |-> new]]
        /\ Goes(r, "upserted") /\ UNCHANGED row
    BY <1>1, <1>3 DEF UpsertDevice
  <2>2. /\ reg' \in [Requests -> Handlers]
        /\ reg'[r].pc = "upserted" /\ reg'[r].in = reg[r].in
        /\ \A s \in Requests : s # r => reg'[s] = reg[s]
    BY <2>1, GoesFields DEF PCs
  <2>3. [x \in {t} |-> new] \in Writes
    BY <1>1, WritesFunctions
  <2>4. /\ writes' \in [Requests -> Writes] /\ writes'[r] = [x \in {t} |-> new]
        /\ \A s \in Requests : s # r => writes'[s] = writes[s]
    BY <2>1, <2>3 DEF StateOK
  <2>5. StateOK'
    BY <1>2, <2>1, <2>2, <2>4 DEF StateOK, locks
  <2>6. new.status = "active" /\ new.user = reg[r].in.user /\ new.uuid = reg[r].in.uuid
    BY <1>1, <1>2, <1>3, UpsertOK DEF Transactional
  <2>7. HandlerInv(r)'
    BY <1>2, <1>3, <2>2 DEF HandlerInv, InFlight, Writing, Transactional, Key, locks
  <2>8. DOMAIN writes'[r] = {t} /\ writes'[r][t] = new
    BY <2>4
  <2>9. WritesInv(r)'
    BY <1>1, <2>2, <2>6, <2>8 DEF WritesInv, Writing
  <2>10. QED
    BY <1>2, <2>2, <2>4, <2>5, <2>7, <2>9, OneRequestSteps DEF locks
<1>4. CASE ~Transactional(r)
  <2>1. row' = [row EXCEPT ![t] = new] /\ Answer(r) /\ UNCHANGED writes
    BY <1>1, <1>4 DEF UpsertDevice
  <2>2. StateOK'
    BY <1>2, <2>1, AnswerFields DEF StateOK, locks
  <2>3. DOMAIN writes'[r] = {}
    BY <1>2, <2>1 DEF WritesInv, Writing
  <2>4. QED
    BY <1>2, <2>1, <2>2, <2>3, AnswerFields, AnsweredInv, OneRequestSteps DEF locks
<1>5. QED
  BY <1>3, <1>4

LEMMA FindSupersededStep ==
  ASSUME RegistryInv, NEW r \in Requests, FindSuperseded(r)
  PROVE  RegistryInv'
<1> USE DEF RegistryInv
<1>1. PICK T \in SUBSET Tokens : T = {t \in Tokens : Superseded(r, t)}
  OBVIOUS
<1>2. /\ reg[r].pc = "upserted" /\ UNCHANGED <<row, writes, locks>>
      /\ reg' = [reg EXCEPT ![r].pc = "superseding", ![r].todo = T]
  BY <1>1 DEF FindSuperseded
<1>3. /\ reg' \in [Requests -> Handlers]
      /\ reg'[r].pc = "superseding" /\ reg'[r].in = reg[r].in
      /\ \A s \in Requests : s # r => reg'[s] = reg[s]
  BY <1>2 DEF StateOK, Handlers, PCs
<1>4. StateOK'
  BY <1>2, <1>3 DEF StateOK, locks
<1>5. HandlerInv(r)'
  BY <1>2, <1>3 DEF HandlerInv, InFlight, Writing, Transactional, Key, locks
<1>6. WritesInv(r)'
  BY <1>2, <1>3 DEF WritesInv, Writing
<1>7. QED
  BY <1>2, <1>3, <1>4, <1>5, <1>6, OneRequestSteps DEF locks

\* What one step of the update writes.
StaleWrites(r, t) ==
  [x \in DOMAIN writes[r] \cup {t} |->
     IF x = t THEN [Version(r, t) EXCEPT !.status = "stale"] ELSE writes[r][x]]

LEMMA MarkStaleFields ==
  ASSUME RegistryInv, NEW r \in Requests, NEW t \in Tokens, MarkStale(r, t)
  PROVE  /\ Writing(r) /\ UNCHANGED <<row, locks>>
         /\ reg' \in [Requests -> Handlers]
         /\ reg'[r].pc = "superseding" /\ reg'[r].in = reg[r].in
         /\ reg'[r].todo = reg[r].todo \ {t}
         /\ \A s \in Requests : s # r => reg'[s] = reg[s] /\ writes'[s] = writes[s]
         /\ writes'[r] = IF Superseded(r, t) THEN StaleWrites(r, t) ELSE writes[r]
         /\ writes' = [s \in Requests |-> IF s = r THEN writes'[r] ELSE writes[s]]
<1> USE DEF RegistryInv
<1>1. reg[r].pc = "superseding" /\ UNCHANGED <<row, locks>>
  BY DEF MarkStale
<1>2. /\ reg' \in [Requests -> Handlers]
      /\ reg'[r].pc = "superseding" /\ reg'[r].in = reg[r].in
      /\ reg'[r].todo = reg[r].todo \ {t}
      /\ \A s \in Requests : s # r => reg'[s] = reg[s]
  <2>1. reg' = [reg EXCEPT ![r].todo = reg[r].todo \ {t}]
    BY DEF MarkStale
  <2>2. QED
    BY <1>1, <2>1 DEF StateOK, Handlers
<1>3. writes' = IF Superseded(r, t) THEN [writes EXCEPT ![r] = StaleWrites(r, t)] ELSE writes
  BY DEF MarkStale, StaleWrites
<1>4. QED
  BY <1>1, <1>2, <1>3 DEF StateOK, Writing

LEMMA MarkStaleStep ==
  ASSUME RegistryInv, NEW r \in Requests, NEW t \in Tokens, MarkStale(r, t)
  PROVE  RegistryInv'
<1> USE DEF RegistryInv
<1> DEFINE in == reg[r].in
<1>1. DOMAIN writes[r] \subseteq Tokens /\ writes[r] \in [DOMAIN writes[r] -> Row]
  BY WritesFunctions DEF StateOK
<1>2. PICK v \in Row : v = Version(r, t)
  BY VersionOK
<1>3. PICK stale \in Row :
        /\ stale = [v EXCEPT !.status = "stale"] /\ stale.status = "stale"
        /\ stale.user = v.user /\ stale.uuid = v.uuid
  <2> DEFINE u == [v EXCEPT !.status = "stale"]
  <2>1. u \in Row /\ u.status = "stale" /\ u.user = v.user /\ u.uuid = v.uuid
    BY DEF Row
  <2> HIDE DEF u
  <2>2. \E w \in Row : w = u /\ w.status = "stale" /\ w.user = v.user /\ w.uuid = v.uuid
    BY <2>1
  <2>3. QED
    BY <2>2 DEF u
<1>4. StaleWrites(r, t) = [x \in DOMAIN writes[r] \cup {t} |-> IF x = t THEN stale ELSE writes[r][x]]
  BY <1>2, <1>3 DEF StaleWrites
<1>5. StaleWrites(r, t) \in Writes
  <2> DEFINE w == [x \in DOMAIN writes[r] \cup {t} |-> IF x = t THEN stale ELSE writes[r][x]]
  <2>1. DOMAIN w = DOMAIN writes[r] \cup {t}
    OBVIOUS
  <2>2. DOMAIN w \subseteq Tokens /\ w \in [DOMAIN w -> Row]
    BY <1>1, <2>1
  <2>3. QED
    BY <1>4, <2>2, WritesFunctions
<1>6. writes'[r] \in Writes
  BY <1>5, MarkStaleFields DEF StateOK
<1>7. writes' \in [Requests -> Writes]
  BY <1>6, MarkStaleFields DEF StateOK
<1>8. StateOK'
  BY <1>7, MarkStaleFields DEF StateOK, locks
<1>9. Writing(r) /\ Writing(r)'
  BY MarkStaleFields DEF Writing
<1>10. HandlerInv(r)'
  BY <1>9, MarkStaleFields DEF HandlerInv, InFlight, Writing, Transactional, Key, locks
<1>11. WritesInv(r)'
  <2>1. CASE ~Superseded(r, t)
    <3>1. writes'[r] = writes[r] /\ reg'[r].in = reg[r].in
      BY <2>1, MarkStaleFields
    <3>2. QED
      BY <1>9, <3>1 DEF WritesInv
  <2>2. CASE Superseded(r, t)
    <3>1. writes'[r] = [x \in DOMAIN writes[r] \cup {t} |-> IF x = t THEN stale ELSE writes[r][x]]
      BY <1>4, <2>2, MarkStaleFields
    <3>2. Version(r, in.token) = writes[r][in.token] /\ writes[r][in.token].user = in.user
      BY <1>9 DEF WritesInv, Version
    <3>3. t # in.token /\ v.user = in.user /\ v.uuid = in.uuid
      BY <1>2, <2>2, <3>2 DEF Superseded
    <3>4. reg'[r].in = in
      BY MarkStaleFields
    <3>5. QED
      BY <1>3, <1>9, <3>1, <3>3, <3>4 DEF WritesInv
  <2>3. QED
    BY <2>1, <2>2
<1>12. QED
  BY <1>8, <1>10, <1>11, MarkStaleFields, OneRequestSteps DEF locks

\* The end of a transaction gives back its own locks and no one else's.
LEMMA TransactionEnds ==
  ASSUME RegistryInv, NEW r \in Requests, Release(r), Answer(r), row' \in [Tokens -> Row]
  PROVE  RegistryInv'
<1> USE DEF RegistryInv
<1>1. /\ writes' \in [Requests -> Writes] /\ DOMAIN writes'[r] = {}
      /\ \A s \in Requests : s # r => writes'[s] = writes[s]
  BY NoWritesOK DEF Release, StateOK
<1>2. /\ advisory' \in [Users \X UUIDs -> Requests \cup {NoOne}]
      /\ \A s \in Requests, key \in Users \X UUIDs :
           s # r /\ advisory[key] = s => advisory'[key] = s
  BY DEF Release, StateOK
<1>3. subLock' \in [Users -> Requests \cup {NoOne}]
  BY DEF Release, StateOK
<1>4. StateOK'
  BY <1>1, <1>2, <1>3, AnswerFields DEF StateOK
<1>5. QED
  BY <1>1, <1>2, <1>4, AnswerFields, AnsweredInv, OneRequestSteps

LEMMA CommitStep ==
  ASSUME RegistryInv, NEW r \in Requests, Commit(r)
  PROVE  RegistryInv'
<1>1. row' \in [Tokens -> Row]
  BY VersionOK DEF Commit, RegistryInv
<1>2. QED
  BY <1>1, TransactionEnds DEF Commit

LEMMA RollbackStep ==
  ASSUME RegistryInv, NEW r \in Requests, Rollback(r)
  PROVE  RegistryInv'
<1>1. row' \in [Tokens -> Row]
  BY DEF Rollback, RegistryInv, StateOK
<1>2. QED
  BY <1>1, TransactionEnds DEF Rollback

LEMMA MarkInvalidStep ==
  ASSUME RegistryInv, NEW t \in Tokens, MarkInvalid(t)
  PROVE  RegistryInv'
<1>1. row' = [row EXCEPT ![t].status = "invalid"] /\ UNCHANGED <<reg, writes, locks>>
  BY DEF MarkInvalid
<1>2. row' \in [Tokens -> Row]
  BY <1>1 DEF RegistryInv, StateOK, Row
<1>3. QED
  BY <1>1, <1>2 DEF RegistryInv, StateOK, HandlerInv, WritesInv, InFlight, Writing,
                    Transactional, Key, locks

LEMMA NextInv ==
  ASSUME RegistryInv, [Next]_vars
  PROVE  RegistryInv'
<1>1. ASSUME NEW r \in Requests, NEW in \in Inputs, Receive(r, in)
      PROVE  RegistryInv'
  BY <1>1, ReceiveStep
<1>2. ASSUME NEW r \in Requests, Step(r)
      PROVE  RegistryInv'
  <2>1. CASE AdvisoryLock(r)
    BY <2>1, AdvisoryLockStep
  <2>2. CASE UpsertSubscriber(r)
    BY <2>2, UpsertSubscriberStep
  <2>3. CASE UpsertDevice(r)
    BY <2>3, UpsertDeviceStep
  <2>4. CASE FindSuperseded(r)
    BY <2>4, FindSupersededStep
  <2>5. CASE \E t \in Tokens : MarkStale(r, t)
    BY <2>5, MarkStaleStep
  <2>6. CASE Commit(r)
    BY <2>6, CommitStep
  <2>7. CASE DeadlockAborts(r)
    BY <2>7, RollbackStep DEF DeadlockAborts
  <2>8. QED
    BY <1>2, <2>1, <2>2, <2>3, <2>4, <2>5, <2>6, <2>7 DEF Step
<1>3. ASSUME NEW r \in Requests, StatementFails(r)
      PROVE  RegistryInv'
  BY <1>3, RollbackStep DEF StatementFails
<1>4. ASSUME NEW t \in Tokens, MarkInvalid(t)
      PROVE  RegistryInv'
  BY <1>4, MarkInvalidStep
<1>5. CASE UNCHANGED vars
  BY <1>5 DEF vars, RegistryInv, StateOK, HandlerInv, WritesInv, InFlight, Writing,
              Transactional, Key
<1>6. QED
  BY <1>1, <1>2, <1>3, <1>4, <1>5 DEF Next

(***************************************************************************)
(* What a commit publishes                                                 *)
(***************************************************************************)
\* The registered row, active; the rows it supersedes, stale; the others as they were.
LEMMA Published ==
  ASSUME RegistryInv, NEW r \in Requests, Commit(r)
  PROVE  /\ Transactional(r) /\ Writing(r) /\ reg[r].todo = {}
         /\ reg[r].pc = "superseding" /\ reg[r].in.token \in Tokens
         /\ reg[r].in.token \in DOMAIN writes[r]
         /\ row'[reg[r].in.token].status = "active"
         /\ \A t \in Tokens : row'[t] = Version(r, t)
         /\ \A t \in Tokens :
              \/ t \notin DOMAIN writes[r] /\ row'[t] = row[t]
              \/ /\ t \in DOMAIN writes[r] /\ row'[t] = writes[r][t]
                 /\ row'[t].user = reg[r].in.user /\ row'[t].uuid = reg[r].in.uuid
                 /\ t # reg[r].in.token => row'[t].status = "stale"
<1> USE DEF RegistryInv
<1>1. /\ reg[r].pc = "superseding" /\ reg[r].todo = {}
      /\ row' = [t \in Tokens |-> Version(r, t)]
  BY DEF Commit
<1>2. Writing(r) /\ Transactional(r) /\ reg[r].in \in Inputs
  BY <1>1 DEF Writing, HandlerInv, InFlight
<1>3. reg[r].in.token \in Tokens
  BY <1>2, InputFields
<1>4. /\ reg[r].in.token \in DOMAIN writes[r]
      /\ writes[r][reg[r].in.token].status = "active"
      /\ \A t \in DOMAIN writes[r] :
           /\ writes[r][t].user = reg[r].in.user /\ writes[r][t].uuid = reg[r].in.uuid
           /\ t # reg[r].in.token => writes[r][t].status = "stale"
  BY <1>2 DEF WritesInv
<1>5. \A t \in Tokens :
        row'[t] = IF t \in DOMAIN writes[r] THEN writes[r][t] ELSE row[t]
  BY <1>1 DEF Version
<1>6. QED
  BY <1>1, <1>2, <1>3, <1>4, <1>5

(***************************************************************************)
(* One active row for a physical device.  A row of a physical device can   *)
(* only become active under its advisory lock, unless a registration names *)
(* a device_uuid and no external_user_id.                                  *)
(***************************************************************************)
Attributed == \A in \in Inputs : in.user # NoUser \/ in.uuid = NoUUID

ActiveRow(v, user, uuid) == v.status = "active" /\ v.user = user /\ v.uuid = uuid

\* The rows a search has found, or has still to mark, are all there are.
SupersedeInv(r) ==
  reg[r].pc = "superseding" =>
    \A t \in Tokens :
      t # reg[r].in.token /\ ActiveRow(Version(r, t), reg[r].in.user, reg[r].in.uuid) =>
        t \in reg[r].todo

PhysicalInv == OneActivePerPhysicalDevice /\ \A r \in Requests : SupersedeInv(r)

\* A row that becomes an active row of some physical device, or becomes active with a
\* device_uuid at all, is the row a transaction registered for it.
LEMMA BecomesActive ==
  ASSUME RegistryInv, Attributed, [Next]_vars, NEW t \in Tokens,
         row'[t].status = "active", row'[t].uuid # NoUUID, row'[t] # row[t]
  PROVE  \E r \in Requests : /\ Commit(r) /\ t = reg[r].in.token
                             /\ row'[t].user = reg[r].in.user /\ row'[t].uuid = reg[r].in.uuid
<1> USE DEF RegistryInv
<1>1. \/ \E r \in Requests : Commit(r) \/ UpsertDevice(r)
      \/ \E u \in Tokens : MarkInvalid(u)
  BY DEF Next, Step, vars, Receive, AdvisoryLock, UpsertSubscriber, FindSuperseded, MarkStale,
         DeadlockAborts, StatementFails, Rollback
<1>2. ASSUME NEW r \in Requests, Commit(r)
      PROVE  /\ t = reg[r].in.token
             /\ row'[t].user = reg[r].in.user /\ row'[t].uuid = reg[r].in.uuid
  BY <1>2, Published
<1>3. ASSUME NEW r \in Requests, UpsertDevice(r)
      PROVE  FALSE
  <2>1. reg[r].in \in Inputs /\ reg[r].pc = "subscribed"
    BY <1>3 DEF UpsertDevice, HandlerInv, InFlight
  <2>2. ~Transactional(r) /\ row' = [row EXCEPT ![reg[r].in.token] = Upsert(row[reg[r].in.token], reg[r].in)]
    BY <1>3 DEF UpsertDevice
  <2>3. reg[r].in.uuid = NoUUID
    BY <2>1, <2>2 DEF Attributed, Transactional
  <2>4. t = reg[r].in.token /\ row'[t] = Upsert(row[t], reg[r].in)
    BY <2>2 DEF StateOK
  <2>5. row'[t].uuid = NoUUID
    BY <2>3, <2>4 DEF Upsert
  <2>6. QED
    BY <2>5
<1>4. ASSUME NEW u \in Tokens, MarkInvalid(u)
      PROVE  FALSE
  <2>1. row' = [row EXCEPT ![u].status = "invalid"]
    BY <1>4 DEF MarkInvalid
  <2>2. QED
    BY <2>1 DEF StateOK, Row
<1>5. QED
  BY <1>1, <1>2, <1>3, <1>4

\* The advisory lock: two transactions past their first statement never work on
\* one physical device.
LEMMA OneTransactionPerDevice ==
  ASSUME RegistryInv, NEW r \in Requests, NEW s \in Requests, Writing(r), Writing(s),
         reg[r].in.user = reg[s].in.user, reg[r].in.uuid = reg[s].in.uuid
  PROVE  r = s
<1>1. advisory[Key(r)] = r /\ advisory[Key(s)] = s
  BY DEF RegistryInv, HandlerInv, InFlight, Writing
<1>2. Key(r) = Key(s)
  BY DEF Key
<1>3. QED
  BY <1>1, <1>2

\* What another step changes of the versions a transaction sees is no active row of
\* its physical device.
LEMMA SearchStaysComplete ==
  ASSUME RegistryInv, Attributed, [Next]_vars, NEW r \in Requests, SupersedeInv(r),
         reg'[r] = reg[r], writes'[r] = writes[r]
  PROVE  SupersedeInv(r)'
<1> USE DEF RegistryInv
<1>1. SUFFICES ASSUME reg[r].pc = "superseding", NEW t \in Tokens, t # reg[r].in.token,
                      ActiveRow(Version(r, t)', reg[r].in.user, reg[r].in.uuid)
               PROVE  t \in reg[r].todo
  BY DEF SupersedeInv
<1>2. Transactional(r) /\ Writing(r)
  BY <1>1 DEF HandlerInv, Writing
<1>3. CASE Version(r, t)' = Version(r, t)
  BY <1>1, <1>3 DEF SupersedeInv
<1>4. CASE Version(r, t)' # Version(r, t)
  <2>1. t \notin DOMAIN writes[r] /\ Version(r, t)' = row'[t] /\ row'[t] # row[t]
    BY <1>4 DEF Version
  <2>2. /\ row'[t].status = "active" /\ row'[t].uuid # NoUUID
        /\ row'[t].user = reg[r].in.user /\ row'[t].uuid = reg[r].in.uuid
    BY <1>1, <1>2, <2>1 DEF ActiveRow, Transactional
  <2>3. PICK s \in Requests : /\ Commit(s) /\ row'[t].user = reg[s].in.user
                              /\ row'[t].uuid = reg[s].in.uuid
    BY <2>1, <2>2, BecomesActive
  <2>4. Writing(s)
    BY <2>3, Published
  <2>5. r = s
    BY <1>2, <2>2, <2>3, <2>4, OneTransactionPerDevice
  <2>6. reg'[r].pc = "idle"
    BY <2>3, <2>5, AnswerFields DEF Commit
  <2>7. QED
    BY <1>1, <2>6
<1>5. QED
  BY <1>3, <1>4

\* The where clause, for a handler that wrote its own row.
LEMMA SupersededMeans ==
  ASSUME RegistryInv, NEW r \in Requests, Writing(r), NEW t \in Tokens
  PROVE  Superseded(r, t) <=>
           /\ t # reg[r].in.token
           /\ ActiveRow(Version(r, t), reg[r].in.user, reg[r].in.uuid)
<1>1. /\ Version(r, reg[r].in.token) = writes[r][reg[r].in.token]
      /\ writes[r][reg[r].in.token].user = reg[r].in.user
  BY DEF RegistryInv, WritesInv, Version
<1>2. QED
  BY <1>1 DEF Superseded, ActiveRow

LEMMA FindSupersededComplete ==
  ASSUME RegistryInv, NEW r \in Requests, FindSuperseded(r)
  PROVE  SupersedeInv(r)'
<1>1. /\ reg[r].pc = "upserted" /\ UNCHANGED <<row, writes>>
      /\ reg'[r].in = reg[r].in /\ reg'[r].todo = {t \in Tokens : Superseded(r, t)}
  BY DEF FindSuperseded, RegistryInv, StateOK, Handlers
<1>2. \A t \in Tokens : Version(r, t)' = Version(r, t)
  BY <1>1 DEF Version
<1>3. Writing(r)
  BY <1>1 DEF Writing
<1>4. QED
  BY <1>1, <1>2, <1>3, SupersededMeans DEF SupersedeInv

LEMMA MarkStaleComplete ==
  ASSUME RegistryInv, NEW r \in Requests, SupersedeInv(r), NEW t \in Tokens, MarkStale(r, t)
  PROVE  SupersedeInv(r)'
<1>1. SUFFICES ASSUME NEW u \in Tokens, u # reg[r].in.token,
                      ActiveRow(Version(r, u)', reg[r].in.user, reg[r].in.uuid)
               PROVE  u \in reg[r].todo \ {t}
  BY MarkStaleFields DEF SupersedeInv
<1>2. Writing(r) /\ reg[r].pc = "superseding" /\ UNCHANGED row
  BY MarkStaleFields DEF MarkStale
<1>3. CASE ~Superseded(r, t)
  <2>1. writes'[r] = writes[r]
    BY <1>3, MarkStaleFields
  <2>2. Version(r, u)' = Version(r, u)
    BY <1>2, <2>1 DEF Version
  <2>3. u # t
    BY <1>1, <1>2, <1>3, <2>2, SupersededMeans
  <2>4. QED
    BY <1>1, <1>2, <2>2, <2>3 DEF SupersedeInv
<1>4. CASE Superseded(r, t)
  <2>1. writes'[r] = StaleWrites(r, t)
    BY <1>4, MarkStaleFields
  <2>2. PICK stale : stale = [Version(r, t) EXCEPT !.status = "stale"] /\ stale.status = "stale"
    <3>1. [Version(r, t) EXCEPT !.status = "stale"].status = "stale"
      BY VersionOK DEF RegistryInv, Row
    <3>2. QED
      BY <3>1
  <2>3. writes'[r] = [x \in DOMAIN writes[r] \cup {t} |-> IF x = t THEN stale ELSE writes[r][x]]
    BY <2>1, <2>2 DEF StaleWrites
  <2>4. u # t
    <3>1. u = t => Version(r, u)' = stale
      BY <2>3 DEF Version
    <3>2. QED
      BY <1>1, <2>2, <3>1 DEF ActiveRow
  <2>5. Version(r, u)' = Version(r, u)
    BY <1>2, <2>3, <2>4 DEF Version
  <2>6. QED
    BY <1>1, <1>2, <2>4, <2>5 DEF SupersedeInv
<1>5. QED
  BY <1>3, <1>4

\* Whatever a step does to a handler, its search stays complete.
LEMMA SupersedeStep ==
  ASSUME RegistryInv, Attributed, [Next]_vars, NEW r \in Requests, SupersedeInv(r)
  PROVE  SupersedeInv(r)'
<1> USE DEF RegistryInv
<1>1. CASE reg'[r].pc # "superseding"
  BY <1>1 DEF SupersedeInv
<1>2. CASE reg'[r] = reg[r] /\ writes'[r] = writes[r]
  BY <1>2, SearchStaysComplete
<1>3. CASE FindSuperseded(r)
  BY <1>3, FindSupersededComplete
<1>4. CASE \E t \in Tokens : MarkStale(r, t)
  BY <1>4, MarkStaleComplete
<1>5. ASSUME NEW s \in Requests, s # r,
             \/ \E in \in Inputs : Receive(s, in)
             \/ Step(s)
             \/ StatementFails(s)
      PROVE  reg'[r] = reg[r] /\ writes'[r] = writes[r]
  <2>1. reg'[r] = reg[r]
    BY <1>5 DEF Step, Receive, AdvisoryLock, UpsertSubscriber, UpsertDevice, FindSuperseded,
                MarkStale, Commit, DeadlockAborts, StatementFails, Rollback, Answer, Goes, StateOK
  <2>2. writes'[r] = writes[r]
    BY <1>5 DEF Step, Receive, AdvisoryLock, UpsertSubscriber, UpsertDevice, FindSuperseded,
                MarkStale, Commit, DeadlockAborts, StatementFails, Rollback, Release, StateOK
  <2>3. QED
    BY <2>1, <2>2
<1>6. ASSUME \/ \E in \in Inputs : Receive(r, in)
             \/ AdvisoryLock(r) \/ UpsertSubscriber(r) \/ UpsertDevice(r) \/ Commit(r)
             \/ DeadlockAborts(r) \/ StatementFails(r)
      PROVE  reg'[r].pc # "superseding"
  <2>1. Answer(r) => reg'[r].pc # "superseding"
    BY AnswerFields
  <2>2. \A pc \in PCs \ {"superseding"} : Goes(r, pc) => reg'[r].pc # "superseding"
    BY GoesFields
  <2>3. (\E in \in Inputs : Receive(r, in)) => reg'[r].pc # "superseding"
    BY DEF Receive, StateOK
  <2>4. QED
    BY <1>6, <2>1, <2>2, <2>3 DEF AdvisoryLock, UpsertSubscriber, UpsertDevice, Commit,
                                  DeadlockAborts, StatementFails, Rollback, PCs
<1>7. ASSUME NEW t \in Tokens, MarkInvalid(t)
      PROVE  reg'[r] = reg[r] /\ writes'[r] = writes[r]
  BY <1>7 DEF MarkInvalid
<1>8. CASE UNCHANGED vars
  BY <1>2, <1>8 DEF vars
<1>9. QED
  BY <1>1, <1>2, <1>3, <1>4, <1>5, <1>6, <1>7, <1>8 DEF Next, Step

LEMMA OneActiveStep ==
  ASSUME RegistryInv, PhysicalInv, Attributed, [Next]_vars
  PROVE  OneActivePerPhysicalDevice'
<1>1. ASSUME NEW t \in Tokens, NEW u \in Tokens, t # u, row'[t] # row[t],
             row'[t].status = "active", row'[u].status = "active",
             SamePhysicalDevice(row'[t], row'[u])
      PROVE  FALSE
  <2>1. PICK r \in Requests : /\ Commit(r) /\ t = reg[r].in.token
                              /\ row'[t].user = reg[r].in.user /\ row'[t].uuid = reg[r].in.uuid
    BY <1>1, BecomesActive DEF SamePhysicalDevice
  <2>2. row'[u].user = reg[r].in.user /\ row'[u].uuid = reg[r].in.uuid
    BY <1>1, <2>1 DEF SamePhysicalDevice
  <2>3. ActiveRow(Version(r, u), reg[r].in.user, reg[r].in.uuid)
    BY <1>1, <2>1, <2>2, Published DEF ActiveRow
  <2>4. u \in reg[r].todo
    BY <1>1, <2>1, <2>3, Published DEF PhysicalInv, SupersedeInv
  <2>5. QED
    BY <2>1, <2>4, Published
<1>2. ASSUME NEW t \in Tokens, NEW u \in Tokens, t # u, row'[t] = row[t], row'[u] = row[u],
             row'[t].status = "active", row'[u].status = "active",
             SamePhysicalDevice(row'[t], row'[u])
      PROVE  FALSE
  BY <1>2 DEF PhysicalInv, OneActivePerPhysicalDevice
<1>3. \A v, w : SamePhysicalDevice(v, w) <=> SamePhysicalDevice(w, v)
  BY DEF SamePhysicalDevice
<1>4. QED
  BY <1>1, <1>2, <1>3 DEF OneActivePerPhysicalDevice

(***************************************************************************)
(* The theorems                                                            *)
(***************************************************************************)
\* Rows, handlers, uncommitted writes and locks keep their types, and nothing
\* uncommitted outlives its handler, however registrations overlap, fail and are
\* rolled back.
THEOREM RegistryTypeCorrect == Spec => []TypeOK
<1>1. RegistryInv => TypeOK
  <2> SUFFICES ASSUME RegistryInv
               PROVE  TypeOK
    OBVIOUS
  <2>1. ASSUME NEW r \in Requests
        PROVE  \E T \in SUBSET Tokens : writes[r] \in [T -> Row]
    BY DEF RegistryInv, StateOK, Writes
  <2>2. ASSUME NEW r \in Requests
        PROVE  InFlight(r) \/ DOMAIN writes[r] = {}
    BY DEF RegistryInv, WritesInv, Writing, InFlight
  <2>3. QED
    BY <2>1, <2>2 DEF TypeOK, RegistryInv, StateOK, Handlers
<1>2. QED
  BY <1>1, InitInv, NextInv, PTL DEF Spec

\* registerDeviceSerialized: of the rows one subscriber has for one physical device at
\* most one is active, provided no registration names a device_uuid without an
\* external_user_id.
THEOREM OneActivePerPhysicalDeviceAlways ==
  ASSUME Attributed
  PROVE  Spec => []OneActivePerPhysicalDevice
<1>1. Init => PhysicalInv
  BY DEF Init, PhysicalInv, OneActivePerPhysicalDevice, SupersedeInv, NoRow, Idle
<1>2. RegistryInv /\ PhysicalInv /\ [Next]_vars => PhysicalInv'
  BY OneActiveStep, SupersedeStep DEF PhysicalInv
<1>3. PhysicalInv => OneActivePerPhysicalDevice
  BY DEF PhysicalInv
<1>4. QED
  BY <1>1, <1>2, <1>3, InitInv, NextInv, PTL DEF Spec

\* MarkStaleDevicesByDeviceUUID: a row becomes stale only in favour of another active
\* row of the same physical device, whatever the registrations name.
THEOREM StaleOnlyWithSuccessorAlways == Spec => StaleOnlyWithSuccessor
<1> DEFINE Succeeded ==
      \A t \in Tokens :
        row[t].status = "active" /\ row'[t].status = "stale" =>
          \E u \in Tokens : /\ u # t /\ row'[u].status = "active"
                            /\ SamePhysicalDevice(row'[u], row'[t])
<1>1. RegistryInv /\ [Next]_vars => [Succeeded]_vars
  <2> SUFFICES ASSUME RegistryInv, Next, NEW t \in Tokens,
                      row[t].status = "active", row'[t].status = "stale"
               PROVE  \E u \in Tokens : /\ u # t /\ row'[u].status = "active"
                                        /\ SamePhysicalDevice(row'[u], row'[t])
    OBVIOUS
  <2>1. \/ \E r \in Requests : Commit(r) \/ UpsertDevice(r)
        \/ \E u \in Tokens : MarkInvalid(u)
    BY DEF Next, Step, Receive, AdvisoryLock, UpsertSubscriber, FindSuperseded, MarkStale,
           DeadlockAborts, StatementFails, Rollback
  <2>2. ASSUME NEW r \in Requests, UpsertDevice(r)
        PROVE  FALSE
    <3>1. row' = [row EXCEPT ![reg[r].in.token] = Upsert(row[reg[r].in.token], reg[r].in)]
      BY <2>2 DEF UpsertDevice
    <3>2. row'[t] = row[t] \/ row'[t].status = "active"
      BY <3>1 DEF RegistryInv, StateOK, Upsert
    <3>3. QED
      BY <3>2
  <2>3. ASSUME NEW u \in Tokens, MarkInvalid(u)
        PROVE  FALSE
    BY <2>3 DEF MarkInvalid, RegistryInv, StateOK, Row
  <2>4. ASSUME NEW r \in Requests, Commit(r)
        PROVE  \E u \in Tokens : /\ u # t /\ row'[u].status = "active"
                                 /\ SamePhysicalDevice(row'[u], row'[t])
    <3>1. PICK u \in Tokens : u = reg[r].in.token
      BY <2>4, Published
    <3>2. row'[u].status = "active" /\ u # t
      BY <2>4, <3>1, Published
    <3>3. t \in DOMAIN writes[r]
      BY <2>4, Published
    <3>4. SamePhysicalDevice(row'[u], row'[t])
      BY <2>4, <3>1, <3>3, Published DEF SamePhysicalDevice, Transactional
    <3>5. QED
      BY <3>2, <3>4
  <2>5. QED
    BY <2>1, <2>2, <2>3, <2>4
<1>2. QED
  BY <1>1, InitInv, NextInv, PTL DEF Spec, StaleOnlyWithSuccessor
=============================================================================
