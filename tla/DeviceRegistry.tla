--------------------------- MODULE DeviceRegistry ---------------------------
(***************************************************************************)
(* POST /api/v1/devices: handleRegisterDevice of internal/transport/http,  *)
(* over the devices and subscribers rows, and the worker's verdict that a  *)
(* token is invalid.                                                       *)
(*                                                                         *)
(* A registration that names an external_user_id and a device_uuid runs in *)
(* one READ COMMITTED transaction under an advisory lock; every other one  *)
(* is a sequence of statements that commit one by one.  A transaction's    *)
(* writes stay private until it commits and lock the rows they touch; a    *)
(* statement that meets a locked row waits, then looks at the row again.   *)
(* Postgres breaks a cycle of waiting transactions by aborting one.        *)
(*                                                                         *)
(* Left out: platform, provider_type and the other metadata, validation    *)
(* (422 before any state is touched), projects (one project) and           *)
(* collisions of the 64 bit hash of the lock key.                          *)
(***************************************************************************)
CONSTANTS
  Requests,        \* handlers that run at the same time, one registration after another
  Tokens,          \* push tokens; (project_id, token) identifies a device row
  Users, NoUser,   \* external user ids, and none
  UUIDs, NoUUID,   \* device uuids, and none
  NoOne,           \* no request
  Inputs           \* the [token, user, uuid] a request can carry

ASSUME RegistryAssumption ==
  /\ NoUser \notin Users
  /\ NoUUID \notin UUIDs
  /\ NoOne \notin Requests
  /\ Inputs \subseteq [token : Tokens, user : Users \cup {NoUser}, uuid : UUIDs \cup {NoUUID}]

VARIABLES
  row,       \* devices rows as committed, by token: status, subscriber_id, device_uuid
  reg,       \* the handler of each request: pc, its input, the rows left to supersede
  writes,    \* the uncommitted row versions of each request's transaction
  advisory,  \* holder of the advisory lock of (user, uuid)
  subLock    \* holder of the lock on a subscriber's row

locks == <<advisory, subLock>>
vars == <<row, reg, writes, advisory, subLock>>

Row == [status : {"absent", "active", "stale", "invalid"},
        user : Users \cup {NoUser}, uuid : UUIDs \cup {NoUUID}]
NoRow == [status |-> "absent", user |-> NoUser, uuid |-> NoUUID]
NoWrites == [t \in {} |-> NoRow]
NoInput == [token |-> NoOne, user |-> NoUser, uuid |-> NoUUID]
Idle == [pc |-> "idle", in |-> NoInput, todo |-> {}]

Transactional(r) == reg[r].in.user # NoUser /\ reg[r].in.uuid # NoUUID

(***************************************************************************)
(* Locks.  A row is locked by the transaction that wrote it.               *)
(***************************************************************************)
RowHolder(t) == {s \in Requests : t \in DOMAIN writes[s]}
RowFree(r, t) == RowHolder(t) \subseteq {r}
SubFree(r, u) == subLock[u] \in {NoOne, r}

(***************************************************************************)
(* The statements                                                          *)
(***************************************************************************)
Upsert_keepsUser(old, in) ==
  [status |-> "active",
   user   |-> IF old.user = NoUser THEN in.user ELSE old.user,
   uuid   |-> in.uuid]
\* insert ... on conflict (project_id, token) do update: the row becomes active
\* and keeps its subscriber when the registration names none.
Upsert(old, in) ==
  [status |-> "active",
   user   |-> IF in.user = NoUser THEN old.user ELSE in.user,
   uuid   |-> in.uuid]

\* A transaction sees its own versions, and else what is committed.
Version(r, t) == IF t \in DOMAIN writes[r] THEN writes[r][t] ELSE row[t]

Superseded_self(r, t) ==
  LET device == Version(r, reg[r].in.token)
  IN /\ Version(r, t).status = "active"
     /\ Version(r, t).user = device.user
     /\ Version(r, t).uuid = reg[r].in.uuid
\* The where clause of MarkStaleDevicesByDeviceUUID: the other active rows of
\* the registered row's subscriber with the request's device_uuid.
Superseded(r, t) ==
  LET device == Version(r, reg[r].in.token)
  IN /\ t # reg[r].in.token
     /\ Version(r, t).status = "active"
     /\ Version(r, t).user = device.user
     /\ Version(r, t).uuid = reg[r].in.uuid

(***************************************************************************)
(* handleRegisterDevice                                                    *)
(***************************************************************************)
InFlight(r) == reg[r].pc # "idle"

Goes(r, pc) == reg' = [reg EXCEPT ![r].pc = pc]

\* The client is answered, with 200 or 500.
Answer(r) == reg' = [reg EXCEPT ![r] = Idle]

Receive(r, in) ==
  /\ ~InFlight(r)
  /\ reg' = [reg EXCEPT ![r] = [pc |-> IF in.user # NoUser /\ in.uuid # NoUUID
                                       THEN "begun"
                                       ELSE IF in.user # NoUser THEN "locked" ELSE "subscribed",
                                in |-> in, todo |-> {}]]
  /\ UNCHANGED <<row, writes, locks>>

\* pg_advisory_xact_lock on (project, external_user_id, device_uuid).
AdvisoryLock(r) ==
  LET key == <<reg[r].in.user, reg[r].in.uuid>>
  IN /\ reg[r].pc = "begun"
     /\ advisory[key] = NoOne
     /\ advisory' = [advisory EXCEPT ![key] = r]
     /\ Goes(r, "locked")
     /\ UNCHANGED <<row, writes, subLock>>

\* UpsertSubscriber: in a transaction the row stays locked until it ends.
UpsertSubscriber(r) ==
  /\ reg[r].pc = "locked"
  /\ SubFree(r, reg[r].in.user)
  /\ subLock' = IF Transactional(r) THEN [subLock EXCEPT ![reg[r].in.user] = r] ELSE subLock
  /\ Goes(r, "subscribed")
  /\ UNCHANGED <<row, writes, advisory>>

UpsertDevice(r) ==
  LET t == reg[r].in.token
      new == Upsert(row[t], reg[r].in)
  IN /\ reg[r].pc = "subscribed"
     /\ RowFree(r, t)
     /\ IF Transactional(r)
        THEN /\ writes' = [writes EXCEPT ![r] = [x \in {t} |-> new]]
             /\ Goes(r, "upserted")
             /\ UNCHANGED row
        ELSE /\ row' = [row EXCEPT ![t] = new]
             /\ Answer(r)
             /\ UNCHANGED writes
     /\ UNCHANGED <<locks>>

\* MarkStaleDevicesByDeviceUUID takes its snapshot and finds the rows to update.
FindSuperseded(r) ==
  /\ reg[r].pc = "upserted"
  /\ reg' = [reg EXCEPT ![r].pc = "superseding",
                        ![r].todo = {t \in Tokens : Superseded(r, t)}]
  /\ UNCHANGED <<row, writes, locks>>

\* It updates them one by one, waiting for a locked row and then checking the
\* where clause again on the version it finds.
MarkStale(r, t) ==
  LET stale == [Version(r, t) EXCEPT !.status = "stale"]
  IN /\ reg[r].pc = "superseding"
     /\ t \in reg[r].todo
     /\ RowFree(r, t)
     /\ writes' = IF Superseded(r, t)
                  THEN [writes EXCEPT ![r] = [x \in DOMAIN writes[r] \cup {t} |->
                                                IF x = t THEN stale ELSE writes[r][x]]]
                  ELSE writes
     /\ reg' = [reg EXCEPT ![r].todo = @ \ {t}]
     /\ UNCHANGED <<row, locks>>

\* The end of a transaction: its locks are released, with the advisory one.
Release_sessionLock(r) ==
  /\ writes' = [writes EXCEPT ![r] = NoWrites]
  /\ subLock' = [u \in Users |-> IF subLock[u] = r THEN NoOne ELSE subLock[u]]
  /\ UNCHANGED advisory
Release(r) ==
  /\ writes' = [writes EXCEPT ![r] = NoWrites]
  /\ subLock' = [u \in Users |-> IF subLock[u] = r THEN NoOne ELSE subLock[u]]
  /\ advisory' = [key \in Users \X UUIDs |-> IF advisory[key] = r THEN NoOne ELSE advisory[key]]

\* The rows are written; a client whose commit's reply was lost sees a 500.
Commit(r) ==
  /\ reg[r].pc = "superseding"
  /\ reg[r].todo = {}
  /\ row' = [t \in Tokens |-> Version(r, t)]
  /\ Release(r)
  /\ Answer(r)

Rollback(r) ==
  /\ Release(r)
  /\ Answer(r)
  /\ UNCHANGED row

StatementFails_noRollback(r) ==
  /\ InFlight(r)
  /\ Answer(r)
  /\ UNCHANGED <<row, writes, locks>>
\* A statement fails, or the process dies: the transaction is rolled back.
StatementFails(r) ==
  /\ InFlight(r)
  /\ Rollback(r)

(***************************************************************************)
(* Waiting and Postgres's deadlock detector                                *)
(***************************************************************************)
\* The transaction r's next statement waits for.
WaitsFor(r) ==
  CASE reg[r].pc = "begun" ->
         {s \in Requests : advisory[<<reg[r].in.user, reg[r].in.uuid>>] = s}
    [] reg[r].pc = "locked" -> {s \in Requests : subLock[reg[r].in.user] = s} \ {r}
    [] reg[r].pc = "subscribed" -> RowHolder(reg[r].in.token) \ {r}
    [] reg[r].pc = "superseding" -> UNION {RowHolder(t) : t \in reg[r].todo} \ {r}
    [] OTHER -> {}

\* Every transaction of the set waits for a row another one of the set holds.
\* (A transaction supersedes its rows in an order of its own choice, so it is
\* stuck once every row it has left is locked.)
Stuck(r) ==
  /\ WaitsFor(r) # {}
  /\ reg[r].pc = "superseding" => \A t \in reg[r].todo : ~RowFree(r, t)
InCycle(r) ==
  \E S \in SUBSET Requests :
    /\ r \in S
    /\ \A s \in S : Stuck(s) /\ WaitsFor(s) \cap S # {}
    /\ \A s \in S : \E w \in S : s \in WaitsFor(w)

DeadlockAborts(r) ==
  /\ InCycle(r)
  /\ Rollback(r)

(***************************************************************************)
(* The worker: MarkDeviceStatus after the provider called a token invalid. *)
(***************************************************************************)
MarkInvalid(t) ==
  /\ row[t].status # "absent"
  /\ RowHolder(t) = {}
  /\ row' = [row EXCEPT ![t].status = "invalid"]
  /\ UNCHANGED <<reg, writes, locks>>

(***************************************************************************)
(* The system                                                              *)
(***************************************************************************)
Init ==
  /\ row = [t \in Tokens |-> NoRow]
  /\ reg = [r \in Requests |-> Idle]
  /\ writes = [r \in Requests |-> NoWrites]
  /\ advisory = [key \in Users \X UUIDs |-> NoOne]
  /\ subLock = [u \in Users |-> NoOne]

Step(r) ==
  \/ AdvisoryLock(r)
  \/ UpsertSubscriber(r)
  \/ UpsertDevice(r)
  \/ FindSuperseded(r)
  \/ \E t \in Tokens : MarkStale(r, t)
  \/ Commit(r)
  \/ DeadlockAborts(r)

Next ==
  \/ \E r \in Requests : \/ \E in \in Inputs : Receive(r, in)
                         \/ Step(r)
                         \/ StatementFails(r)
  \/ \E t \in Tokens : MarkInvalid(t)

Spec == Init /\ [][Next]_vars

\* A handler runs on, a deadlock is detected, and Postgres serves those who wait
\* for a lock in turn: a step that is possible again and again is taken.
Fairness == \A r \in Requests : SF_vars(Step(r))

FairSpec == Spec /\ Fairness

(***************************************************************************)
(* Properties                                                              *)
(***************************************************************************)
PCs == {"idle", "begun", "locked", "subscribed", "upserted", "superseding"}

\* The type of the rows, the handlers, their uncommitted writes and the locks; a
\* handler that has answered leaves no uncommitted row behind.
TypeOK ==
  /\ row \in [Tokens -> Row]
  /\ reg \in [Requests -> [pc : PCs, in : Inputs \cup {NoInput}, todo : SUBSET Tokens]]
  /\ \A r \in Requests :
       /\ \E T \in SUBSET Tokens : writes[r] \in [T -> Row]
       /\ InFlight(r) \/ DOMAIN writes[r] = {}
  /\ advisory \in [Users \X UUIDs -> Requests \cup {NoOne}]
  /\ subLock \in [Users -> Requests \cup {NoOne}]

SamePhysicalDevice(v, w) ==
  /\ v.user = w.user /\ v.user # NoUser
  /\ v.uuid = w.uuid /\ v.uuid # NoUUID

\* registerDeviceSerialized: of the rows one subscriber has for one physical
\* device, at most one is active, however registrations of its tokens overlap.
OneActivePerPhysicalDevice ==
  \A t, u \in Tokens :
    /\ row[t].status = "active" /\ row[u].status = "active"
    /\ SamePhysicalDevice(row[t], row[u])
    => t = u

\* "... could each mark the other's row stale, leaving none active": a row only
\* becomes stale when another active row of the same physical device replaces it.
StaleOnlyWithSuccessor ==
  [][\A t \in Tokens :
       row[t].status = "active" /\ row'[t].status = "stale" =>
         \E u \in Tokens : /\ u # t /\ row'[u].status = "active"
                           /\ SamePhysicalDevice(row'[u], row'[t])]_vars

\* Every registration is answered: advisory, subscriber and row locks never
\* leave requests waiting for each other for good.
Answered == \A r \in Requests : InFlight(r) ~> ~InFlight(r)
=============================================================================
