------------------------------ MODULE Dispatch ------------------------------
(***************************************************************************)
(* The notification pipeline of slay-push, from POST /api/v1/notifications *)
(* to the recipient rows: internal/dispatch (intake, fanout, send), the    *)
(* enqueue helpers of internal/queue and the targeting strategies of       *)
(* internal/targeting, over the Postgres rows and the asynq tasks they     *)
(* share.                                                                  *)
(*                                                                         *)
(* Every database statement, enqueue and provider call is a step of its    *)
(* own, so that requests, fanout handlers and send handlers interleave the *)
(* way separate processes do.  A call to Postgres or Redis can be answered *)
(* with an error, its effect applied or not; a worker can die between any  *)
(* two steps.                                                              *)
(*                                                                         *)
(* Left out: texts, timestamps, error codes, attempt_count, delays (a      *)
(* scheduled retry is simply queued), and the projects (one project).      *)
(***************************************************************************)
EXTENDS Naturals, FiniteSets

CONSTANTS
  Notifs,           \* POST requests; a request that inserts a row names it
  Devices,          \* device rows; a row's token never changes
  Providers,        \* push networks, one send queue each
  ProviderChoices,  \* for each device, the providers its token is registered with
  Keys, NoKey,      \* idempotency keys, and a request without one
  NoOne,            \* no device, no provider, no notification
  Specs,            \* the target specs requests carry
  FanoutMaxRetry,   \* asynq.MaxRetry of a fanout task (3 in the code)
  SendMaxRetry,     \* asynq.MaxRetry of a send task (5 in the code)
  FaultKinds,       \* the kinds of fault that can happen
  MaxFaults         \* bound: how many faults happen in a behaviour

AllFaultKinds == {"db", "redis", "crash", "shutdown", "timeout"}

ASSUME SetsAssumption ==
  /\ IsFiniteSet(Devices)
  /\ NoKey \notin Keys
  /\ NoOne \notin Devices \cup Providers \cup Notifs
  /\ ProviderChoices \in [Devices -> SUBSET Providers]
  /\ Specs \subseteq [kind : {"none", "device_ids", "external_user_ids"},
                      devs : SUBSET Devices]

ASSUME BoundsAssumption ==
  /\ FanoutMaxRetry \in Nat
  /\ SendMaxRetry \in Nat
  /\ MaxFaults \in Nat
  /\ FaultKinds \subseteq AllFaultKinds

VARIABLES
  devices,    \* devices rows: status and provider_type
  notif,      \* notifications rows: status, idempotency_key, target_spec, total_recipients
  req,        \* the API handler of each request: pc, its key, the row it answered with
  recip,      \* notification_recipients rows, by (notification_id, device_id): status
  fanTask,    \* the asynq task of each fanout
  fan,        \* locals of the fanout handlers
  sendTask,   \* the asynq tasks of each recipient, one slot per send queue
  send,       \* program counters of the send handlers
  accepts,    \* history: pushes the provider accepted for each recipient
  faults      \* history: faults so far

intakeVars == <<notif, req>>
fanVars    == <<fanTask, fan>>
sendVars   == <<sendTask, send, accepts>>
vars == <<devices, notif, req, recip, fanTask, fan, sendTask, send, accepts, faults>>

(***************************************************************************)
(* Rows and their statuses                                                 *)
(***************************************************************************)
DeviceStatuses == {"absent", "active", "stale", "invalid"}
NotifStatuses  == {"absent", "pending", "processing", "completed", "failed"}
RecipStatuses  == {"absent", "queued", "sending", "sent", "delivered", "failed"}

\* terminalRecipientStatuses: what HandleSend must never act on again.
Terminal == {"sent", "delivered", "failed"}

(***************************************************************************)
(* Calls that can fail.  A reply is "ok", "failed" (an error, nothing      *)
(* applied) or "unacked" (an error although the effect was applied: the    *)
(* connection broke after the server acted).                               *)
(***************************************************************************)
Replies == {"ok", "failed", "unacked"}

Fault(kind) ==
  /\ kind \in FaultKinds
  /\ faults < MaxFaults
  /\ faults' = faults + 1

Call(kind, reply) ==
  \/ reply = "ok" /\ UNCHANGED faults
  \/ reply # "ok" /\ Fault(kind)

Applied(reply) == reply # "failed"

(***************************************************************************)
(* asynq.  A task is absent, queued (pending, or waiting for its retry),   *)
(* active (a handler runs) or archived (given up).  A handler's answer     *)
(* reaches Redis after the handler has returned: a worker that dies in     *)
(* between leaves the task active, and the recoverer runs it again.  The   *)
(* answers nil and SkipRetry are therefore steps of their own; an error    *)
(* has the same effect as the death of the worker, and is not.             *)
(***************************************************************************)
NoTask == [state |-> "none", retried |-> 0]
NewTask == [state |-> "queued", retried |-> 0]
Task(max) == [state : {"none", "queued", "active", "archived"}, retried : 0..max]

Activate(t) == [t EXCEPT !.state = "active"]
Archive(t)  == [t EXCEPT !.state = "archived"]
Requeue(t)  == [t EXCEPT !.state = "queued"]

\* A handler's error, counted against MaxRetry.
Retry(t, max) == IF t.retried >= max
                 THEN Archive(t)
                 ELSE [state |-> "queued", retried |-> t.retried + 1]

\* A *ThrottledError is no failure to asynq: IsFailure keeps `retried` as it is.
RetryThrottled_unlimited(t) == [state |-> "queued", retried |-> t.retried + 1]
RetryThrottled_counted(t) == Retry(t, SendMaxRetry)
RetryThrottled(t) == Requeue(t)

\* Enqueueing under a TaskID its queue already holds is a no-op, archived or not.
EnqueueOnce(t) == IF t.state = "none" THEN NewTask ELSE t

(***************************************************************************)
(* The device registry, as the pipeline sees it: a registration writes the *)
(* row active, with the provider it names; a registration of another token *)
(* of the same physical device makes the row stale.                        *)
(***************************************************************************)
RegisterDevice(d, p) ==
  /\ p \in ProviderChoices[d]
  /\ devices[d] # [status |-> "active", provider |-> p]
  /\ devices' = [devices EXCEPT ![d] = [status |-> "active", provider |-> p]]
  /\ UNCHANGED <<intakeVars, recip, fanVars, sendVars, faults>>

SupersedeDevice(d) ==
  /\ devices[d].status = "active"
  /\ devices' = [devices EXCEPT ![d].status = "stale"]
  /\ UNCHANGED <<intakeVars, recip, fanVars, sendVars, faults>>

(***************************************************************************)
(* Intake: Handlers.CreateNotification, called by handleCreateNotification *)
(* which answers 202, 422 or 500.                                          *)
(***************************************************************************)
GetNotificationByIdempotencyKey(key) ==
  {n \in Notifs : notif[n].status # "absent" /\ notif[n].key = key}

Conflicts_whilePending(key) ==
  {n \in Notifs : notif[n].status = "pending" /\ key # NoKey /\ notif[n].key = key}
\* The row an insert with this key would conflict with (partial unique index:
\* rows without a key never conflict).
Conflicts(key) == IF key = NoKey THEN {} ELSE GetNotificationByIdempotencyKey(key)

RejectEmptyTargets(q, spec) ==
  /\ req[q].pc = "idle"
  /\ spec.kind = "none"
  /\ req' = [req EXCEPT ![q].pc = "rejected"]
  /\ UNCHANGED <<devices, notif, recip, fanVars, sendVars, faults>>

NoRequest == [pc |-> "idle", key |-> NoKey, ref |-> NoOne]
Answered(key, n) == [pc |-> "accepted", key |-> key, ref |-> n]
ServerError == [NoRequest EXCEPT !.pc = "error"]

\* Device ids are made up by the database, so the ids a client knows are those of
\* rows that exist; an id nobody was given never resolves to a device.
Known(spec) ==
  spec.kind = "device_ids" => \A d \in spec.devs : devices[d].status # "absent"

\* insert ... on conflict do nothing returning *: the row is this request's.
InsertNotification(q, key, spec, reply) ==
  /\ req[q].pc = "idle"
  /\ spec.kind # "none"
  /\ Known(spec)
  /\ Conflicts(key) = {}
  /\ Call("db", reply)
  /\ notif' = IF Applied(reply)
              THEN [notif EXCEPT ![q] = [status |-> "pending", key |-> key,
                                         spec |-> spec, total |-> 0]]
              ELSE notif
  /\ req' = [req EXCEPT ![q] = IF reply = "ok"
                               THEN [pc |-> "inserted", key |-> key, ref |-> NoOne]
                               ELSE ServerError]
  /\ UNCHANGED <<devices, recip, fanVars, sendVars>>

\* No row returned: fetch the winner's row and answer with it, no fanout.
ReturnExisting(q, key, spec, reply) ==
  /\ req[q].pc = "idle"
  /\ spec.kind # "none"
  /\ Call("db", reply)
  /\ Conflicts(key) # {}
  /\ \E winner \in GetNotificationByIdempotencyKey(key) :
       req' = [req EXCEPT ![q] = IF reply = "ok" THEN Answered(key, winner) ELSE ServerError]
  /\ UNCHANGED <<devices, notif, recip, fanVars, sendVars>>

EnqueueFanout(q, reply) ==
  /\ req[q].pc = "inserted"
  /\ Call("redis", reply)
  /\ fanTask' = IF Applied(reply) THEN [fanTask EXCEPT ![q] = NewTask] ELSE fanTask
  /\ req' = [req EXCEPT ![q] = IF reply = "ok" THEN Answered(req[q].key, q) ELSE ServerError]
  /\ UNCHANGED <<devices, notif, recip, fan, sendVars>>

\* The API process dies before it has enqueued the fanout; the client sees an error.
ApiCrash(q) ==
  /\ req[q].pc = "inserted"
  /\ Fault("crash")
  /\ req' = [req EXCEPT ![q] = ServerError]
  /\ UNCHANGED <<devices, notif, recip, fanVars, sendVars>>

(***************************************************************************)
(* Fanout: Handlers.HandleFanout, in the worker.                           *)
(***************************************************************************)
NoSnapshot == [d \in Devices |-> NoOne]
IdleFan == [pc |-> "idle", ids |-> {}, snap |-> NoSnapshot, done |-> {}, cur |-> NoOne]

\* The handler of n has returned, asynq has decided on the task.
FanoutReturns(n, task) ==
  /\ fan' = [fan EXCEPT ![n] = IdleFan]
  /\ fanTask' = [fanTask EXCEPT ![n] = task]

FanoutReturnsError(n) == FanoutReturns(n, Retry(fanTask[n], FanoutMaxRetry))

\* The handler of n returns nil: its locals are gone, its task is still there.
FanoutReturnsNil(n) ==
  /\ fan' = [fan EXCEPT ![n] = [IdleFan EXCEPT !.pc = "acking"]]
  /\ UNCHANGED fanTask

\* GetDevicesByIDs: the ids that have a row, whatever its status.
GetDevicesByIDs(ids) == {d \in ids : devices[d].status # "absent"}

\* GetActiveDevicesBySubscriberExternalIDs; devs are the subscribers' devices.
GetActiveDevices(devs) == {d \in devs : devices[d].status = "active"}

Resolve_activeOnly(spec) == GetActiveDevices(spec.devs)
\* targeting.Registry.Resolve: explicit ids that exist, or the active devices of
\* the named subscribers.
Resolve(spec) == IF spec.kind = "device_ids"
                 THEN GetDevicesByIDs(spec.devs)
                 ELSE GetActiveDevices(spec.devs)

\* Updates of a notification's row; the old status is not looked at.
SetNotificationStatus(n, status, reply) ==
  notif' = IF Applied(reply) THEN [notif EXCEPT ![n].status = status] ELSE notif

SetNotificationTotals(n, total, reply) ==
  notif' = IF Applied(reply) THEN [notif EXCEPT ![n].total = total] ELSE notif

\* asynq hands the task to a handler, which reads the (immutable) notification.
FanoutStart(n, reply) ==
  /\ fanTask[n].state = "queued"
  /\ Call("db", reply)
  /\ IF reply = "ok"
     THEN /\ fanTask' = [fanTask EXCEPT ![n] = Activate(@)]
          /\ fan' = [fan EXCEPT ![n].pc = "started"]
     ELSE FanoutReturnsError(n)
  /\ UNCHANGED <<devices, intakeVars, recip, sendVars>>

FanoutResolve(n) ==
  /\ fan[n].pc = "started"
  /\ fan' = [fan EXCEPT ![n].pc = "resolved", ![n].ids = Resolve(notif[n].spec)]
  /\ UNCHANGED <<devices, intakeVars, recip, fanTask, sendVars, faults>>

\* Resolve fails: the row is marked failed (that write's own error is dropped)
\* and the error goes back to asynq.
FanoutResolveFails(n, marking) ==
  /\ fan[n].pc = "started"
  /\ Fault("db")
  /\ SetNotificationStatus(n, "failed", marking)
  /\ FanoutReturnsError(n)
  /\ UNCHANGED <<devices, req, recip, sendVars>>

FanoutComplete(n, reply) ==
  /\ fan[n].pc = "resolved"
  /\ fan[n].ids = {}
  /\ Call("db", reply)
  /\ SetNotificationStatus(n, "completed", reply)
  /\ IF reply = "ok" THEN FanoutReturnsNil(n) ELSE FanoutReturnsError(n)
  /\ UNCHANGED <<devices, req, recip, sendVars>>

\* The rows, and so the provider of each send, are read again: as they are now.
FanoutLoad(n, reply) ==
  /\ fan[n].pc = "resolved"
  /\ fan[n].ids # {}
  /\ Call("db", reply)
  /\ IF reply = "ok"
     THEN /\ fan' = [fan EXCEPT ![n].pc = "loop",
                                ![n].snap = [d \in Devices |-> IF d \in GetDevicesByIDs(fan[n].ids)
                                                               THEN devices[d].provider
                                                               ELSE NoOne]]
          /\ UNCHANGED fanTask
     ELSE FanoutReturnsError(n)
  /\ UNCHANGED <<devices, intakeVars, recip, sendVars>>

\* The devices of the loop `for _, d := range devices` not enqueued yet.
ToEnqueue(n) == fan[n].ids \ fan[n].done

\* getOrCreateRecipient: insert, or fetch the row of (notification_id, device_id).
CreateRecipient_reset(status) == "queued"
CreateRecipient(status) == IF status = "absent" THEN "queued" ELSE status

FanoutInsertRecipient(n, d, reply) ==
  /\ fan[n].pc = "loop"
  /\ d \in ToEnqueue(n)
  /\ Call("db", reply)
  /\ recip' = IF Applied(reply) THEN [recip EXCEPT ![n][d] = CreateRecipient(@)] ELSE recip
  /\ IF reply = "ok"
     THEN /\ fan' = [fan EXCEPT ![n].pc = "inserted", ![n].cur = d]
          /\ UNCHANGED fanTask
     ELSE FanoutReturnsError(n)
  /\ UNCHANGED <<devices, intakeVars, sendVars>>

FanoutEnqueueSend_dropsError(n, reply) ==
  LET d == fan[n].cur
      p == fan[n].snap[d]
  IN /\ fan[n].pc = "inserted"
     /\ Call("redis", reply)
     /\ sendTask' = IF Applied(reply)
                    THEN [sendTask EXCEPT ![n][d][p] = EnqueueOnce(@)]
                    ELSE sendTask
     /\ fan' = [fan EXCEPT ![n].pc = "loop", ![n].cur = NoOne, ![n].done = @ \cup {d}]
     /\ UNCHANGED <<devices, intakeVars, recip, fanTask, send, accepts>>

\* EnqueueSend: the task id is the recipient's, the queue the provider's.  The
\* id is unique in its queue only.
FanoutEnqueueSend(n, reply) ==
  LET d == fan[n].cur
      p == fan[n].snap[d]
  IN /\ fan[n].pc = "inserted"
     /\ Call("redis", reply)
     /\ sendTask' = IF Applied(reply)
                    THEN [sendTask EXCEPT ![n][d][p] = EnqueueOnce(@)]
                    ELSE sendTask
     /\ IF reply = "ok"
        THEN /\ fan' = [fan EXCEPT ![n].pc = "loop", ![n].cur = NoOne,
                                   ![n].done = @ \cup {d}]
             /\ UNCHANGED fanTask
        ELSE FanoutReturnsError(n)
     /\ UNCHANGED <<devices, intakeVars, recip, send, accepts>>

FanoutSetTotals(n, reply) ==
  /\ fan[n].pc = "loop"
  /\ ToEnqueue(n) = {}
  /\ Call("db", reply)
  /\ SetNotificationTotals(n, Cardinality(fan[n].done), reply)
  /\ IF reply = "ok"
     THEN fan' = [fan EXCEPT ![n].pc = "totals"] /\ UNCHANGED fanTask
     ELSE FanoutReturnsError(n)
  /\ UNCHANGED <<devices, req, recip, sendVars>>

FanoutSetProcessing(n, reply) ==
  /\ fan[n].pc = "totals"
  /\ Call("db", reply)
  /\ SetNotificationStatus(n, "processing", reply)
  /\ IF reply = "ok" THEN FanoutReturnsNil(n) ELSE FanoutReturnsError(n)
  /\ UNCHANGED <<devices, req, recip, sendVars>>

\* asynq deletes the task of a handler that returned nil.
FanoutAck(n) ==
  /\ fan[n].pc = "acking"
  /\ FanoutReturns(n, NoTask)
  /\ UNCHANGED <<devices, intakeVars, recip, sendVars, faults>>

\* The worker dies (the recoverer retries the task once its lease expires,
\* which counts) or shuts down (asynq requeues what is still running).
FanoutWorkerStops(n, kind) ==
  /\ fanTask[n].state = "active"
  /\ kind \in {"crash", "shutdown"}
  /\ Fault(kind)
  /\ IF kind = "crash" THEN FanoutReturnsError(n) ELSE FanoutReturns(n, Requeue(fanTask[n]))
  /\ UNCHANGED <<devices, intakeVars, recip, sendVars>>

(***************************************************************************)
(* Send: Handlers.HandleSend, in the worker, for the task of recipient     *)
(* (n, d) in the queue of provider p.                                      *)
(***************************************************************************)
SendReturns(n, d, p, task) ==
  /\ send' = [send EXCEPT ![n][d][p] = "idle"]
  /\ sendTask' = [sendTask EXCEPT ![n][d][p] = task]

SendReturnsError(n, d, p) == SendReturns(n, d, p, Retry(sendTask[n][d][p], SendMaxRetry))
SendThrottled(n, d, p)    == SendReturns(n, d, p, RetryThrottled(sendTask[n][d][p]))

SendGoes(n, d, p, pc) ==
  /\ send' = [send EXCEPT ![n][d][p] = pc]
  /\ UNCHANGED sendTask

\* The handler returns nil or SkipRetry; asynq has still to be told.
SendReturnsNil(n, d, p) == SendGoes(n, d, p, "acking")
SendSkipsRetry(n, d, p) == SendGoes(n, d, p, "skipping")

SetRecipient(n, d, status, reply) ==
  recip' = IF Applied(reply) THEN [recip EXCEPT ![n][d] = status] ELSE recip

\* The task becomes active, the handler fetches the recipient, and a terminal
\* status ends it.
MayAct_ignoreFailed(status) == status \notin {"sent", "delivered"}
MayAct(status) == status \notin Terminal

SendStart(n, d, p, reply) ==
  /\ sendTask[n][d][p].state = "queued"
  /\ Call("db", reply)
  /\ IF reply # "ok"
     THEN SendReturnsError(n, d, p)
     ELSE /\ send' = [send EXCEPT ![n][d][p] = IF MayAct(recip[n][d]) THEN "checked" ELSE "acking"]
          /\ sendTask' = [sendTask EXCEPT ![n][d][p] = Activate(@)]
  /\ UNCHANGED <<devices, intakeVars, recip, fanVars, accepts>>

\* The outbound limiter refuses (it lets the send through when Redis fails).
SendOverLimit(n, d, p) ==
  /\ send[n][d][p] = "checked"
  /\ SendThrottled(n, d, p)
  /\ UNCHANGED <<devices, intakeVars, recip, fanVars, accepts, faults>>

\* MarkRecipientSending, an update that does not look at the old status.
SendMarkSending(n, d, p, reply) ==
  /\ send[n][d][p] = "checked"
  /\ Call("db", reply)
  /\ SetRecipient(n, d, "sending", reply)
  /\ IF reply = "ok" THEN SendGoes(n, d, p, "marked") ELSE SendReturnsError(n, d, p)
  /\ UNCHANGED <<devices, intakeVars, fanVars, accepts>>

\* No active credential (or a failed lookup), one that does not decrypt, or an
\* unknown provider: failRecipient, whose error is only logged, and SkipRetry.
SendNoCredential(n, d, p, reply) ==
  /\ send[n][d][p] = "marked"
  /\ Call("db", reply)
  /\ SetRecipient(n, d, "failed", reply)
  /\ SendSkipsRetry(n, d, p)
  /\ UNCHANGED <<devices, intakeVars, fanVars, accepts>>

\* adapter.Send, by the status it returns.
SendAccepted(n, d, p) ==
  /\ send[n][d][p] = "marked"
  /\ accepts' = [accepts EXCEPT ![n][d] = @ + 1]
  /\ SendGoes(n, d, p, "accepted")
  /\ UNCHANGED <<devices, intakeVars, recip, fanVars, faults>>

SendRefused(n, d, p, verdict) ==
  /\ send[n][d][p] = "marked"
  /\ verdict \in {"invalid_token", "transient"}
  /\ SendGoes(n, d, p, verdict)
  /\ UNCHANGED <<devices, intakeVars, recip, fanVars, accepts, faults>>

SendProviderThrottles(n, d, p) ==
  /\ send[n][d][p] = "marked"
  /\ SendThrottled(n, d, p)
  /\ UNCHANGED <<devices, intakeVars, recip, fanVars, accepts, faults>>

\* The provider accepts the push but its answer is lost: a transient error.
SendAnswerLost(n, d, p) ==
  /\ send[n][d][p] = "marked"
  /\ Fault("timeout")
  /\ accepts' = [accepts EXCEPT ![n][d] = @ + 1]
  /\ SendGoes(n, d, p, "transient")
  /\ UNCHANGED <<devices, intakeVars, recip, fanVars>>

SendMarkSent_beforeCall(n, d, p, reply) ==
  /\ send[n][d][p] \in {"marked", "accepted"}
  /\ Call("db", reply)
  /\ SetRecipient(n, d, "sent", reply)
  /\ IF reply = "ok" THEN SendReturnsNil(n, d, p) ELSE SendReturnsError(n, d, p)
  /\ UNCHANGED <<devices, intakeVars, fanVars, accepts>>

SendMarkSent(n, d, p, reply) ==
  /\ send[n][d][p] = "accepted"
  /\ Call("db", reply)
  /\ SetRecipient(n, d, "sent", reply)
  /\ IF reply = "ok" THEN SendReturnsNil(n, d, p) ELSE SendReturnsError(n, d, p)
  /\ UNCHANGED <<devices, intakeVars, fanVars, accepts>>

\* MarkDeviceStatus "invalid"; its error is only logged.
SendInvalidateDevice(n, d, p, reply) ==
  /\ send[n][d][p] = "invalid_token"
  /\ Call("db", reply)
  /\ devices' = IF Applied(reply) THEN [devices EXCEPT ![d].status = "invalid"] ELSE devices
  /\ SendGoes(n, d, p, "invalidated")
  /\ UNCHANGED <<intakeVars, recip, fanVars, accepts>>

\* failRecipient, whose error is only logged: the handler returns nil all the same.
SendFailInvalidToken(n, d, p, reply) ==
  /\ send[n][d][p] = "invalidated"
  /\ Call("db", reply)
  /\ SetRecipient(n, d, "failed", reply)
  /\ SendReturnsNil(n, d, p)
  /\ UNCHANGED <<devices, intakeVars, fanVars, accepts>>

\* isLastAttempt: the task's retry budget is spent.
IsLastAttempt(t) == t.retried >= SendMaxRetry

\* A transient error goes back to asynq; on the last attempt the recipient is
\* failed first, and an error of that write is only logged.
SendTransientError(n, d, p, reply) ==
  /\ send[n][d][p] = "transient"
  /\ IF IsLastAttempt(sendTask[n][d][p])
     THEN Call("db", reply) /\ SetRecipient(n, d, "failed", reply)
     ELSE reply = "ok" /\ UNCHANGED <<recip, faults>>
  /\ SendReturnsError(n, d, p)
  /\ UNCHANGED <<devices, intakeVars, fanVars, accepts>>

\* asynq deletes the task of a handler that returned nil...
SendAck(n, d, p) ==
  /\ send[n][d][p] = "acking"
  /\ SendReturns(n, d, p, NoTask)
  /\ UNCHANGED <<devices, intakeVars, recip, fanVars, accepts, faults>>

\* ... and archives that of one that returned SkipRetry.
SendArchive(n, d, p) ==
  /\ send[n][d][p] = "skipping"
  /\ SendReturns(n, d, p, Archive(sendTask[n][d][p]))
  /\ UNCHANGED <<devices, intakeVars, recip, fanVars, accepts, faults>>

SendWorkerStops(n, d, p, kind) ==
  /\ sendTask[n][d][p].state = "active"
  /\ kind \in {"crash", "shutdown"}
  /\ Fault(kind)
  /\ IF kind = "crash"
     THEN SendReturnsError(n, d, p)
     ELSE SendReturns(n, d, p, Requeue(sendTask[n][d][p]))
  /\ UNCHANGED <<devices, intakeVars, recip, fanVars, accepts>>

(***************************************************************************)
(* The system                                                              *)
(***************************************************************************)
Init ==
  /\ devices = [d \in Devices |-> [status |-> "absent", provider |-> NoOne]]
  /\ notif = [n \in Notifs |-> [status |-> "absent", key |-> NoKey,
                                spec |-> [kind |-> "none", devs |-> {}], total |-> 0]]
  /\ req = [n \in Notifs |-> NoRequest]
  /\ recip = [n \in Notifs |-> [d \in Devices |-> "absent"]]
  /\ fanTask = [n \in Notifs |-> NoTask]
  /\ fan = [n \in Notifs |-> IdleFan]
  /\ sendTask = [n \in Notifs |-> [d \in Devices |-> [p \in Providers |-> NoTask]]]
  /\ send = [n \in Notifs |-> [d \in Devices |-> [p \in Providers |-> "idle"]]]
  /\ accepts = [n \in Notifs |-> [d \in Devices |-> 0]]
  /\ faults = 0

Registration ==
  \E d \in Devices :
    \/ \E p \in Providers : RegisterDevice(d, p)
    \/ SupersedeDevice(d)

Intake(q) ==
  \/ \E key \in Keys \cup {NoKey}, spec \in Specs :
       \/ RejectEmptyTargets(q, spec)
       \/ \E reply \in Replies : \/ InsertNotification(q, key, spec, reply)
                                 \/ ReturnExisting(q, key, spec, reply)
  \/ \E reply \in Replies : EnqueueFanout(q, reply)
  \/ ApiCrash(q)

FanoutStep(n) ==
  \/ FanoutResolve(n)
  \/ FanoutAck(n)
  \/ \E reply \in Replies :
       \/ FanoutResolveFails(n, reply)
       \/ FanoutStart(n, reply)
       \/ FanoutComplete(n, reply)
       \/ FanoutLoad(n, reply)
       \/ \E d \in Devices : FanoutInsertRecipient(n, d, reply)
       \/ FanoutEnqueueSend(n, reply)
       \/ FanoutSetTotals(n, reply)
       \/ FanoutSetProcessing(n, reply)

SendStep(n, d, p) ==
  \/ SendOverLimit(n, d, p)
  \/ SendAccepted(n, d, p)
  \/ \E verdict \in {"invalid_token", "transient"} : SendRefused(n, d, p, verdict)
  \/ SendProviderThrottles(n, d, p)
  \/ SendAnswerLost(n, d, p)
  \/ SendAck(n, d, p)
  \/ SendArchive(n, d, p)
  \/ \E reply \in Replies :
       \/ SendStart(n, d, p, reply)
       \/ SendMarkSending(n, d, p, reply)
       \/ SendNoCredential(n, d, p, reply)
       \/ SendMarkSent(n, d, p, reply)
       \/ SendInvalidateDevice(n, d, p, reply)
       \/ SendFailInvalidToken(n, d, p, reply)
       \/ SendTransientError(n, d, p, reply)

WorkerStops ==
  \E n \in Notifs, kind \in {"crash", "shutdown"} :
    \/ FanoutWorkerStops(n, kind)
    \/ \E d \in Devices, p \in Providers : SendWorkerStops(n, d, p, kind)

Next ==
  \/ Registration
  \/ \E n \in Notifs : Intake(n) \/ FanoutStep(n)
  \/ \E n \in Notifs, d \in Devices, p \in Providers : SendStep(n, d, p)
  \/ WorkerStops

Spec == Init /\ [][Next]_vars

(***************************************************************************)
(* Fairness.  The API handler and the worker keep running their code, so   *)
(* their steps are weakly fair.  A throttled send is retried for ever: it  *)
(* gets through only if the limiter's window, and the provider, sometimes  *)
(* let a send of it pass, which is strong fairness.  Nothing is assumed of *)
(* clients, registrations or faults.                                       *)
(***************************************************************************)
Fairness ==
  /\ \A q \in Notifs : WF_vars(\E reply \in Replies : EnqueueFanout(q, reply))
  /\ \A n \in Notifs : WF_vars(FanoutStep(n))
  /\ \A n \in Notifs, d \in Devices, p \in Providers :
       /\ WF_vars(SendStep(n, d, p))
       /\ SF_vars(\E reply \in Replies : SendMarkSending(n, d, p, reply))
       /\ SF_vars(\/ SendAccepted(n, d, p)
                  \/ \E verdict \in {"invalid_token", "transient"} :
                       SendRefused(n, d, p, verdict))

FairSpec == Spec /\ Fairness

(***************************************************************************)
(* Properties                                                              *)
(***************************************************************************)
FanPCs == {"idle", "started", "resolved", "loop", "inserted", "totals", "acking"}

\* A send handler works on its recipient until it has returned.
Returned == {"idle", "acking", "skipping"}
SendPCs == Returned \cup {"checked", "marked", "accepted", "invalid_token", "invalidated",
                         "transient"}

FanLocals == [pc : FanPCs, ids : SUBSET Devices,
              snap : [Devices -> Providers \cup {NoOne}],
              done : SUBSET Devices, cur : Devices \cup {NoOne}]

DevicesOK ==
  devices \in [Devices -> [status : DeviceStatuses, provider : Providers \cup {NoOne}]]

IntakeOK ==
  /\ notif \in [Notifs -> [status : NotifStatuses, key : Keys \cup {NoKey},
                           spec : Specs \cup {[kind |-> "none", devs |-> {}]},
                           total : Nat]]
  /\ req \in [Notifs -> [pc : {"idle", "rejected", "inserted", "accepted", "error"},
                         key : Keys \cup {NoKey}, ref : Notifs \cup {NoOne}]]

RecipientsOK == recip \in [Notifs -> [Devices -> RecipStatuses]]

FanoutOK ==
  /\ fanTask \in [Notifs -> Task(FanoutMaxRetry)]
  /\ fan \in [Notifs -> FanLocals]

SendOK ==
  /\ sendTask \in [Notifs -> [Devices -> [Providers -> Task(SendMaxRetry)]]]
  /\ send \in [Notifs -> [Devices -> [Providers -> SendPCs]]]
  /\ accepts \in [Notifs -> [Devices -> Nat]]

\* The type of the state: the rows, the requests, the tasks and their handlers.
TypeOK ==
  /\ DevicesOK
  /\ IntakeOK
  /\ RecipientsOK
  /\ FanoutOK
  /\ SendOK
  /\ faults \in 0..MaxFaults

\* A push token belongs to one push network: however often a device registers,
\* it names the same provider.  The API does not enforce it.
OneProviderPerToken ==
  \A d \in Devices : \A p, q \in ProviderChoices[d] : p = q

\* A registered device has one of its providers, and no row is ever deleted.
RegistryInv ==
  \A d \in Devices : devices[d].status # "absent" => devices[d].provider \in ProviderChoices[d]

\* A fanout handler works on existing devices and enqueues for recipients it inserted.
FanoutInv ==
  \A n \in Notifs :
    /\ \A d \in fan[n].ids : devices[d].status # "absent"
    /\ fan[n].pc \in {"loop", "inserted", "totals"} =>
         \A d \in fan[n].ids : fan[n].snap[d] \in ProviderChoices[d]
    /\ fan[n].pc = "inserted" => fan[n].cur \in fan[n].ids /\ recip[n][fan[n].cur] # "absent"

\* A send task stands for a recipient row and its device, and a handler runs for an active task.
TaskInv ==
  \A n \in Notifs, d \in Devices, p \in Providers :
    /\ sendTask[n][d][p].state # "none" =>
         p \in ProviderChoices[d] /\ recip[n][d] # "absent" /\ devices[d].status # "absent"
    /\ send[n][d][p] # "idle" => sendTask[n][d][p].state = "active"

\* What a send handler read before its provider call still holds after it: while
\* HandleSend works on a recipient, the row is open, it is "sending" from
\* MarkRecipientSending on, and nobody else closes it.
HandlerInv ==
  \A n \in Notifs, d \in Devices, p \in Providers :
    /\ send[n][d][p] \notin Returned => recip[n][d] \in {"queued", "sending"}
    /\ send[n][d][p] \notin Returned \cup {"checked"} => recip[n][d] = "sending"
    /\ send[n][d][p] = "accepted" => accepts[n][d] > 0

\* terminalRecipientStatuses: once a recipient is sent or failed no step of any
\* handler changes its row again, whatever is retried, re-enqueued or recovered.
TerminalStays ==
  [][\A n \in Notifs, d \in Devices :
       recip[n][d] \in Terminal => recip'[n][d] = recip[n][d]]_vars

\* What a recipient's status says about the pushes its provider accepted: a
\* sent recipient was accepted, and as long as nothing went wrong exactly once,
\* a failed one never and no recipient twice (at-least-once delivery only
\* duplicates after a fault).
OutcomeTruthful ==
  \A n \in Notifs, d \in Devices :
    /\ recip[n][d] = "sent" => accepts[n][d] > 0
    /\ faults = 0 => accepts[n][d] <= (IF recip[n][d] \in {"sending", "sent"} THEN 1 ELSE 0)

\* The work that is still going to be done, or was visibly given up, for a row.
Attended(n, d) ==
  \/ fanTask[n].state # "none"
  \/ \E p \in Providers : sendTask[n][d][p].state # "none"

Explicit(n) == notif[n].spec.kind = "device_ids"

\* No recipient of explicit targets is lost without a trace: as long as its row is
\* not terminal, a task (possibly archived, where an operator finds it) stands for
\* it.  While the database answers.
NothingLost ==
  \A n \in Notifs, d \in Devices :
    Explicit(n) /\ recip[n][d] \in {"queued", "sending"} => Attended(n, d)

Rows(n) == {d \in Devices : recip[n][d] # "absent"}

\* SetNotificationTotals: total_recipients never counts a recipient that has no
\* row, and for explicit targets a "processing" notification counts every row it
\* has, whatever attempts of its fanout failed, died or ran again after the end.
\* (A group that shrank between two attempts may leave it below the rows.)
TotalsExact ==
  \A n \in Notifs :
    /\ notif[n].total <= Cardinality(Rows(n))
    /\ Explicit(n) /\ notif[n].status = "processing" => notif[n].total = Cardinality(Rows(n))

\* Idempotency keys: a 202 names a row that exists and was made for the request's own
\* key, all 202s for one key name the same row, a request without a key gets a row
\* of its own, and one that is answered with another's row makes nothing itself.
OneFanoutPerKey ==
  \A q \in Notifs : req[q].pc = "accepted" =>
    /\ req[q].ref \in Notifs
    /\ notif[req[q].ref].status # "absent" /\ notif[req[q].ref].key = req[q].key
    /\ \A r \in Notifs : req[r].pc = "accepted" /\ req[r].key = req[q].key
                         => req[r].ref = req[q].ref \/ req[q].key = NoKey
    /\ req[q].key = NoKey => req[q].ref = q
    /\ req[q].ref # q => notif[q].status = "absent" /\ fanTask[q] = NoTask

\* The fanout of n has ended and every recipient it has made has its outcome.
Settled(n) ==
  /\ notif[n].status \in {"completed", "processing"}
  /\ \A d \in Devices : recip[n][d] \in Terminal \cup {"absent"}

GivenUp(n) ==
  \/ fanTask[n].state = "archived"
  \/ \E d \in Devices, p \in Providers : sendTask[n][d][p].state = "archived"

\* A 202 answer is a promise: the notification it names is eventually settled.
AcceptedSettles ==
  \A q, n \in Notifs : (req[q].pc = "accepted" /\ req[q].ref = n) ~> Settled(n)

\* Without faults a 202 answer is kept: however often the limiter and the provider
\* throttle a send, no recipient is given up for it and the notification settles.
FaultlessSettles == [](faults = 0) => AcceptedSettles

\* With crashes, shutdowns and lost replies in the way, the request that created a
\* notification for explicit targets and got a 202 sees it settled, or one of its
\* tasks archived after the retry budget was spent.
AcceptedSettlesOrArchives ==
  \A q \in Notifs :
    (req[q].pc = "accepted" /\ req[q].ref = q /\ Explicit(q)) ~> (Settled(q) \/ GivenUp(q))

\* The pipeline implements the delivery contract: on every recipient row it only
\* takes the contract's steps, and "sent" is recorded only after an acceptance.
Contract == INSTANCE DeliveryContract WITH status <- recip
ImplementsContract == Contract!Spec

(***************************************************************************)
(* What comments and docs of the repository say, and the code does not     *)
(* guarantee                                                               *)
(***************************************************************************)
\* "The notification's own status field only ever reaches completed/failed in the
\* zero-recipient edge case": a closed notification has no recipient rows.
ClosedOnlyWhenEmpty ==
  \A n \in Notifs : notif[n].status \in {"completed", "failed"} => Rows(n) = {}

\* "resolve targets (not retryable)": a notification whose fanout failed that way
\* stays failed.
FailedFanoutStays ==
  [][\A n \in Notifs : notif[n].status = "failed" => notif'[n].status = "failed"]_vars
=============================================================================
