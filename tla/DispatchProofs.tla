--------------------------- MODULE DispatchProofs ---------------------------
(***************************************************************************)
(* Proofs about the notification pipeline, for any number of requests,     *)
(* devices, providers, retries and faults.                                 *)
(***************************************************************************)
EXTENDS Dispatch, FiniteSetTheorems, TLAPS

(***************************************************************************)
(* asynq's task operations                                                 *)
(***************************************************************************)
\* Every asynq operation on a task yields a task, and `retried` stays within
\* the MaxRetry the task was enqueued with.
LEMMA TaskOperations ==
  ASSUME NEW max \in Nat, NEW t \in Task(max)
  PROVE  /\ NoTask \in Task(max)
         /\ NewTask \in Task(max)
         /\ Activate(t) \in Task(max)
         /\ Archive(t) \in Task(max)
         /\ Requeue(t) \in Task(max)
         /\ Retry(t, max) \in Task(max)
         /\ EnqueueOnce(t) \in Task(max)
BY DEF Task, NoTask, NewTask, Activate, Archive, Requeue, Retry, EnqueueOnce

\* A call, failing or not, keeps the fault count within its bound.
LEMMA CallCounts ==
  ASSUME faults \in 0..MaxFaults, NEW kind, NEW reply,
         Call(kind, reply) \/ Fault(kind)
  PROVE  faults' \in 0..MaxFaults
BY BoundsAssumption DEF Call, Fault

\* The locals of one fanout handler change, its task stays or becomes t.
LEMMA FanoutGoesType ==
  ASSUME FanoutOK, NEW n \in Notifs, NEW f \in FanLocals,
         fan' = [fan EXCEPT ![n] = f],
         NEW t \in Task(FanoutMaxRetry),
         fanTask' = fanTask \/ fanTask' = [fanTask EXCEPT ![n] = t]
  PROVE  FanoutOK'
BY DEF FanoutOK

LEMMA FanoutReturnsType ==
  ASSUME FanoutOK, NEW n \in Notifs, NEW task \in Task(FanoutMaxRetry),
         FanoutReturns(n, task)
  PROVE  FanoutOK'
BY DEF FanoutOK, FanoutReturns, IdleFan, NoSnapshot, FanPCs, FanLocals

LEMMA SendReturnsType ==
  ASSUME SendOK, UNCHANGED accepts,
         NEW n \in Notifs, NEW d \in Devices, NEW p \in Providers,
         NEW task \in Task(SendMaxRetry), SendReturns(n, d, p, task)
  PROVE  SendOK'
BY DEF SendOK, SendReturns, SendPCs, Returned

LEMMA SendGoesType ==
  ASSUME SendOK, accepts' \in [Notifs -> [Devices -> Nat]],
         NEW n \in Notifs, NEW d \in Devices, NEW p \in Providers,
         NEW pc \in SendPCs, SendGoes(n, d, p, pc)
  PROVE  SendOK'
BY DEF SendOK, SendGoes

LEMMA SetRecipientType ==
  ASSUME RecipientsOK, NEW n \in Notifs, NEW d \in Devices,
         NEW status \in RecipStatuses, NEW reply, SetRecipient(n, d, status, reply)
  PROVE  RecipientsOK'
BY DEF RecipientsOK, SetRecipient

(***************************************************************************)
(* Type correctness.  It needs to know that a fanout handler enqueues for a *)
(* device it loaded, so it is proved together with the invariants of the    *)
(* registry, the fanout handlers and the send tasks.                        *)
(***************************************************************************)
BaseInv == TypeOK /\ RegistryInv /\ FanoutInv /\ TaskInv

LEMMA InitBase == Init => BaseInv
BY SetsAssumption, BoundsAssumption
   DEF Init, BaseInv, TypeOK, DevicesOK, IntakeOK, RecipientsOK, FanoutOK, SendOK,
       RegistryInv, FanoutInv, TaskInv, Task, NoTask, IdleFan, NoSnapshot, FanPCs, SendPCs,
       Returned, NoRequest, FanLocals, DeviceStatuses, NotifStatuses, RecipStatuses

\* No step deletes a recipient row or a device row.
RowsKept ==
  \A m \in Notifs, e \in Devices : recip[m][e] # "absent" => recip'[m][e] # "absent"

DevicesKept ==
  \A e \in Devices : devices[e].status # "absent" => devices'[e].status # "absent"

\* The parts of the invariant whose variables a step leaves alone.
LEMMA Frame ==
  ASSUME BaseInv
  PROVE  /\ UNCHANGED devices => DevicesOK' /\ RegistryInv'
         /\ UNCHANGED intakeVars => IntakeOK'
         /\ UNCHANGED recip => RecipientsOK'
         /\ UNCHANGED fanVars => FanoutOK'
         /\ UNCHANGED sendVars => SendOK'
         /\ UNCHANGED faults => faults' \in 0..MaxFaults
         /\ UNCHANGED <<devices, recip, fan>> => FanoutInv'
         /\ UNCHANGED <<devices, recip, sendTask, send>> => TaskInv'
BY DEF BaseInv, TypeOK, DevicesOK, RegistryInv, IntakeOK, RecipientsOK, FanoutOK, SendOK,
       FanoutInv, TaskInv, intakeVars, fanVars, sendVars

\* A recipient row that changes is not deleted, which is all FanoutInv and
\* TaskInv know of it.
LEMMA FrameRecipient ==
  ASSUME BaseInv, NEW n \in Notifs, NEW d \in Devices,
         NEW status \in RecipStatuses \ {"absent"},
         recip' = recip \/ recip' = [recip EXCEPT ![n][d] = status]
  PROVE  /\ RecipientsOK'
         /\ UNCHANGED <<devices, fan>> => FanoutInv'
         /\ UNCHANGED <<devices, sendTask, send>> => TaskInv'
         /\ RowsKept
<1>1. RecipientsOK'
  BY BaseInv DEF BaseInv, TypeOK, RecipientsOK
<1>2. RowsKept
  BY BaseInv DEF BaseInv, TypeOK, RecipientsOK, RowsKept
<1>3. UNCHANGED <<devices, fan>> => FanoutInv'
  BY BaseInv, <1>2 DEF BaseInv, TypeOK, FanoutOK, FanLocals, FanoutInv, RowsKept
<1>4. UNCHANGED <<devices, sendTask, send>> => TaskInv'
  BY BaseInv, <1>2 DEF BaseInv, TaskInv, RowsKept
<1>5. QED
  BY <1>1, <1>2, <1>3, <1>4

LEMMA RegistrationBase ==
  ASSUME BaseInv, Registration
  PROVE  BaseInv'
<1>1. PICK d \in Devices : \/ \E p \in Providers : RegisterDevice(d, p)
                           \/ SupersedeDevice(d)
  BY DEF Registration
<1>2. DevicesOK' /\ RegistryInv' /\ DevicesKept
  BY <1>1, BaseInv, SetsAssumption
     DEF BaseInv, TypeOK, DevicesOK, RegistryInv, RegisterDevice, SupersedeDevice,
         DeviceStatuses, DevicesKept
<1>3. UNCHANGED <<intakeVars, recip, fanVars, sendVars, faults>>
  BY <1>1 DEF RegisterDevice, SupersedeDevice
<1>4. FanoutInv' /\ TaskInv'
  BY <1>2, <1>3, BaseInv
     DEF BaseInv, TypeOK, FanoutOK, FanLocals, FanoutInv, TaskInv, fanVars, sendVars, DevicesKept
<1>5. QED
  BY <1>2, <1>3, <1>4, Frame DEF BaseInv, TypeOK, sendVars

LEMMA IntakeBase ==
  ASSUME BaseInv, NEW q \in Notifs, Intake(q)
  PROVE  BaseInv'
<1>1. /\ IntakeOK'
      /\ fanTask' \in [Notifs -> Task(FanoutMaxRetry)]
      /\ faults' \in 0..MaxFaults
  <2>1. ASSUME NEW spec \in Specs, RejectEmptyTargets(q, spec)
        PROVE  <1>1!:
    BY <2>1, BaseInv DEF BaseInv, TypeOK, IntakeOK, FanoutOK, RejectEmptyTargets, fanVars
  <2>2. ASSUME NEW key \in Keys \cup {NoKey}, NEW spec \in Specs, NEW reply \in Replies,
               InsertNotification(q, key, spec, reply)
        PROVE  <1>1!:
    <3>1. IntakeOK'
      BY <2>2, BaseInv, SetsAssumption
         DEF BaseInv, TypeOK, IntakeOK, InsertNotification, NotifStatuses, ServerError, NoRequest
    <3>2. QED
      BY <2>2, <3>1, BaseInv, CallCounts DEF BaseInv, TypeOK, FanoutOK, InsertNotification, fanVars
  <2>3. ASSUME NEW key \in Keys \cup {NoKey}, NEW spec \in Specs, NEW reply \in Replies,
               ReturnExisting(q, key, spec, reply)
        PROVE  <1>1!:
    <3>1. IntakeOK'
      BY <2>3, BaseInv DEF BaseInv, TypeOK, IntakeOK, ReturnExisting, Answered, ServerError,
                           NoRequest, GetNotificationByIdempotencyKey
    <3>2. QED
      BY <2>3, <3>1, BaseInv, CallCounts DEF BaseInv, TypeOK, FanoutOK, ReturnExisting, fanVars
  <2>4. ASSUME NEW reply \in Replies, EnqueueFanout(q, reply)
        PROVE  <1>1!:
    <3>1. NewTask \in Task(FanoutMaxRetry)
      BY BoundsAssumption DEF NewTask, Task
    <3>2. IntakeOK'
      BY <2>4, BaseInv DEF BaseInv, TypeOK, IntakeOK, EnqueueFanout, Answered, ServerError, NoRequest
    <3>3. QED
      BY <2>4, <3>1, <3>2, BaseInv, CallCounts DEF BaseInv, TypeOK, FanoutOK, EnqueueFanout
  <2>5. ASSUME ApiCrash(q)
        PROVE  <1>1!:
    <3>1. IntakeOK'
      BY <2>5, BaseInv DEF BaseInv, TypeOK, IntakeOK, ApiCrash, ServerError, NoRequest
    <3>2. QED
      BY <2>5, <3>1, BaseInv, CallCounts DEF BaseInv, TypeOK, FanoutOK, ApiCrash, fanVars
  <2>6. QED
    BY <2>1, <2>2, <2>3, <2>4, <2>5 DEF Intake
<1>2. UNCHANGED <<devices, recip, fan, sendVars>>
  BY DEF Intake, RejectEmptyTargets, InsertNotification, ReturnExisting, EnqueueFanout,
         ApiCrash, fanVars
<1>3. FanoutOK'
  BY <1>1, <1>2, BaseInv DEF BaseInv, TypeOK, FanoutOK
<1>4. QED
  BY <1>1, <1>2, <1>3, Frame DEF BaseInv, TypeOK, sendVars

\* A fanout handler that returns, whatever asynq makes of its task, leaves no
\* locals behind.
LEMMA FanoutReturnsBase ==
  ASSUME BaseInv, NEW n \in Notifs, UNCHANGED devices, RowsKept,
         \/ FanoutReturnsError(n)
         \/ FanoutReturnsNil(n)
         \/ FanoutReturns(n, NoTask)
         \/ FanoutReturns(n, Requeue(fanTask[n]))
  PROVE  FanoutOK' /\ FanoutInv'
<1>1. fanTask[n] \in Task(FanoutMaxRetry)
  BY BaseInv DEF BaseInv, TypeOK, FanoutOK
<1>2. CASE FanoutReturnsNil(n)
  <2>1. [IdleFan EXCEPT !.pc = "acking"] \in FanLocals
    BY DEF IdleFan, NoSnapshot, FanPCs, FanLocals
  <2>2. FanoutOK'
    BY <1>1, <1>2, <2>1, BaseInv, FanoutGoesType DEF BaseInv, TypeOK, FanoutReturnsNil
  <2>3. FanoutInv'
    BY <1>2, BaseInv
       DEF BaseInv, TypeOK, FanoutOK, FanLocals, FanoutInv, FanoutReturnsNil, IdleFan, RowsKept
  <2>4. QED
    BY <2>2, <2>3
<1>3. CASE ~FanoutReturnsNil(n)
  <2>1. PICK task \in Task(FanoutMaxRetry) : FanoutReturns(n, task)
    BY <1>1, <1>3, TaskOperations, BoundsAssumption DEF FanoutReturnsError
  <2>2. FanoutOK'
    BY <2>1, BaseInv, FanoutReturnsType DEF BaseInv, TypeOK
  <2>3. FanoutInv'
    BY <2>1, BaseInv
       DEF BaseInv, TypeOK, FanoutOK, FanLocals, FanoutInv, FanoutReturns, IdleFan, RowsKept
  <2>4. QED
    BY <2>2, <2>3
<1>4. QED
  BY <1>2, <1>3

\* The steps of HandleFanout before its loop.
LEMMA FanoutPrologueBase ==
  ASSUME BaseInv, NEW n \in Notifs, NEW reply \in Replies,
         \/ FanoutStart(n, reply)
         \/ FanoutResolve(n)
         \/ FanoutResolveFails(n, reply)
         \/ FanoutComplete(n, reply)
         \/ FanoutLoad(n, reply)
  PROVE  BaseInv'
<1>0. /\ UNCHANGED <<devices, req, recip, sendVars>>
      /\ RowsKept
      /\ faults' \in 0..MaxFaults
  <2>1. UNCHANGED <<devices, req, recip, sendVars>>
    BY DEF FanoutStart, FanoutResolve, FanoutResolveFails, FanoutComplete, FanoutLoad, intakeVars
  <2>2. faults' \in 0..MaxFaults
    BY BaseInv, CallCounts
       DEF BaseInv, TypeOK, FanoutStart, FanoutResolve, FanoutResolveFails, FanoutComplete,
           FanoutLoad
  <2>3. QED
    BY <2>1, <2>2 DEF RowsKept
<1>1. IntakeOK'
  <2>1. \/ UNCHANGED notif
        \/ \E status \in {"failed", "completed"} : notif' = [notif EXCEPT ![n].status = status]
    <3>1. CASE FanoutStart(n, reply) \/ FanoutResolve(n) \/ FanoutLoad(n, reply)
      BY <3>1 DEF FanoutStart, FanoutResolve, FanoutLoad, intakeVars
    <3>2. CASE FanoutResolveFails(n, reply) \/ FanoutComplete(n, reply)
      BY <3>2 DEF FanoutResolveFails, FanoutComplete, SetNotificationStatus
    <3>3. QED
      BY <3>1, <3>2
  <2>2. {"failed", "completed"} \subseteq NotifStatuses
    BY DEF NotifStatuses
  <2>3. QED
    BY <1>0, <2>1, <2>2, BaseInv DEF BaseInv, TypeOK, IntakeOK
<1>2. FanoutOK' /\ FanoutInv'
  <2>1. CASE FanoutReturnsError(n) \/ FanoutReturnsNil(n)
    BY <1>0, <2>1, BaseInv, FanoutReturnsBase
  <2>2. CASE FanoutStart(n, reply) /\ reply = "ok"
    <3>1. Activate(fanTask[n]) \in Task(FanoutMaxRetry)
      BY BaseInv, TaskOperations, BoundsAssumption DEF BaseInv, TypeOK, FanoutOK
    <3>2. FanoutOK'
      <4>1. [fan[n] EXCEPT !.pc = "started"] \in FanLocals
        BY BaseInv DEF BaseInv, TypeOK, FanoutOK, FanLocals, FanPCs
      <4>2. QED
        BY <2>2, <3>1, <4>1, BaseInv, FanoutGoesType DEF BaseInv, TypeOK, FanoutStart
    <3>3. FanoutInv'
      BY <2>2, <1>0, BaseInv DEF BaseInv, TypeOK, FanoutStart, FanoutOK, FanLocals, FanoutInv
    <3>4. QED
      BY <3>2, <3>3
  <2>3. CASE FanoutResolve(n)
    <3>1. /\ Resolve(notif[n].spec) \subseteq Devices
          /\ \A d \in Resolve(notif[n].spec) : devices[d].status # "absent"
      BY BaseInv, SetsAssumption
         DEF BaseInv, TypeOK, Resolve, GetDevicesByIDs, GetActiveDevices, IntakeOK
    <3>2. FanoutOK'
      <4>1. [fan[n] EXCEPT !.pc = "resolved", !.ids = Resolve(notif[n].spec)] \in FanLocals
        BY <3>1, BaseInv DEF BaseInv, TypeOK, FanoutOK, FanLocals, FanPCs
      <4>2. fanTask[n] \in Task(FanoutMaxRetry)
        BY BaseInv DEF BaseInv, TypeOK, FanoutOK
      <4>3. QED
        BY <2>3, <4>1, <4>2, BaseInv, FanoutGoesType DEF BaseInv, TypeOK, FanoutResolve
    <3>3. FanoutInv'
      BY <2>3, <3>1, <1>0, BaseInv DEF BaseInv, TypeOK, FanoutResolve, FanoutOK, FanLocals, FanoutInv
    <3>4. QED
      BY <3>2, <3>3
  <2>4. CASE FanoutLoad(n, reply) /\ reply = "ok"
    <3> DEFINE snap == [d \in Devices |-> IF d \in GetDevicesByIDs(fan[n].ids)
                                          THEN devices[d].provider
                                          ELSE NoOne]
    <3>1. snap \in [Devices -> Providers \cup {NoOne}]
      BY BaseInv DEF BaseInv, TypeOK, DevicesOK
    <3>2. fan' = [fan EXCEPT ![n].pc = "loop", ![n].snap = snap] /\ UNCHANGED fanTask
      BY <2>4 DEF FanoutLoad
    <3>3. FanoutOK'
      <4> HIDE DEF snap
      <4>1. [fan[n] EXCEPT !.pc = "loop", !.snap = snap] \in FanLocals
        BY <3>1, BaseInv DEF BaseInv, TypeOK, FanoutOK, FanLocals, FanPCs
      <4>2. fanTask[n] \in Task(FanoutMaxRetry)
        BY BaseInv DEF BaseInv, TypeOK, FanoutOK
      <4>3. QED
        BY <3>2, <4>1, <4>2, BaseInv, FanoutGoesType DEF BaseInv, TypeOK
    <3>4. \A d \in fan[n].ids : snap[d] \in ProviderChoices[d]
      BY BaseInv
         DEF BaseInv, TypeOK, FanoutOK, FanLocals, FanoutInv, RegistryInv, GetDevicesByIDs
    <3> HIDE DEF snap
    <3>5. FanoutInv'
      BY <3>2, <3>4, <1>0, BaseInv DEF BaseInv, TypeOK, FanoutOK, FanLocals, FanoutInv
    <3>6. QED
      BY <3>3, <3>5
  <2>5. QED
    BY <2>1, <2>2, <2>3, <2>4
       DEF FanoutStart, FanoutResolve, FanoutResolveFails, FanoutComplete, FanoutLoad
<1>3. QED
  BY <1>0, <1>1, <1>2, Frame DEF BaseInv, TypeOK, sendVars

\* The loop of HandleFanout and the writes after it.
LEMMA FanoutInsertBase ==
  ASSUME BaseInv, NEW n \in Notifs, NEW d \in Devices, NEW reply \in Replies,
         FanoutInsertRecipient(n, d, reply)
  PROVE  BaseInv'
<1>1. CreateRecipient(recip[n][d]) \in RecipStatuses \ {"absent"}
  BY BaseInv DEF BaseInv, TypeOK, RecipientsOK, CreateRecipient, RecipStatuses
<1>2. /\ UNCHANGED <<devices, intakeVars, sendVars>>
      /\ recip' = recip \/ recip' = [recip EXCEPT ![n][d] = CreateRecipient(recip[n][d])]
      /\ faults' \in 0..MaxFaults
  BY BaseInv, CallCounts DEF BaseInv, TypeOK, FanoutInsertRecipient
<1>3. RecipientsOK' /\ TaskInv' /\ RowsKept
  BY <1>1, <1>2, BaseInv, FrameRecipient DEF sendVars
<1>4. FanoutOK' /\ FanoutInv'
  <2>1. CASE reply # "ok"
    BY <1>2, <1>3, <2>1, BaseInv, FanoutReturnsBase DEF FanoutInsertRecipient
  <2>2. CASE reply = "ok"
    <3>1. [fan[n] EXCEPT !.pc = "inserted", !.cur = d] \in FanLocals
      BY BaseInv DEF BaseInv, TypeOK, FanoutOK, FanLocals, FanPCs
    <3>2. fanTask[n] \in Task(FanoutMaxRetry)
      BY BaseInv DEF BaseInv, TypeOK, FanoutOK
    <3>3. FanoutOK'
      <4>1. /\ fan' = [fan EXCEPT ![n] = [fan[n] EXCEPT !.pc = "inserted", !.cur = d]]
            /\ UNCHANGED fanTask
        BY <2>2 DEF FanoutInsertRecipient
      <4>2. QED
        BY <3>1, <3>2, <4>1, BaseInv, FanoutGoesType DEF BaseInv, TypeOK
    <3>4. recip'[n][d] # "absent"
      BY <1>1, <2>2, BaseInv
         DEF BaseInv, TypeOK, RecipientsOK, FanoutInsertRecipient, Applied
    <3>5. FanoutInv'
      BY <1>2, <1>3, <2>2, <3>4, BaseInv
         DEF BaseInv, TypeOK, FanoutOK, FanLocals, FanoutInv, FanoutInsertRecipient,
             ToEnqueue, RowsKept
    <3>6. QED
      BY <3>3, <3>5
  <2>3. QED
    BY <2>1, <2>2
<1>5. QED
  BY <1>2, <1>3, <1>4, BaseInv, Frame DEF BaseInv, TypeOK

\* A task put into an empty slot of an existing recipient, or left as it is.
LEMMA EnqueueBase ==
  ASSUME SendOK, TaskInv, UNCHANGED <<devices, recip, send, accepts>>,
         NEW n \in Notifs, NEW d \in Devices, NEW p \in Providers,
         p \in ProviderChoices[d], recip[n][d] # "absent", devices[d].status # "absent",
         NEW task \in Task(SendMaxRetry),
         task.state = "active" <=> sendTask[n][d][p].state = "active",
         sendTask' = [sendTask EXCEPT ![n][d][p] = task]
  PROVE  SendOK' /\ TaskInv'
<1>1. SendOK'
  BY DEF SendOK
<1>2. TaskInv'
  BY DEF SendOK, TaskInv
<1>3. QED
  BY <1>1, <1>2

LEMMA FanoutEnqueueBase ==
  ASSUME BaseInv, NEW n \in Notifs, NEW reply \in Replies, FanoutEnqueueSend(n, reply)
  PROVE  BaseInv'
<1> DEFINE d == fan[n].cur
           p == fan[n].snap[d]
<1>1. /\ fan[n].pc = "inserted"
      /\ d \in Devices /\ d \in fan[n].ids /\ p \in Providers /\ p \in ProviderChoices[d]
      /\ recip[n][d] # "absent" /\ devices[d].status # "absent"
  BY BaseInv, SetsAssumption
     DEF BaseInv, TypeOK, FanoutOK, FanLocals, FanoutInv, FanoutEnqueueSend
<1>2. /\ UNCHANGED <<devices, intakeVars, recip, send, accepts>>
      /\ faults' \in 0..MaxFaults
      /\ RowsKept
  BY BaseInv, CallCounts DEF BaseInv, TypeOK, FanoutEnqueueSend, RowsKept
<1>3. EnqueueOnce(sendTask[n][d][p]) \in Task(SendMaxRetry)
  BY <1>1, BaseInv, BoundsAssumption, TaskOperations DEF BaseInv, TypeOK, SendOK
<1>4. SendOK' /\ TaskInv'
  <2>1. \/ sendTask' = sendTask
        \/ sendTask' = [sendTask EXCEPT ![n][d][p] = EnqueueOnce(sendTask[n][d][p])]
    BY DEF FanoutEnqueueSend
  <2>2. EnqueueOnce(sendTask[n][d][p]).state = "active" <=> sendTask[n][d][p].state = "active"
    BY DEF EnqueueOnce, NewTask
  <2>3. CASE UNCHANGED sendTask
    BY <1>2, <2>3, BaseInv, Frame DEF sendVars
  <2>4. QED
    BY <1>1, <1>2, <1>3, <2>1, <2>2, <2>3, BaseInv, EnqueueBase DEF BaseInv, TypeOK
<1>5. FanoutOK' /\ FanoutInv'
  <2>1. CASE reply # "ok"
    BY <1>2, <2>1, BaseInv, FanoutReturnsBase DEF FanoutEnqueueSend
  <2>2. CASE reply = "ok"
    <3>1. [fan[n] EXCEPT !.pc = "loop", !.cur = NoOne, !.done = @ \cup {d}] \in FanLocals
      BY <1>1, BaseInv DEF BaseInv, TypeOK, FanoutOK, FanLocals, FanPCs
    <3>2. fanTask[n] \in Task(FanoutMaxRetry)
      BY BaseInv DEF BaseInv, TypeOK, FanoutOK
    <3>3. FanoutOK'
      <4>1. /\ fan' = [fan EXCEPT ![n] = [fan[n] EXCEPT !.pc = "loop", !.cur = NoOne,
                                                        !.done = @ \cup {d}]]
            /\ UNCHANGED fanTask
        BY <2>2 DEF FanoutEnqueueSend
      <4>2. QED
        BY <3>1, <3>2, <4>1, BaseInv, FanoutGoesType DEF BaseInv, TypeOK
    <3>4. FanoutInv'
      BY <1>1, <1>2, <2>2, BaseInv
         DEF BaseInv, TypeOK, FanoutOK, FanLocals, FanoutInv, FanoutEnqueueSend
    <3>5. QED
      BY <3>3, <3>4
  <2>3. QED
    BY <2>1, <2>2
<1>6. QED
  BY <1>2, <1>4, <1>5, BaseInv, Frame DEF BaseInv, TypeOK

LEMMA FanoutEpilogueBase ==
  ASSUME BaseInv, NEW n \in Notifs, NEW reply \in Replies,
         FanoutSetTotals(n, reply) \/ FanoutSetProcessing(n, reply) \/ FanoutAck(n)
  PROVE  BaseInv'
<1>1. /\ UNCHANGED <<devices, req, recip, sendVars>>
      /\ faults' \in 0..MaxFaults
      /\ RowsKept
  BY BaseInv, CallCounts
     DEF BaseInv, TypeOK, FanoutSetTotals, FanoutSetProcessing, FanoutAck, RowsKept, intakeVars
<1>2. IntakeOK'
  <2>1. fan[n].done \in SUBSET Devices
    BY BaseInv DEF BaseInv, TypeOK, FanoutOK, FanLocals
  <2>2. Cardinality(fan[n].done) \in Nat
    BY <2>1, SetsAssumption, FS_Subset, FS_CardinalityType
  <2>3. QED
    BY <1>1, <2>2, BaseInv
       DEF BaseInv, TypeOK, IntakeOK, NotifStatuses, FanoutSetTotals, FanoutSetProcessing,
           FanoutAck, SetNotificationStatus, SetNotificationTotals, intakeVars
<1>3. FanoutOK' /\ FanoutInv'
  <2>1. CASE FanoutReturnsError(n) \/ FanoutReturnsNil(n) \/ FanoutReturns(n, NoTask)
    BY <1>1, <2>1, BaseInv, FanoutReturnsBase
  <2>2. CASE FanoutSetTotals(n, reply) /\ reply = "ok"
    <3>1. [fan[n] EXCEPT !.pc = "totals"] \in FanLocals
      BY BaseInv DEF BaseInv, TypeOK, FanoutOK, FanLocals, FanPCs
    <3>2. fanTask[n] \in Task(FanoutMaxRetry)
      BY BaseInv DEF BaseInv, TypeOK, FanoutOK
    <3>3. FanoutOK'
      BY <2>2, <3>1, <3>2, BaseInv, FanoutGoesType DEF BaseInv, TypeOK, FanoutSetTotals
    <3>4. FanoutInv'
      BY <1>1, <2>2, BaseInv
         DEF BaseInv, TypeOK, FanoutOK, FanLocals, FanoutInv, FanoutSetTotals
    <3>5. QED
      BY <3>3, <3>4
  <2>3. QED
    BY <2>1, <2>2 DEF FanoutSetTotals, FanoutSetProcessing, FanoutAck
<1>4. QED
  BY <1>1, <1>2, <1>3, BaseInv, Frame DEF BaseInv, TypeOK, sendVars

\* A send handler that returns, whatever asynq makes of its task, is idle.
LEMMA SendReturnsBase ==
  ASSUME BaseInv, NEW n \in Notifs, NEW d \in Devices, NEW p \in Providers,
         sendTask[n][d][p].state # "none", UNCHANGED accepts, RowsKept, DevicesKept,
         \/ SendReturnsError(n, d, p)
         \/ SendThrottled(n, d, p)
         \/ SendReturns(n, d, p, NoTask)
         \/ SendReturns(n, d, p, Archive(sendTask[n][d][p]))
         \/ SendReturns(n, d, p, Requeue(sendTask[n][d][p]))
  PROVE  SendOK' /\ TaskInv'
<1>1. PICK task \in Task(SendMaxRetry) : SendReturns(n, d, p, task)
  <2>1. sendTask[n][d][p] \in Task(SendMaxRetry)
    BY BaseInv DEF BaseInv, TypeOK, SendOK
  <2>2. QED
    BY <2>1, TaskOperations, BoundsAssumption
       DEF SendReturnsError, SendThrottled, RetryThrottled
<1>2. SendOK'
  BY <1>1, BaseInv, SendReturnsType DEF BaseInv, TypeOK
<1>3. TaskInv'
  BY <1>1, BaseInv DEF BaseInv, TypeOK, SendOK, TaskInv, SendReturns, RowsKept, DevicesKept
<1>4. QED
  BY <1>2, <1>3

\* A send handler that goes on to its next statement.
LEMMA SendGoesBase ==
  ASSUME BaseInv, NEW n \in Notifs, NEW d \in Devices, NEW p \in Providers,
         send[n][d][p] # "idle", accepts' \in [Notifs -> [Devices -> Nat]],
         RowsKept, DevicesKept,
         NEW pc \in SendPCs, SendGoes(n, d, p, pc)
  PROVE  SendOK' /\ TaskInv'
<1>1. SendOK'
  BY BaseInv, SendGoesType DEF BaseInv, TypeOK
<1>2. TaskInv'
  BY BaseInv DEF BaseInv, TypeOK, SendOK, TaskInv, SendGoes, RowsKept, DevicesKept
<1>3. QED
  BY <1>1, <1>2

LEMMA SendBase ==
  ASSUME BaseInv, NEW n \in Notifs, NEW d \in Devices, NEW p \in Providers,
         SendStep(n, d, p)
  PROVE  BaseInv'
<1>0. /\ UNCHANGED <<intakeVars, fanVars>>
      /\ faults' \in 0..MaxFaults
  <2>1. UNCHANGED <<intakeVars, fanVars>>
    BY DEF SendStep, SendOverLimit, SendAccepted, SendRefused, SendProviderThrottles,
           SendAnswerLost, SendAck, SendArchive, SendStart, SendMarkSending, SendNoCredential, SendMarkSent,
           SendInvalidateDevice, SendFailInvalidToken, SendTransientError
  <2>2. faults' \in 0..MaxFaults
    BY BaseInv, CallCounts
       DEF BaseInv, TypeOK, SendStep, SendOverLimit, SendAccepted, SendRefused,
           SendProviderThrottles, SendAnswerLost, SendAck, SendArchive, SendStart, SendMarkSending,
           SendNoCredential, SendMarkSent, SendInvalidateDevice, SendFailInvalidToken,
           SendTransientError
  <2>3. QED
    BY <2>1, <2>2
<1>1. \/ recip' = recip
      \/ \E status \in RecipStatuses \ {"absent"} : recip' = [recip EXCEPT ![n][d] = status]
  BY DEF SendStep, SendOverLimit, SendAccepted, SendRefused, SendProviderThrottles,
         SendAnswerLost, SendAck, SendArchive, SendStart, SendMarkSending, SendNoCredential, SendMarkSent,
         SendInvalidateDevice, SendFailInvalidToken, SendTransientError, SetRecipient,
         RecipStatuses
<1>2. /\ RecipientsOK' /\ RowsKept
      /\ UNCHANGED <<devices, fan>> => FanoutInv'
  <2>1. RowsKept /\ RecipientsOK'
    BY <1>1, BaseInv DEF BaseInv, TypeOK, RecipientsOK, RowsKept
  <2>2. QED
    BY <2>1, BaseInv DEF BaseInv, TypeOK, FanoutOK, FanLocals, FanoutInv, RowsKept
<1>3. DevicesOK' /\ RegistryInv' /\ FanoutInv' /\ DevicesKept
  <2>1. CASE \E reply \in Replies : SendInvalidateDevice(n, d, p, reply)
    <3>1. DevicesOK'
      BY <2>1, BaseInv DEF BaseInv, TypeOK, DevicesOK, DeviceStatuses, SendInvalidateDevice
    <3>2. RegistryInv' /\ DevicesKept
      <4>1. devices' = devices \/ devices' = [devices EXCEPT ![d].status = "invalid"]
        BY <2>1 DEF SendInvalidateDevice
      <4>2. send[n][d][p] # "idle"
        BY <2>1 DEF SendInvalidateDevice
      <4>3. devices[d].provider \in ProviderChoices[d]
        BY <4>2, BaseInv DEF BaseInv, TaskInv, RegistryInv
      <4>4. QED
        BY <4>1, <4>3, BaseInv DEF BaseInv, TypeOK, DevicesOK, RegistryInv, DevicesKept
    <3>3. FanoutInv'
      BY <1>0, <1>2, <3>2, BaseInv
         DEF BaseInv, TypeOK, FanoutOK, FanLocals, FanoutInv, RowsKept, DevicesKept, fanVars
    <3>4. QED
      BY <3>1, <3>2, <3>3
  <2>2. CASE UNCHANGED devices
    BY <1>0, <1>2, <2>2, BaseInv, Frame DEF fanVars, DevicesKept
  <2>3. QED
    BY <2>1, <2>2
       DEF SendStep, SendOverLimit, SendAccepted, SendRefused, SendProviderThrottles,
           SendAnswerLost, SendAck, SendArchive, SendStart, SendMarkSending, SendNoCredential, SendMarkSent,
           SendFailInvalidToken, SendTransientError
<1>4. SendOK' /\ TaskInv'
  <2> USE DEF SendPCs, Returned
  <2>0. send[n][d][p] # "idle" => sendTask[n][d][p].state # "none"
    BY BaseInv DEF BaseInv, TaskInv
  <2>1. ASSUME NEW reply \in Replies, SendStart(n, d, p, reply)
        PROVE  SendOK' /\ TaskInv'
    <3>1. CASE SendReturnsError(n, d, p)
      BY <1>2, <1>3, <2>1, <3>1, BaseInv, SendReturnsBase DEF SendStart
    <3>2. CASE /\ \E pc \in {"checked", "acking"} : send' = [send EXCEPT ![n][d][p] = pc]
               /\ sendTask' = [sendTask EXCEPT ![n][d][p] = Activate(@)]
      <4>1. Activate(sendTask[n][d][p]) \in Task(SendMaxRetry)
        BY BaseInv, BoundsAssumption, TaskOperations DEF BaseInv, TypeOK, SendOK
      <4>2. Activate(sendTask[n][d][p]).state = "active"
        BY BaseInv DEF BaseInv, TypeOK, SendOK, Task, Activate
      <4>3. SendOK'
        BY <2>1, <3>2, <4>1, BaseInv DEF BaseInv, TypeOK, SendOK, SendStart
      <4>4. TaskInv'
        BY <1>2, <1>3, <2>1, <3>2, <4>2, BaseInv
           DEF BaseInv, TypeOK, SendOK, TaskInv, SendStart, RowsKept, DevicesKept
      <4>5. QED
        BY <4>3, <4>4
    <3>3. QED
      BY <2>1, <3>1, <3>2 DEF SendStart
  <2>2. ASSUME \/ SendOverLimit(n, d, p) \/ SendProviderThrottles(n, d, p)
               \/ SendAck(n, d, p) \/ SendArchive(n, d, p)
        PROVE  SendOK' /\ TaskInv'
    BY <1>2, <1>3, <2>0, <2>2, BaseInv, SendReturnsBase
       DEF SendOverLimit, SendProviderThrottles, SendAck, SendArchive
  <2>3. ASSUME SendAccepted(n, d, p) \/ SendAnswerLost(n, d, p)
        PROVE  SendOK' /\ TaskInv'
    <3>1. accepts' \in [Notifs -> [Devices -> Nat]]
      <4>1. accepts' = [accepts EXCEPT ![n][d] = accepts[n][d] + 1]
        BY <2>3 DEF SendAccepted, SendAnswerLost
      <4>2. accepts[n][d] + 1 \in Nat
        BY BaseInv DEF BaseInv, TypeOK, SendOK
      <4>3. QED
        BY <4>1, <4>2, BaseInv DEF BaseInv, TypeOK, SendOK
    <3>2. QED
      BY <1>2, <1>3, <2>3, <3>1, BaseInv, SendGoesBase DEF SendAccepted, SendAnswerLost
  <2>4. ASSUME NEW verdict \in {"invalid_token", "transient"}, SendRefused(n, d, p, verdict)
        PROVE  SendOK' /\ TaskInv'
    BY <1>2, <1>3, <2>4, BaseInv, SendGoesBase DEF BaseInv, TypeOK, SendOK, SendRefused
  <2>5. ASSUME NEW reply \in Replies, SendMarkSending(n, d, p, reply)
        PROVE  SendOK' /\ TaskInv'
    <3>1. accepts' \in [Notifs -> [Devices -> Nat]]
      BY <2>5, BaseInv DEF BaseInv, TypeOK, SendOK, SendMarkSending
    <3>2. QED
      BY <1>2, <1>3, <2>0, <2>5, <3>1, BaseInv, SendGoesBase, SendReturnsBase DEF SendMarkSending
  <2>6. ASSUME NEW reply \in Replies,
               \/ SendNoCredential(n, d, p, reply)
               \/ SendMarkSent(n, d, p, reply)
               \/ SendFailInvalidToken(n, d, p, reply)
               \/ SendTransientError(n, d, p, reply)
        PROVE  SendOK' /\ TaskInv'
    <3>1. send[n][d][p] # "idle" /\ UNCHANGED accepts
      BY <2>6 DEF SendNoCredential, SendMarkSent, SendFailInvalidToken, SendTransientError
    <3>2. accepts' \in [Notifs -> [Devices -> Nat]]
      BY <3>1, BaseInv DEF BaseInv, TypeOK, SendOK
    <3>3. CASE SendReturnsError(n, d, p)
      BY <1>2, <1>3, <2>0, <3>1, <3>3, BaseInv, SendReturnsBase
    <3>4. CASE SendReturnsNil(n, d, p) \/ SendSkipsRetry(n, d, p)
      BY <1>2, <1>3, <3>1, <3>2, <3>4, BaseInv, SendGoesBase DEF SendReturnsNil, SendSkipsRetry
    <3>5. QED
      BY <2>6, <3>3, <3>4
         DEF SendNoCredential, SendMarkSent, SendFailInvalidToken, SendTransientError
  <2>7. ASSUME NEW reply \in Replies, SendInvalidateDevice(n, d, p, reply)
        PROVE  SendOK' /\ TaskInv'
    <3>1. accepts' \in [Notifs -> [Devices -> Nat]]
      BY <2>7, BaseInv DEF BaseInv, TypeOK, SendOK, SendInvalidateDevice
    <3>2. QED
      BY <1>2, <1>3, <2>7, <3>1, BaseInv, SendGoesBase DEF SendInvalidateDevice
  <2>8. QED
    BY <2>1, <2>2, <2>3, <2>4, <2>5, <2>6, <2>7 DEF SendStep
<1>5. QED
  BY <1>0, <1>2, <1>3, <1>4, BaseInv, Frame DEF BaseInv, TypeOK

LEMMA WorkerStopsBase ==
  ASSUME BaseInv, WorkerStops
  PROVE  BaseInv'
<1>1. PICK n \in Notifs, kind \in {"crash", "shutdown"} :
         \/ FanoutWorkerStops(n, kind)
         \/ \E d \in Devices, p \in Providers : SendWorkerStops(n, d, p, kind)
  BY DEF WorkerStops
<1>2. /\ UNCHANGED <<devices, intakeVars, recip>>
      /\ faults' \in 0..MaxFaults
      /\ RowsKept /\ DevicesKept
  BY <1>1, BaseInv, CallCounts
     DEF BaseInv, TypeOK, FanoutWorkerStops, SendWorkerStops, RowsKept, DevicesKept
<1>3. CASE FanoutWorkerStops(n, kind)
  BY <1>2, <1>3, BaseInv, Frame, FanoutReturnsBase
     DEF BaseInv, TypeOK, FanoutWorkerStops, sendVars
<1>4. ASSUME NEW d \in Devices, NEW p \in Providers, SendWorkerStops(n, d, p, kind)
      PROVE  BaseInv'
  <2>1. SendOK' /\ TaskInv'
    BY <1>2, <1>4, BaseInv, SendReturnsBase DEF SendWorkerStops
  <2>2. UNCHANGED fanVars
    BY <1>4 DEF SendWorkerStops
  <2>3. QED
    BY <1>2, <2>1, <2>2, BaseInv, Frame DEF BaseInv, TypeOK, fanVars
<1>5. QED
  BY <1>1, <1>3, <1>4

\* One step of the system keeps the base invariant.
LEMMA NextBase == BaseInv /\ [Next]_vars => BaseInv'
<1> SUFFICES ASSUME BaseInv, [Next]_vars
             PROVE  BaseInv'
  OBVIOUS
<1>1. CASE Registration
  BY <1>1, RegistrationBase
<1>2. ASSUME NEW n \in Notifs, Intake(n)
      PROVE  BaseInv'
  BY <1>2, IntakeBase
<1>3. ASSUME NEW n \in Notifs, FanoutStep(n)
      PROVE  BaseInv'
  <2>1. "ok" \in Replies /\ TRUE \in BOOLEAN
    BY DEF Replies
  <2>2. QED
    BY <1>3, <2>1, FanoutPrologueBase, FanoutInsertBase, FanoutEnqueueBase,
       FanoutEpilogueBase DEF FanoutStep
<1>4. ASSUME NEW n \in Notifs, NEW d \in Devices, NEW p \in Providers, SendStep(n, d, p)
      PROVE  BaseInv'
  BY <1>4, SendBase
<1>5. CASE WorkerStops
  BY <1>5, WorkerStopsBase
<1>6. CASE UNCHANGED vars
  BY <1>6, Frame DEF BaseInv, TypeOK, vars, intakeVars, fanVars, sendVars
<1>7. QED
  BY <1>1, <1>2, <1>3, <1>4, <1>5, <1>6 DEF Next

\* The registry, fanout-handler and send-task invariants hold along every behaviour.
THEOREM BaseInvariant == Spec => []BaseInv
<1>1. QED
  BY InitBase, NextBase, PTL DEF Spec

\* Type correctness: every row, request, task and handler of the pipeline stays
\* within its type, `retried` within its MaxRetry, through every fault.
THEOREM TypeCorrect == Spec => []TypeOK
<1>1. BaseInv => TypeOK
  BY DEF BaseInv
<1>2. QED
  BY <1>1, BaseInvariant, PTL

(***************************************************************************)
(* One handler per recipient.  A task id is unique in its queue, and under *)
(* OneProviderPerToken all tasks of a recipient go to the same queue: while *)
(* a handler works on a recipient no other one does, so what it read of    *)
(* the row stays true until it writes it.                                  *)
(***************************************************************************)
HandlersInv == BaseInv /\ HandlerInv

\* Two tasks of one recipient are the same task.
LEMMA OneTask ==
  ASSUME OneProviderPerToken, BaseInv,
         NEW n \in Notifs, NEW d \in Devices, NEW p \in Providers, NEW q \in Providers,
         sendTask[n][d][p].state # "none", q # p
  PROVE  send[n][d][q] = "idle"
BY DEF OneProviderPerToken, BaseInv, TypeOK, SendOK, TaskInv

\* A handler that stops, or has returned, leaves the other handlers as they are.
LEMMA StopHandler ==
  ASSUME BaseInv, HandlerInv, UNCHANGED <<recip, accepts>>,
         NEW n \in Notifs, NEW d \in Devices, NEW p \in Providers,
         NEW pc \in Returned, send' = [send EXCEPT ![n][d][p] = pc]
  PROVE  HandlerInv'
BY DEF BaseInv, TypeOK, SendOK, RecipientsOK, HandlerInv, Returned

\* A handler closes its recipient, or an error leaves it open, and returns.
LEMMA CloseHandler ==
  ASSUME OneProviderPerToken, BaseInv, HandlerInv, UNCHANGED accepts,
         NEW n \in Notifs, NEW d \in Devices, NEW p \in Providers,
         send[n][d][p] # "idle",
         NEW status \in RecipStatuses, NEW reply, SetRecipient(n, d, status, reply),
         NEW pc \in Returned, send' = [send EXCEPT ![n][d][p] = pc]
  PROVE  HandlerInv'
<1>1. \A q \in Providers : q # p => send[n][d][q] = "idle"
  BY OneTask DEF BaseInv, TaskInv
<1>2. QED
  BY <1>1 DEF BaseInv, TypeOK, SendOK, RecipientsOK, HandlerInv, SetRecipient, Returned

LEMMA SendHandler ==
  ASSUME OneProviderPerToken, BaseInv, HandlerInv,
         NEW n \in Notifs, NEW d \in Devices, NEW p \in Providers, SendStep(n, d, p)
  PROVE  HandlerInv'
<1>0. /\ {"idle", "acking", "skipping"} \subseteq Returned
      /\ \A task : SendReturns(n, d, p, task) => send' = [send EXCEPT ![n][d][p] = "idle"]
      /\ SendReturnsNil(n, d, p) => send' = [send EXCEPT ![n][d][p] = "acking"]
      /\ SendSkipsRetry(n, d, p) => send' = [send EXCEPT ![n][d][p] = "skipping"]
  BY DEF Returned, SendReturns, SendReturnsNil, SendSkipsRetry, SendGoes
<1>1. ASSUME NEW reply \in Replies, SendStart(n, d, p, reply)
      PROVE  HandlerInv'
  <2>1. UNCHANGED <<recip, accepts>> /\ sendTask[n][d][p].state # "none"
    BY <1>1 DEF SendStart
  <2>2. CASE SendReturnsError(n, d, p) \/ send' = [send EXCEPT ![n][d][p] = "acking"]
    BY <1>0, <2>1, <2>2, StopHandler DEF SendReturnsError
  <2>3. CASE send' = [send EXCEPT ![n][d][p] = "checked"] /\ MayAct(recip[n][d])
    <3>1. recip[n][d] \in {"queued", "sending"}
      BY <2>1, <2>3, BaseInv
         DEF BaseInv, TypeOK, RecipientsOK, TaskInv, MayAct, Terminal, RecipStatuses
    <3>2. QED
      BY <2>1, <2>3, <3>1, BaseInv DEF BaseInv, TypeOK, SendOK, RecipientsOK, HandlerInv, Returned
  <2>4. QED
    BY <1>1, <2>2, <2>3 DEF SendStart
<1>2. ASSUME \/ SendOverLimit(n, d, p) \/ SendProviderThrottles(n, d, p)
             \/ SendAck(n, d, p) \/ SendArchive(n, d, p)
      PROVE  HandlerInv'
  BY <1>0, <1>2, StopHandler
     DEF SendOverLimit, SendProviderThrottles, SendAck, SendArchive, SendThrottled
<1>3. ASSUME NEW reply \in Replies, SendMarkSending(n, d, p, reply)
      PROVE  HandlerInv'
  <2>1. CASE reply = "ok"
    <3>1. \A q \in Providers : q # p => send[n][d][q] = "idle"
      BY <1>3, BaseInv, OneTask DEF BaseInv, TaskInv, SendMarkSending
    <3>2. /\ recip' = [recip EXCEPT ![n][d] = "sending"]
          /\ send' = [send EXCEPT ![n][d][p] = "marked"]
          /\ UNCHANGED accepts
      BY <1>3, <2>1 DEF SendMarkSending, SetRecipient, Applied, SendGoes
    <3>3. ASSUME NEW m \in Notifs, NEW e \in Devices, NEW q \in Providers
          PROVE  HandlerInv!(m, e, q)'
      <4>1. CASE m = n /\ e = d
        BY <3>1, <3>2, <4>1, BaseInv DEF BaseInv, TypeOK, SendOK, RecipientsOK, Returned
      <4>2. CASE ~(m = n /\ e = d)
        <5>1. /\ recip'[m][e] = recip[m][e]
              /\ send'[m][e][q] = send[m][e][q]
          BY <3>2, <4>2, BaseInv DEF BaseInv, TypeOK, SendOK, RecipientsOK
        <5>2. QED
          BY <3>2, <5>1 DEF HandlerInv
      <4>3. QED
        BY <4>1, <4>2
    <3>4. QED
      BY <3>3 DEF HandlerInv
  <2>2. CASE reply # "ok"
    <3>1. "sending" \in RecipStatuses
      BY DEF RecipStatuses
    <3>2. QED
      BY <1>0, <1>3, <2>2, <3>1, CloseHandler DEF SendMarkSending, SendReturnsError
  <2>3. QED
    BY <2>1, <2>2
<1>4. ASSUME NEW reply \in Replies,
             \/ SendNoCredential(n, d, p, reply)
             \/ SendMarkSent(n, d, p, reply)
             \/ SendFailInvalidToken(n, d, p, reply)
      PROVE  HandlerInv'
  <2>1. "sent" \in RecipStatuses /\ "failed" \in RecipStatuses
    BY DEF RecipStatuses
  <2>2. QED
    BY <1>0, <1>4, <2>1, CloseHandler
       DEF SendNoCredential, SendMarkSent, SendFailInvalidToken, SendReturnsError
<1>5. ASSUME NEW reply \in Replies, SendTransientError(n, d, p, reply)
      PROVE  HandlerInv'
  <2>1. "failed" \in RecipStatuses
    BY DEF RecipStatuses
  <2>2. CASE SetRecipient(n, d, "failed", reply)
    BY <1>0, <1>5, <2>1, <2>2, CloseHandler DEF SendTransientError, SendReturnsError
  <2>3. CASE UNCHANGED recip
    BY <1>0, <1>5, <2>3, StopHandler DEF SendTransientError, SendReturnsError
  <2>4. QED
    BY <1>5, <2>2, <2>3 DEF SendTransientError
<1>6. ASSUME SendAccepted(n, d, p) \/ SendAnswerLost(n, d, p)
      PROVE  HandlerInv'
  <2>1. /\ UNCHANGED recip
        /\ accepts' = [accepts EXCEPT ![n][d] = accepts[n][d] + 1]
        /\ accepts[n][d] \in Nat
    BY <1>6, BaseInv DEF BaseInv, TypeOK, SendOK, SendAccepted, SendAnswerLost
  <2>2. \A m \in Notifs, e \in Devices : accepts[m][e] > 0 => accepts'[m][e] > 0
    BY <2>1, BaseInv DEF BaseInv, TypeOK, SendOK
  <2>3. accepts'[n][d] > 0
    BY <2>1, BaseInv DEF BaseInv, TypeOK, SendOK
  <2>4. PICK pc : send' = [send EXCEPT ![n][d][p] = pc] /\ pc \in {"accepted", "transient"}
    BY <1>6 DEF SendAccepted, SendAnswerLost, SendGoes
  <2>5. send[n][d][p] = "marked"
    BY <1>6 DEF SendAccepted, SendAnswerLost
  <2>6. QED
    BY <2>1, <2>2, <2>3, <2>4, <2>5, BaseInv DEF BaseInv, TypeOK, SendOK, HandlerInv, Returned
<1>7. ASSUME \/ \E verdict \in {"invalid_token", "transient"} : SendRefused(n, d, p, verdict)
             \/ \E reply \in Replies : SendInvalidateDevice(n, d, p, reply)
      PROVE  HandlerInv'
  <2>1. PICK pc : /\ send' = [send EXCEPT ![n][d][p] = pc]
                  /\ pc \in {"invalid_token", "transient", "invalidated"}
    BY <1>7 DEF SendRefused, SendInvalidateDevice, SendGoes
  <2>2. send[n][d][p] \notin Returned \cup {"checked"} /\ UNCHANGED <<recip, accepts>>
    BY <1>7 DEF SendRefused, SendInvalidateDevice, Returned
  <2>3. QED
    BY <2>1, <2>2, BaseInv DEF BaseInv, TypeOK, SendOK, HandlerInv, Returned
<1>8. QED
  BY <1>1, <1>2, <1>3, <1>4, <1>5, <1>6, <1>7 DEF SendStep

LEMMA NextHandlers ==
  OneProviderPerToken => (HandlersInv /\ [Next]_vars => HandlersInv')
<1> SUFFICES ASSUME OneProviderPerToken, BaseInv, HandlerInv, [Next]_vars
             PROVE  HandlerInv'
  BY NextBase DEF HandlersInv
<1>1. CASE UNCHANGED <<recip, send, accepts>>
  BY <1>1 DEF HandlerInv
<1>2. ASSUME NEW n \in Notifs, NEW d \in Devices, NEW reply \in Replies,
             FanoutInsertRecipient(n, d, reply)
      PROVE  HandlerInv'
  <2>1. \A m \in Notifs, e \in Devices : recip[m][e] # "absent" => recip'[m][e] = recip[m][e]
    BY <1>2, BaseInv DEF BaseInv, TypeOK, RecipientsOK, FanoutInsertRecipient, CreateRecipient
  <2>2. UNCHANGED <<send, accepts>>
    BY <1>2 DEF FanoutInsertRecipient, sendVars
  <2>3. QED
    BY <2>1, <2>2, BaseInv DEF BaseInv, TypeOK, RecipientsOK, HandlerInv
<1>3. ASSUME NEW n \in Notifs, NEW d \in Devices, NEW p \in Providers, SendStep(n, d, p)
      PROVE  HandlerInv'
  BY <1>3, SendHandler
<1>4. ASSUME NEW n \in Notifs, NEW d \in Devices, NEW p \in Providers,
             NEW kind \in {"crash", "shutdown"}, SendWorkerStops(n, d, p, kind)
      PROVE  HandlerInv'
  BY <1>4, StopHandler DEF SendWorkerStops, SendReturnsError, SendReturns, Returned
<1>5. CASE Registration
  BY <1>1, <1>5 DEF Registration, RegisterDevice, SupersedeDevice, sendVars
<1>6. ASSUME NEW n \in Notifs, Intake(n)
      PROVE  HandlerInv'
  BY <1>1, <1>6 DEF Intake, RejectEmptyTargets, InsertNotification, ReturnExisting,
                    EnqueueFanout, ApiCrash, sendVars
<1>7. ASSUME NEW n \in Notifs, FanoutStep(n)
      PROVE  HandlerInv'
  BY <1>1, <1>2, <1>7
     DEF FanoutStep, FanoutStart, FanoutResolve, FanoutResolveFails, FanoutComplete,
         FanoutLoad, FanoutEnqueueSend, FanoutSetTotals, FanoutSetProcessing, FanoutAck, sendVars
<1>8. CASE WorkerStops
  BY <1>1, <1>4, <1>8 DEF WorkerStops, FanoutWorkerStops, sendVars
<1>9. CASE UNCHANGED vars
  BY <1>1, <1>9 DEF vars
<1>10. QED
  BY <1>3, <1>5, <1>6, <1>7, <1>8, <1>9 DEF Next

\* While HandleSend works on a recipient its row stays as the handler left it:
\* no other handler, no re-enqueued or recovered task, touches it.
THEOREM HandlersAlone ==
  ASSUME OneProviderPerToken
  PROVE  Spec => []HandlerInv
<1>1. Init => HandlersInv
  BY InitBase DEF HandlersInv, HandlerInv, Init, Returned
<1>2. HandlersInv /\ [Next]_vars => HandlersInv'
  BY NextHandlers
<1>3. HandlersInv => HandlerInv
  BY DEF HandlersInv
<1>4. QED
  BY <1>1, <1>2, <1>3, PTL DEF Spec

(***************************************************************************)
(* The pipeline implements the delivery contract.                          *)
(***************************************************************************)
\* A write of a send handler to its recipient is the contract's move.
LEMMA SetRecipientMove ==
  ASSUME NEW n \in Notifs, NEW d \in Devices, NEW status, NEW reply, NEW from,
         SetRecipient(n, d, status, reply), recip[n][d] \in from, UNCHANGED accepts
  PROVE  Contract!Move(n, d, from, status) \/ UNCHANGED <<recip, accepts>>
BY DEF SetRecipient, Contract!Move

LEMMA SendContract ==
  ASSUME BaseInv, HandlerInv,
         NEW n \in Notifs, NEW d \in Devices, NEW p \in Providers, SendStep(n, d, p)
  PROVE  Contract!Next \/ UNCHANGED <<recip, accepts>>
<1>1. CASE UNCHANGED <<recip, accepts>>
  BY <1>1
<1>2. ASSUME NEW reply \in Replies, SendMarkSending(n, d, p, reply)
      PROVE  Contract!Attempt(n, d) \/ UNCHANGED <<recip, accepts>>
  BY <1>2, SetRecipientMove DEF HandlerInv, Returned, SendMarkSending, Contract!Attempt, Contract!Open
<1>3. ASSUME NEW reply \in Replies,
             \/ SendNoCredential(n, d, p, reply)
             \/ SendFailInvalidToken(n, d, p, reply)
             \/ SendTransientError(n, d, p, reply)
      PROVE  Contract!RecordFailed(n, d) \/ UNCHANGED <<recip, accepts>>
  <2>1. recip[n][d] \in {"sending"} /\ UNCHANGED accepts
    BY <1>3 DEF HandlerInv, Returned, SendNoCredential, SendFailInvalidToken, SendTransientError
  <2>2. SetRecipient(n, d, "failed", reply) \/ UNCHANGED recip
    BY <1>3 DEF SendNoCredential, SendFailInvalidToken, SendTransientError
  <2>3. QED
    BY <2>1, <2>2, SetRecipientMove DEF Contract!RecordFailed
<1>4. ASSUME NEW reply \in Replies, SendMarkSent(n, d, p, reply)
      PROVE  Contract!RecordSent(n, d) \/ UNCHANGED <<recip, accepts>>
  <2>1. recip[n][d] \in {"sending"} /\ UNCHANGED accepts /\ accepts[n][d] > 0
    BY <1>4 DEF HandlerInv, Returned, SendMarkSent
  <2>2. QED
    BY <1>4, <2>1, SetRecipientMove DEF SendMarkSent, Contract!RecordSent
<1>5. ASSUME SendAccepted(n, d, p) \/ SendAnswerLost(n, d, p)
      PROVE  Contract!Accept(n, d)
  BY <1>5 DEF HandlerInv, Returned, SendAccepted, SendAnswerLost, Contract!Accept
<1>6. QED
  BY <1>1, <1>2, <1>3, <1>4, <1>5
     DEF SendStep, SendOverLimit, SendAck, SendArchive, SendRefused, SendProviderThrottles, SendStart,
         SendInvalidateDevice, Contract!Next

LEMMA NextContract ==
  OneProviderPerToken =>
    (HandlersInv /\ [Next]_vars => [Contract!Next]_(Contract!vars))
<1> SUFFICES ASSUME BaseInv, HandlerInv, [Next]_vars
             PROVE  Contract!Next \/ UNCHANGED <<recip, accepts>>
  BY DEF HandlersInv, Contract!vars
<1>1. ASSUME NEW n \in Notifs, NEW d \in Devices, NEW reply \in Replies,
             FanoutInsertRecipient(n, d, reply)
      PROVE  Contract!Create(n, d) \/ UNCHANGED <<recip, accepts>>
  <2>1. UNCHANGED accepts
    BY <1>1 DEF FanoutInsertRecipient, sendVars
  <2>2. CASE recip[n][d] = "absent"
    BY <1>1, <2>1, <2>2
       DEF FanoutInsertRecipient, CreateRecipient, Contract!Create, Contract!Move
  <2>3. CASE recip[n][d] # "absent"
    BY <1>1, <2>1, <2>3, BaseInv
       DEF BaseInv, TypeOK, RecipientsOK, FanoutInsertRecipient, CreateRecipient
  <2>4. QED
    BY <2>2, <2>3
<1>2. ASSUME NEW n \in Notifs, FanoutStep(n)
      PROVE  Contract!Next \/ UNCHANGED <<recip, accepts>>
  BY <1>1, <1>2
     DEF FanoutStep, FanoutStart, FanoutResolve, FanoutResolveFails, FanoutComplete,
         FanoutLoad, FanoutEnqueueSend, FanoutSetTotals, FanoutSetProcessing, FanoutAck, sendVars,
         Contract!Next
<1>3. ASSUME NEW n \in Notifs, NEW d \in Devices, NEW p \in Providers, SendStep(n, d, p)
      PROVE  Contract!Next \/ UNCHANGED <<recip, accepts>>
  BY <1>3, SendContract
<1>4. CASE Registration
  BY <1>4 DEF Registration, RegisterDevice, SupersedeDevice, sendVars
<1>5. ASSUME NEW n \in Notifs, Intake(n)
      PROVE  UNCHANGED <<recip, accepts>>
  BY <1>5 DEF Intake, RejectEmptyTargets, InsertNotification, ReturnExisting,
              EnqueueFanout, ApiCrash, sendVars
<1>6. CASE WorkerStops
  BY <1>6 DEF WorkerStops, FanoutWorkerStops, SendWorkerStops, sendVars
<1>7. CASE UNCHANGED vars
  BY <1>7 DEF vars
<1>8. QED
  BY <1>2, <1>3, <1>4, <1>5, <1>6, <1>7 DEF Next

\* Refinement: if a token belongs to one push network, every behaviour of the
\* pipeline is one of the delivery contract.
THEOREM Implements ==
  ASSUME OneProviderPerToken
  PROVE  Spec => ImplementsContract
<1>1. Init => HandlersInv /\ Contract!Init
  BY InitBase DEF HandlersInv, HandlerInv, Init, Returned, Contract!Init
<1>2. HandlersInv /\ [Next]_vars => HandlersInv'
  BY NextHandlers
<1>3. HandlersInv /\ [Next]_vars => [Contract!Next]_(Contract!vars)
  BY NextContract
<1>4. QED
  BY <1>1, <1>2, <1>3, PTL DEF Spec, ImplementsContract, Contract!Spec

\* terminalRecipientStatuses: a recipient that is sent or failed is never
\* written again, if a token belongs to one push network.
THEOREM TerminalStaysTheorem ==
  ASSUME OneProviderPerToken
  PROVE  Spec => TerminalStays
<1> DEFINE Stays == \A n \in Notifs, d \in Devices :
                      recip[n][d] \in Terminal => recip'[n][d] = recip[n][d]
<1>1. Init => HandlersInv
  BY InitBase DEF HandlersInv, HandlerInv, Init, Returned
<1>2. HandlersInv /\ [Next]_vars => HandlersInv'
  BY NextHandlers
<1>3. HandlersInv /\ [Next]_vars => [Stays]_vars
  <2>1. SUFFICES ASSUME HandlersInv, [Next]_vars
                 PROVE  Stays
    OBVIOUS
  <2>2. Contract!Next \/ UNCHANGED <<recip, accepts>>
    BY <2>1, NextContract DEF Contract!vars
  <2>3. CASE Contract!Next
    <3>1. PICK n \in Notifs, d \in Devices :
             \/ UNCHANGED recip
             \/ /\ recip[n][d] \notin Terminal
                /\ \E status : recip' = [recip EXCEPT ![n][d] = status]
      BY <2>3 DEF Contract!Next, Contract!Create, Contract!Attempt, Contract!Accept,
                  Contract!RecordSent, Contract!RecordFailed, Contract!Move, Contract!Open,
                  Terminal
    <3>2. QED
      BY <2>1, <3>1 DEF HandlersInv, BaseInv, TypeOK, RecipientsOK
  <2>4. QED
    BY <2>2, <2>3
<1>4. QED
  BY <1>1, <1>2, <1>3, PTL DEF Spec, TerminalStays

(***************************************************************************)
(* What the statuses say about the pushes: until the first fault, exactly  *)
(* the sent recipients and those with an acceptance about to be recorded   *)
(* were accepted, once.                                                    *)
(***************************************************************************)
Recording(n, d) == \E p \in Providers : send[n][d][p] = "accepted"

OutcomeInv ==
  \A n \in Notifs, d \in Devices :
    /\ recip[n][d] = "sent" => accepts[n][d] > 0
    /\ faults = 0 =>
         accepts[n][d] = IF recip[n][d] = "sent" \/ Recording(n, d) THEN 1 ELSE 0

OutcomesInv == HandlersInv /\ OutcomeInv

\* Faults are only counted up, and a call that fails counts.
LEMMA FaultsGrow ==
  ASSUME faults \in 0..MaxFaults, NEW kind, NEW reply
  PROVE  /\ Fault(kind) => faults' # 0
         /\ Call(kind, reply) /\ faults' = 0 => faults = 0 /\ reply = "ok"
BY BoundsAssumption DEF Fault, Call

\* A step that neither accepts nor ends an acceptance, and records nothing as sent.
LEMMA OutcomeFrame ==
  ASSUME OutcomeInv, UNCHANGED accepts, faults' = 0 => faults = 0,
         \A n \in Notifs, d \in Devices :
           /\ recip'[n][d] = "sent" <=> recip[n][d] = "sent"
           /\ faults' = 0 => (Recording(n, d)' <=> Recording(n, d))
  PROVE  OutcomeInv'
BY DEF OutcomeInv

\* The same for a step of one send handler that writes to its recipient.
LEMMA SendOutcomeFrame ==
  ASSUME BaseInv, OutcomeInv, UNCHANGED accepts, faults' = 0 => faults = 0,
         NEW n \in Notifs, NEW d \in Devices, NEW p \in Providers, NEW pc,
         send' = [send EXCEPT ![n][d][p] = pc],
         faults' = 0 => (pc = "accepted" <=> send[n][d][p] = "accepted"),
         \/ UNCHANGED recip
         \/ /\ recip[n][d] # "sent"
            /\ \E status : status # "sent" /\ recip' = [recip EXCEPT ![n][d] = status]
  PROVE  OutcomeInv'
<1>1. \A m \in Notifs, e \in Devices : recip'[m][e] = "sent" <=> recip[m][e] = "sent"
  BY DEF BaseInv, TypeOK, RecipientsOK
<1>2. ASSUME faults' = 0, NEW m \in Notifs, NEW e \in Devices
      PROVE  Recording(m, e)' <=> Recording(m, e)
  <2>1. send \in [Notifs -> [Devices -> [Providers -> SendPCs]]]
    BY DEF BaseInv, TypeOK, SendOK
  <2>2. \A q \in Providers : send'[m][e][q] = "accepted" <=> send[m][e][q] = "accepted"
    <3>1. TAKE q \in Providers
    <3>2. CASE m = n /\ e = d /\ q = p
      BY <1>2, <2>1, <3>2
    <3>3. CASE ~(m = n /\ e = d /\ q = p)
      BY <2>1, <3>3
    <3>4. QED
      BY <3>2, <3>3
  <2>3. QED
    BY <2>2 DEF Recording
<1>3. QED
  BY <1>1, <1>2, OutcomeFrame

LEMMA SendOutcome ==
  ASSUME OneProviderPerToken, HandlersInv, OutcomeInv,
         NEW n \in Notifs, NEW d \in Devices, NEW p \in Providers, SendStep(n, d, p)
  PROVE  OutcomeInv'
<1> USE DEF HandlersInv
<1>0. faults \in 0..MaxFaults
  BY DEF BaseInv, TypeOK
<1>1. ASSUME NEW reply \in Replies, SendStart(n, d, p, reply)
      PROVE  OutcomeInv'
  <2>1. PICK pc : send' = [send EXCEPT ![n][d][p] = pc] /\ pc # "accepted"
    BY <1>1 DEF SendStart, SendReturnsError, SendReturns
  <2>2. send[n][d][p] # "accepted" /\ UNCHANGED <<recip, accepts>>
    BY <1>1 DEF SendStart, BaseInv, TaskInv
  <2>3. QED
    BY <1>0, <1>1, <2>1, <2>2, FaultsGrow, SendOutcomeFrame DEF SendStart
<1>2. ASSUME \/ SendOverLimit(n, d, p)
             \/ SendProviderThrottles(n, d, p)
             \/ SendAck(n, d, p) \/ SendArchive(n, d, p)
             \/ \E verdict \in {"invalid_token", "transient"} : SendRefused(n, d, p, verdict)
      PROVE  OutcomeInv'
  <2>1. PICK pc : send' = [send EXCEPT ![n][d][p] = pc] /\ pc # "accepted"
    BY <1>2 DEF SendOverLimit, SendProviderThrottles, SendAck, SendArchive, SendRefused,
                SendThrottled, SendReturns, SendGoes
  <2>2. send[n][d][p] # "accepted" /\ UNCHANGED <<recip, accepts, faults>>
    BY <1>2 DEF SendOverLimit, SendProviderThrottles, SendAck, SendArchive, SendRefused
  <2>3. QED
    BY <2>1, <2>2, SendOutcomeFrame
<1>3. ASSUME NEW reply \in Replies,
             \/ SendMarkSending(n, d, p, reply)
             \/ SendNoCredential(n, d, p, reply)
             \/ SendInvalidateDevice(n, d, p, reply)
             \/ SendFailInvalidToken(n, d, p, reply)
             \/ SendTransientError(n, d, p, reply)
      PROVE  OutcomeInv'
  <2>1. PICK pc : send' = [send EXCEPT ![n][d][p] = pc] /\ pc # "accepted"
    BY <1>3 DEF SendMarkSending, SendNoCredential, SendInvalidateDevice, SendFailInvalidToken,
                SendTransientError, SendSkipsRetry, SendReturnsNil, SendReturnsError,
                SendReturns, SendGoes
  <2>2. send[n][d][p] \notin Returned \cup {"accepted"} /\ UNCHANGED accepts
    BY <1>3 DEF SendMarkSending, SendNoCredential, SendInvalidateDevice, SendFailInvalidToken,
                SendTransientError, Returned
  <2>3. recip[n][d] # "sent"
    BY <2>2 DEF HandlerInv
  <2>4. \/ UNCHANGED recip
        \/ \E status : status # "sent" /\ recip' = [recip EXCEPT ![n][d] = status]
    BY <1>3 DEF SendMarkSending, SendNoCredential, SendInvalidateDevice, SendFailInvalidToken,
                SendTransientError, SetRecipient
  <2>5. faults' = 0 => faults = 0
    BY <1>0, <1>3, FaultsGrow
       DEF SendMarkSending, SendNoCredential, SendInvalidateDevice, SendFailInvalidToken,
           SendTransientError
  <2>6. QED
    BY <2>1, <2>2, <2>3, <2>4, <2>5, SendOutcomeFrame
<1>4. ASSUME SendAccepted(n, d, p) \/ SendAnswerLost(n, d, p)
      PROVE  OutcomeInv'
  <2>1. /\ UNCHANGED recip
        /\ accepts' = [accepts EXCEPT ![n][d] = accepts[n][d] + 1]
        /\ accepts \in [Notifs -> [Devices -> Nat]]
        /\ send[n][d][p] = "marked"
    BY <1>4 DEF SendAccepted, SendAnswerLost, BaseInv, TypeOK, SendOK
  <2>2. recip[n][d] = "sending"
    BY <2>1 DEF HandlerInv, Returned
  <2>3. CASE faults' # 0
    BY <2>1, <2>3 DEF OutcomeInv
  <2>4. CASE faults' = 0
    <3>1. SendAccepted(n, d, p) /\ faults = 0
      BY <1>0, <1>4, <2>4, FaultsGrow DEF SendAnswerLost, SendAccepted
    <3>2. send' = [send EXCEPT ![n][d][p] = "accepted"]
      BY <3>1 DEF SendAccepted, SendGoes
    <3>3. \A q \in Providers : q # p => send[n][d][q] = "idle"
      BY <2>1, OneTask DEF BaseInv, TaskInv
    <3>4. ~ Recording(n, d)
      BY <2>1, <3>3 DEF Recording
    <3>5. accepts[n][d] = 0
      BY <2>2, <3>1, <3>4 DEF OutcomeInv
    <3>6. Recording(n, d)'
      BY <3>2 DEF Recording, BaseInv, TypeOK, SendOK
    <3>7. ASSUME NEW m \in Notifs, NEW e \in Devices, ~(m = n /\ e = d)
          PROVE  accepts'[m][e] = accepts[m][e] /\ (Recording(m, e)' <=> Recording(m, e))
      BY <2>1, <3>2, <3>7 DEF Recording, BaseInv, TypeOK, SendOK
    <3>8. accepts'[n][d] = 1
      BY <2>1, <3>5
    <3>9. QED
      BY <2>1, <2>2, <3>1, <3>6, <3>7, <3>8 DEF OutcomeInv
  <2>5. QED
    BY <2>3, <2>4
<1>5. ASSUME NEW reply \in Replies, SendMarkSent(n, d, p, reply)
      PROVE  OutcomeInv'
  <2>1. /\ send[n][d][p] = "accepted" /\ UNCHANGED accepts
        /\ recip' = recip \/ recip' = [recip EXCEPT ![n][d] = "sent"]
        /\ accepts[n][d] > 0 /\ recip[n][d] = "sending"
    BY <1>5 DEF SendMarkSent, SetRecipient, HandlerInv, Returned
  <2>2. \A m \in Notifs, e \in Devices : recip'[m][e] = "sent" => accepts'[m][e] > 0
    BY <2>1 DEF OutcomeInv, BaseInv, TypeOK, RecipientsOK
  <2>3. CASE faults' # 0
    BY <2>2, <2>3 DEF OutcomeInv
  <2>4. CASE faults' = 0
    <3>1. /\ faults = 0 /\ reply = "ok"
          /\ recip' = [recip EXCEPT ![n][d] = "sent"]
          /\ send' = [send EXCEPT ![n][d][p] = "acking"]
      BY <1>0, <1>5, <2>4, FaultsGrow
         DEF SendMarkSent, SetRecipient, Applied, SendReturnsNil, SendGoes
    <3>2. accepts[n][d] = 1
      BY <2>1, <3>1 DEF OutcomeInv, Recording
    <3>3. ASSUME NEW m \in Notifs, NEW e \in Devices, ~(m = n /\ e = d)
          PROVE  recip'[m][e] = recip[m][e] /\ (Recording(m, e)' <=> Recording(m, e))
      BY <3>1, <3>3 DEF Recording, BaseInv, TypeOK, SendOK, RecipientsOK
    <3>4. recip'[n][d] = "sent"
      BY <3>1 DEF BaseInv, TypeOK, RecipientsOK
    <3>5. QED
      BY <2>1, <2>2, <3>1, <3>2, <3>3, <3>4 DEF OutcomeInv
  <2>5. QED
    BY <2>3, <2>4
<1>6. QED
  BY <1>1, <1>2, <1>3, <1>4, <1>5 DEF SendStep

LEMMA NextOutcomes ==
  OneProviderPerToken => (OutcomesInv /\ [Next]_vars => OutcomesInv')
<1> SUFFICES ASSUME OneProviderPerToken, HandlersInv, OutcomeInv, [Next]_vars
             PROVE  OutcomeInv'
  BY NextHandlers DEF OutcomesInv
<1> USE DEF HandlersInv
<1>0. faults \in 0..MaxFaults
  BY DEF BaseInv, TypeOK
<1>1. CASE UNCHANGED <<recip, send, accepts>> /\ (faults' = 0 => faults = 0)
  BY <1>1, OutcomeFrame DEF Recording
<1>2. ASSUME NEW n \in Notifs, NEW d \in Devices, NEW reply \in Replies,
             FanoutInsertRecipient(n, d, reply)
      PROVE  OutcomeInv'
  <2>1. \A m \in Notifs, e \in Devices : recip'[m][e] = "sent" <=> recip[m][e] = "sent"
    BY <1>2 DEF BaseInv, TypeOK, RecipientsOK, FanoutInsertRecipient, CreateRecipient
  <2>2. UNCHANGED <<send, accepts>> /\ (faults' = 0 => faults = 0)
    BY <1>0, <1>2, FaultsGrow DEF FanoutInsertRecipient, sendVars
  <2>3. QED
    BY <2>1, <2>2, OutcomeFrame DEF Recording
<1>3. ASSUME NEW n \in Notifs, NEW d \in Devices, NEW p \in Providers, SendStep(n, d, p)
      PROVE  OutcomeInv'
  BY <1>3, SendOutcome
<1>4. ASSUME NEW n \in Notifs, NEW d \in Devices, NEW p \in Providers,
             NEW kind \in {"crash", "shutdown"}, SendWorkerStops(n, d, p, kind)
      PROVE  OutcomeInv'
  <2>1. faults' # 0 /\ UNCHANGED <<recip, accepts>>
    BY <1>0, <1>4, FaultsGrow DEF SendWorkerStops
  <2>2. QED
    BY <2>1 DEF OutcomeInv
<1>5. CASE Registration
  BY <1>1, <1>5 DEF Registration, RegisterDevice, SupersedeDevice, sendVars
<1>6. ASSUME NEW n \in Notifs, Intake(n)
      PROVE  OutcomeInv'
  BY <1>0, <1>1, <1>6, FaultsGrow
     DEF Intake, RejectEmptyTargets, InsertNotification, ReturnExisting,
         EnqueueFanout, ApiCrash, sendVars
<1>7. ASSUME NEW n \in Notifs, FanoutStep(n)
      PROVE  OutcomeInv'
  BY <1>0, <1>1, <1>2, <1>7, FaultsGrow
     DEF FanoutStep, FanoutStart, FanoutResolve, FanoutResolveFails, FanoutComplete,
         FanoutLoad, FanoutEnqueueSend, FanoutSetTotals, FanoutSetProcessing, FanoutAck, sendVars
<1>8. CASE WorkerStops
  BY <1>0, <1>1, <1>4, <1>8, FaultsGrow DEF WorkerStops, FanoutWorkerStops, sendVars
<1>9. CASE UNCHANGED vars
  BY <1>1, <1>9 DEF vars
<1>10. QED
  BY <1>3, <1>5, <1>6, <1>7, <1>8, <1>9 DEF Next

\* At-least-once delivery, made precise: a sent recipient was accepted by its
\* provider, and before the first fault no recipient is pushed to twice and no
\* failed or merely queued one was pushed to at all.
THEOREM OutcomesAreTruthful ==
  ASSUME OneProviderPerToken
  PROVE  Spec => []OutcomeTruthful
<1>1. Init => OutcomesInv
  <2>1. Init => HandlersInv
    BY InitBase DEF HandlersInv, HandlerInv, Init, Returned
  <2>2. Init => OutcomeInv
    BY DEF Init, OutcomeInv, Recording
  <2>3. QED
    BY <2>1, <2>2 DEF OutcomesInv
<1>2. OutcomesInv /\ [Next]_vars => OutcomesInv'
  BY NextOutcomes
<1>3. OutcomesInv => OutcomeTruthful
  <2>1. SUFFICES ASSUME OutcomesInv, NEW n \in Notifs, NEW d \in Devices
                 PROVE  OutcomeTruthful!(n, d)
    BY DEF OutcomeTruthful
  <2>2. Recording(n, d) => recip[n][d] = "sending"
    BY <2>1 DEF OutcomesInv, HandlersInv, HandlerInv, Recording, Returned
  <2>3. QED
    BY <2>1, <2>2 DEF OutcomesInv, OutcomeInv
<1>4. QED
  BY <1>1, <1>2, <1>3, PTL DEF Spec

(***************************************************************************)
(* Idempotency keys.  A row belongs to the request whose insert returned   *)
(* it, so only that request gets as far as enqueueing the row's fanout.    *)
(***************************************************************************)
\* Requests that share a key share one row.
OneRowPerKey ==
  \A q, r \in Notifs :
    /\ notif[q].status # "absent" /\ notif[r].status # "absent"
    /\ notif[q].key = notif[r].key /\ notif[q].key # NoKey
    => q = r

\* How far the request of n, its row, its fanout task and the task's handler got:
\* each exists only when the one before it does.
StagesInv(n) ==
  /\ \/ req[n].pc \in {"idle", "rejected"}
     \/ req[n].pc = "accepted" /\ req[n].ref # n
     => notif[n].status = "absent"
  /\ req[n].pc = "inserted" => notif[n].status # "absent" /\ fanTask[n].state = "none"
  /\ fanTask[n].state # "none" => notif[n].status # "absent"
  /\ fanTask[n].state = "none" => fanTask[n] = NoTask
  /\ fan[n].pc # "idle" => fanTask[n].state = "active"

\* A request that inserted a row did so under its key, and a 202 names such a row.
AnswerInv(q) ==
  /\ req[q].pc = "inserted" => notif[q].key = req[q].key
  /\ req[q].pc = "accepted" =>
       /\ req[q].ref \in Notifs
       /\ notif[req[q].ref].status # "absent" /\ notif[req[q].ref].key = req[q].key
       /\ req[q].key = NoKey => req[q].ref = q

KeysInv == /\ BaseInv
           /\ OneRowPerKey
           /\ \A n \in Notifs : StagesInv(n) /\ AnswerInv(n)

\* A fanout handler that returns an error or is stopped keeps its task.
LEMMA FanoutReturnsStages ==
  ASSUME BaseInv, NEW n \in Notifs,
         \/ FanoutReturnsError(n)
         \/ FanoutReturns(n, NoTask)
         \/ FanoutReturns(n, Requeue(fanTask[n]))
  PROVE  /\ fan' = [fan EXCEPT ![n] = IdleFan] /\ fan'[n] = IdleFan
         /\ fanTask'[n].state = "none" => FanoutReturns(n, NoTask)
         /\ FanoutReturns(n, NoTask) => fanTask'[n] = NoTask
         /\ \A m \in Notifs : m # n => fan'[m] = fan[m] /\ fanTask'[m] = fanTask[m]
<1>1. fanTask[n] \in Task(FanoutMaxRetry) /\ fanTask \in [Notifs -> Task(FanoutMaxRetry)]
      /\ fan \in [Notifs -> FanLocals]
  BY DEF BaseInv, TypeOK, FanoutOK
<1>2. /\ Requeue(fanTask[n]).state # "none"
      /\ Retry(fanTask[n], FanoutMaxRetry).state # "none"
  BY <1>1 DEF Task, Requeue, Retry, Archive
<1>3. PICK t : FanoutReturns(n, t) /\ (t = NoTask \/ t.state # "none")
  BY <1>2 DEF FanoutReturnsError
<1>4. /\ fan' = [fan EXCEPT ![n] = IdleFan] /\ fanTask' = [fanTask EXCEPT ![n] = t]
  BY <1>3 DEF FanoutReturns
<1>5. FanoutReturns(n, NoTask) => fanTask'[n] = NoTask
  BY <1>1 DEF FanoutReturns
<1>6. QED
  BY <1>1, <1>3, <1>4, <1>5

\* What every step of a fanout handler does to the stages of its notification,
\* and that it leaves the other notifications alone.
FanoutMoves(n) ==
  /\ UNCHANGED req
  /\ fanTask[n].state \in {"queued", "active"}
  /\ fanTask'[n].state = "none" => fanTask'[n] = NoTask
  /\ fan'[n].pc # "idle" => fanTask'[n].state = "active"
  /\ notif'[n].status = "absent" => notif[n].status = "absent"
  /\ notif'[n].key = notif[n].key /\ notif'[n].spec = notif[n].spec
  /\ \A m \in Notifs : m # n =>
       fan'[m] = fan[m] /\ fanTask'[m] = fanTask[m] /\ notif'[m] = notif[m]

LEMMA FanoutMovesLemma ==
  ASSUME BaseInv, NEW n \in Notifs, StagesInv(n),
         FanoutStep(n) \/ \E kind \in {"crash", "shutdown"} : FanoutWorkerStops(n, kind)
  PROVE  FanoutMoves(n)
<1>1. /\ UNCHANGED req
      /\ fanTask[n].state \in {"queued", "active"}
  BY DEF FanoutStep, FanoutStart, FanoutResolve, FanoutResolveFails, FanoutComplete,
         FanoutLoad, FanoutInsertRecipient, FanoutEnqueueSend, FanoutSetTotals,
         FanoutSetProcessing, FanoutAck, FanoutWorkerStops, StagesInv, intakeVars
<1>2. /\ notif'[n].status = "absent" => notif[n].status = "absent"
      /\ notif'[n].key = notif[n].key /\ notif'[n].spec = notif[n].spec
      /\ \A m \in Notifs : m # n => notif'[m] = notif[m]
  <2>1. \/ UNCHANGED notif
        \/ \E status \in {"failed", "completed", "processing"} :
             notif' = [notif EXCEPT ![n].status = status]
        \/ \E total : notif' = [notif EXCEPT ![n].total = total]
    BY DEF FanoutStep, FanoutStart, FanoutResolve, FanoutResolveFails, FanoutComplete,
           FanoutLoad, FanoutInsertRecipient, FanoutEnqueueSend, FanoutSetTotals,
           FanoutSetProcessing, FanoutAck, FanoutWorkerStops, intakeVars,
           SetNotificationStatus, SetNotificationTotals
  <2>2. notif \in [Notifs -> [status : NotifStatuses, key : Keys \cup {NoKey},
                              spec : Specs \cup {[kind |-> "none", devs |-> {}]}, total : Nat]]
    BY DEF BaseInv, TypeOK, IntakeOK
  <2>3. QED
    BY <2>1, <2>2
<1>3. /\ fanTask'[n].state = "none" => fanTask'[n] = NoTask
      /\ fan'[n].pc # "idle" => fanTask'[n].state = "active"
      /\ \A m \in Notifs : m # n => fan'[m] = fan[m] /\ fanTask'[m] = fanTask[m]
  <2>0. /\ fanTask \in [Notifs -> Task(FanoutMaxRetry)] /\ fan \in [Notifs -> FanLocals]
    BY DEF BaseInv, TypeOK, FanoutOK
  <2>1. CASE \/ FanoutReturnsError(n)
             \/ FanoutReturns(n, NoTask)
             \/ FanoutReturns(n, Requeue(fanTask[n]))
    BY <2>1, FanoutReturnsStages DEF IdleFan
  <2>2. CASE \E f : fan' = [fan EXCEPT ![n] = f] /\ fan[n].pc # "idle" /\ UNCHANGED fanTask
    BY <2>0, <2>2 DEF StagesInv
  <2>3. CASE /\ fanTask' = [fanTask EXCEPT ![n] = Activate(@)]
             /\ fan' = [fan EXCEPT ![n].pc = "started"]
    BY <2>0, <2>3 DEF Activate, Task
  <2>4. QED
    BY <2>1, <2>2, <2>3
       DEF FanoutStep, FanoutStart, FanoutResolve, FanoutResolveFails, FanoutComplete,
           FanoutReturnsNil, FanoutLoad, FanoutInsertRecipient, FanoutEnqueueSend, FanoutSetTotals,
           FanoutSetProcessing, FanoutAck, FanoutWorkerStops
<1>4. QED
  BY <1>1, <1>2, <1>3 DEF FanoutMoves

\* The handler of a request writes only its own row, request and task.
IntakeMoves(q) ==
  /\ OneRowPerKey' /\ StagesInv(q)' /\ AnswerInv(q)'
  /\ notif[q].status # "absent" => notif'[q] = notif[q]
  /\ \A m \in Notifs : m # q =>
       notif'[m] = notif[m] /\ req'[m] = req[m] /\ fanTask'[m] = fanTask[m]
  /\ UNCHANGED fan

LEMMA IntakeStages ==
  ASSUME KeysInv, NEW q \in Notifs, Intake(q)
  PROVE  IntakeMoves(q)
<1> USE DEF KeysInv
<1>0. /\ notif \in [Notifs -> [status : NotifStatuses, key : Keys \cup {NoKey},
                               spec : Specs \cup {[kind |-> "none", devs |-> {}]}, total : Nat]]
      /\ req \in [Notifs -> [pc : {"idle", "rejected", "inserted", "accepted", "error"},
                             key : Keys \cup {NoKey}, ref : Notifs \cup {NoOne}]]
      /\ fanTask \in [Notifs -> Task(FanoutMaxRetry)]
      /\ StagesInv(q) /\ AnswerInv(q)
  BY DEF BaseInv, TypeOK, IntakeOK, FanoutOK
<1>1. ASSUME NEW spec \in Specs, RejectEmptyTargets(q, spec)
      PROVE  IntakeMoves(q)
  <2>1. /\ req' = [req EXCEPT ![q].pc = "rejected"] /\ req[q].pc = "idle"
        /\ UNCHANGED <<notif, fanTask, fan>>
    BY <1>1 DEF RejectEmptyTargets, fanVars
  <2>2. QED
    BY <1>0, <2>1 DEF IntakeMoves, StagesInv, AnswerInv, OneRowPerKey
<1>2. ASSUME NEW key \in Keys \cup {NoKey}, NEW spec \in Specs, NEW reply \in Replies,
             InsertNotification(q, key, spec, reply)
      PROVE  IntakeMoves(q)
  <2>1. /\ req[q].pc = "idle" /\ Conflicts(key) = {} /\ UNCHANGED <<fanTask, fan>>
        /\ \/ notif' = [notif EXCEPT ![q] = [status |-> "pending", key |-> key,
                                             spec |-> spec, total |-> 0]]
           \/ notif' = notif /\ reply # "ok"
        /\ req' = [req EXCEPT ![q] = IF reply = "ok"
                                     THEN [pc |-> "inserted", key |-> key, ref |-> NoOne]
                                     ELSE ServerError]
    BY <1>2 DEF InsertNotification, fanVars, Applied
  <2>2. notif[q].status = "absent" /\ fanTask[q].state = "none"
    BY <1>0, <2>1 DEF StagesInv
  <2>3. OneRowPerKey'
    <3>1. CASE key = NoKey
      BY <1>0, <2>1, <3>1 DEF OneRowPerKey
    <3>2. CASE key # NoKey
      <4>1. \A r \in Notifs : notif[r].status # "absent" => notif[r].key # key
        BY <2>1, <3>2 DEF Conflicts, GetNotificationByIdempotencyKey
      <4>2. QED
        BY <1>0, <2>1, <4>1 DEF OneRowPerKey
    <3>3. QED
      BY <3>1, <3>2
  <2>4. /\ req'[q].pc = (IF reply = "ok" THEN "inserted" ELSE "error")
        /\ reply = "ok" => notif'[q].status # "absent" /\ notif'[q].key = key /\ req'[q].key = key
        /\ \A m \in Notifs : m # q => notif'[m] = notif[m] /\ req'[m] = req[m]
    BY <1>0, <2>1 DEF ServerError, NoRequest
  <2>5. StagesInv(q)' /\ AnswerInv(q)'
    BY <1>0, <2>1, <2>2, <2>4 DEF StagesInv, AnswerInv
  <2>6. QED
    BY <2>1, <2>2, <2>3, <2>4, <2>5 DEF IntakeMoves
<1>3. ASSUME NEW key \in Keys \cup {NoKey}, NEW spec \in Specs, NEW reply \in Replies,
             ReturnExisting(q, key, spec, reply)
      PROVE  IntakeMoves(q)
  <2>1. PICK winner \in GetNotificationByIdempotencyKey(key) :
          req' = [req EXCEPT ![q] = IF reply = "ok" THEN Answered(key, winner) ELSE ServerError]
    BY <1>3 DEF ReturnExisting
  <2>2. req[q].pc = "idle" /\ key # NoKey /\ UNCHANGED <<notif, fanTask, fan>>
    BY <1>3 DEF ReturnExisting, Conflicts, fanVars
  <2>3. notif[q].status = "absent" /\ fanTask[q].state = "none"
    BY <1>0, <2>2 DEF StagesInv
  <2>4. winner # q /\ winner \in Notifs /\ notif[winner].status # "absent" /\ notif[winner].key = key
    BY <2>1, <2>3 DEF GetNotificationByIdempotencyKey
  <2>5. /\ req'[q].pc \in {"accepted", "error"}
        /\ req'[q].pc = "accepted" => req'[q].ref = winner /\ req'[q].key = key
        /\ \A m \in Notifs : m # q => req'[m] = req[m]
    BY <1>0, <2>1 DEF Answered, ServerError, NoRequest
  <2>6. StagesInv(q)' /\ AnswerInv(q)' /\ OneRowPerKey'
    <3>1. OneRowPerKey'
      BY <2>2 DEF OneRowPerKey
    <3>2. StagesInv(q)'
      BY <1>0, <2>2, <2>3, <2>5 DEF StagesInv
    <3>3. AnswerInv(q)'
      BY <2>2, <2>4, <2>5 DEF AnswerInv
    <3>4. QED
      BY <3>1, <3>2, <3>3
  <2>7. QED
    BY <2>2, <2>5, <2>6 DEF IntakeMoves
<1>4. ASSUME NEW reply \in Replies, EnqueueFanout(q, reply)
      PROVE  IntakeMoves(q)
  <2>1. /\ req[q].pc = "inserted" /\ UNCHANGED <<notif, fan>>
        /\ fanTask' = fanTask \/ fanTask' = [fanTask EXCEPT ![q] = NewTask]
        /\ req' = [req EXCEPT ![q] = IF reply = "ok" THEN Answered(req[q].key, q) ELSE ServerError]
    BY <1>4 DEF EnqueueFanout
  <2>2. /\ notif[q].status # "absent" /\ fanTask[q].state = "none" /\ fan[q].pc = "idle"
        /\ notif[q].key = req[q].key
    BY <1>0, <2>1 DEF StagesInv, AnswerInv
  <2>3. /\ req'[q].pc \in {"accepted", "error"}
        /\ req'[q].pc = "accepted" => req'[q].ref = q /\ req'[q].key = req[q].key
        /\ \A m \in Notifs : m # q => req'[m] = req[m]
    BY <1>0, <2>1 DEF Answered, ServerError, NoRequest
  <2>4. /\ fanTask'[q] = fanTask[q] \/ fanTask'[q].state = "queued"
        /\ \A m \in Notifs : m # q => fanTask'[m] = fanTask[m]
    BY <1>0, <2>1 DEF NewTask
  <2>5. StagesInv(q)' /\ AnswerInv(q)' /\ OneRowPerKey'
    <3>1. StagesInv(q)'
      BY <1>0, <2>1, <2>2, <2>3, <2>4 DEF StagesInv
    <3>2. AnswerInv(q)'
      BY <2>1, <2>2, <2>3 DEF AnswerInv
    <3>3. OneRowPerKey'
      BY <2>1 DEF OneRowPerKey
    <3>4. QED
      BY <3>1, <3>2, <3>3
  <2>6. QED
    BY <2>1, <2>3, <2>4, <2>5 DEF IntakeMoves
<1>5. ASSUME ApiCrash(q)
      PROVE  IntakeMoves(q)
  <2>1. /\ req' = [req EXCEPT ![q] = ServerError] /\ req[q].pc = "inserted"
        /\ UNCHANGED <<notif, fanTask, fan>>
    BY <1>5 DEF ApiCrash, fanVars
  <2>2. req'[q].pc = "error" /\ \A m \in Notifs : m # q => req'[m] = req[m]
    BY <1>0, <2>1 DEF ServerError, NoRequest
  <2>3. QED
    BY <1>0, <2>1, <2>2 DEF IntakeMoves, StagesInv, AnswerInv, OneRowPerKey
<1>6. QED
  BY <1>1, <1>2, <1>3, <1>4, <1>5 DEF Intake

LEMMA NextKeys == KeysInv /\ [Next]_vars => KeysInv'
<1> SUFFICES ASSUME KeysInv, [Next]_vars
             PROVE  OneRowPerKey' /\ \A m \in Notifs : StagesInv(m)' /\ AnswerInv(m)'
  BY NextBase DEF KeysInv
<1> USE DEF KeysInv
<1>1. CASE UNCHANGED <<notif, req, fanTask, fan>>
  BY <1>1 DEF OneRowPerKey, StagesInv, AnswerInv
<1>2. ASSUME NEW n \in Notifs, Intake(n)
      PROVE  OneRowPerKey' /\ \A m \in Notifs : StagesInv(m)' /\ AnswerInv(m)'
  <2>1. \A m \in Notifs : m # n => StagesInv(m)'
    BY <1>2, IntakeStages DEF IntakeMoves, StagesInv
  <2>2. \A m \in Notifs : m # n => AnswerInv(m)'
    <3>1. \A m \in Notifs : notif[m].status # "absent" => notif'[m] = notif[m]
      BY <1>2, IntakeStages DEF IntakeMoves
    <3>2. \A m \in Notifs : m # n => req'[m] = req[m] /\ notif'[m] = notif[m]
      BY <1>2, IntakeStages DEF IntakeMoves
    <3>3. QED
      BY <3>1, <3>2 DEF AnswerInv
  <2>3. QED
    BY <1>2, <2>1, <2>2, IntakeStages DEF IntakeMoves
<1>3. ASSUME NEW n \in Notifs,
             FanoutStep(n) \/ \E kind \in {"crash", "shutdown"} : FanoutWorkerStops(n, kind)
      PROVE  OneRowPerKey' /\ \A m \in Notifs : StagesInv(m)' /\ AnswerInv(m)'
  <2>1. FanoutMoves(n)
    BY <1>3, FanoutMovesLemma
  <2>2. StagesInv(n)'
    BY <2>1 DEF FanoutMoves, StagesInv
  <2>3. \A m \in Notifs : m # n => StagesInv(m)'
    BY <2>1 DEF FanoutMoves, StagesInv
  <2>4. \A r \in Notifs : /\ notif'[r].key = notif[r].key
                          /\ notif'[r].status # "absent" <=> notif[r].status # "absent"
    <3>1. notif[n].status # "absent"
      BY <2>1 DEF FanoutMoves, StagesInv
    <3>2. QED
      BY <2>1, <3>1 DEF FanoutMoves
  <2>5. OneRowPerKey'
    BY <2>4 DEF OneRowPerKey
  <2>6. \A m \in Notifs : AnswerInv(m)'
    <3>1. UNCHANGED req
      BY <2>1 DEF FanoutMoves
    <3>2. QED
      BY <2>4, <3>1 DEF AnswerInv
  <2>7. QED
    BY <2>2, <2>3, <2>5, <2>6
<1>4. CASE Registration
  BY <1>1, <1>4 DEF Registration, RegisterDevice, SupersedeDevice, intakeVars, fanVars
<1>5. ASSUME NEW n \in Notifs, NEW d \in Devices, NEW p \in Providers,
             \/ SendStep(n, d, p)
             \/ \E kind \in {"crash", "shutdown"} : SendWorkerStops(n, d, p, kind)
      PROVE  OneRowPerKey' /\ \A m \in Notifs : StagesInv(m)' /\ AnswerInv(m)'
  BY <1>1, <1>5
     DEF SendStep, SendOverLimit, SendAccepted, SendRefused, SendProviderThrottles,
         SendAnswerLost, SendAck, SendArchive, SendStart, SendMarkSending, SendNoCredential, SendMarkSent,
         SendInvalidateDevice, SendFailInvalidToken, SendTransientError, SendWorkerStops,
         intakeVars, fanVars
<1>6. CASE UNCHANGED vars
  BY <1>1, <1>6 DEF vars
<1>7. QED
  BY <1>2, <1>3, <1>4, <1>5, <1>6 DEF Next, WorkerStops

LEMMA InitKeys == Init => KeysInv
BY InitBase DEF Init, KeysInv, OneRowPerKey, StagesInv, AnswerInv, NoTask, IdleFan, NoRequest

\* The partial unique index on idempotency_key: every 202 names a row made for the
\* request's own key, all 202s for a key name one row, and a request that is
\* answered with another's row makes neither a row nor a fanout.
THEOREM OneFanoutPerKeyAlways == Spec => []OneFanoutPerKey
<1>1. KeysInv => OneFanoutPerKey
  BY DEF KeysInv, OneRowPerKey, StagesInv, AnswerInv, OneFanoutPerKey
<1>2. QED
  BY <1>1, InitKeys, NextKeys, PTL DEF Spec

(***************************************************************************)
(* The recipients of a notification: none is counted wrong.  A device row  *)
(* is never deleted, so explicit ids resolve to the same devices in every  *)
(* attempt of the fanout; a group may not.                                 *)
(***************************************************************************)
\* A fanout has rows for what it has enqueued, and total_recipients was such a
\* number.
CountInv(n) ==
  /\ Rows(n) # {} => notif[n].status # "absent"
  /\ fan[n].done \subseteq Rows(n)
  /\ notif[n].total <= Cardinality(Rows(n))

\* The rows for explicit ids: all of them once the loop is over, and from then on.
AudienceInv(n) ==
  Explicit(n) =>
    /\ \A d \in notif[n].spec.devs : devices[d].status # "absent"
    /\ Rows(n) \subseteq notif[n].spec.devs
    /\ fan[n].pc \in {"resolved", "loop", "inserted", "totals"} => fan[n].ids = notif[n].spec.devs
    /\ fan[n].pc = "totals" => fan[n].done = notif[n].spec.devs
    /\ fan[n].pc = "totals" \/ notif[n].status = "processing" =>
         /\ Rows(n) = notif[n].spec.devs
         /\ notif[n].total = Cardinality(Rows(n))

CountedInv == KeysInv /\ \A n \in Notifs : CountInv(n) /\ AudienceInv(n)

\* What the types say of a notification's recipients and its fanout.
LEMMA CountTypes ==
  ASSUME BaseInv, NEW n \in Notifs
  PROVE  /\ notif[n].spec.devs \subseteq Devices
         /\ notif[n].total \in Nat
         /\ IsFiniteSet(Rows(n)) /\ Cardinality(Rows(n)) \in Nat
         /\ \A S \in SUBSET Rows(n) :
              Cardinality(S) \in Nat /\ Cardinality(S) <= Cardinality(Rows(n))
<1>1. notif[n].spec \in Specs \cup {[kind |-> "none", devs |-> {}]} /\ notif[n].total \in Nat
  BY DEF BaseInv, TypeOK, IntakeOK
<1>2. notif[n].spec.devs \subseteq Devices
  BY <1>1, SetsAssumption
<1>3. IsFiniteSet(Rows(n))
  BY SetsAssumption, FS_Subset DEF Rows
<1>4. \A S \in SUBSET Rows(n) : Cardinality(S) <= Cardinality(Rows(n)) /\ IsFiniteSet(S)
  BY <1>3, FS_Subset
<1>5. QED
  BY <1>1, <1>2, <1>3, <1>4, FS_CardinalityType

\* A notification whose own state stays as it is.
LEMMA CountFrame ==
  ASSUME BaseInv, NEW m \in Notifs, CountInv(m), AudienceInv(m), DevicesKept,
         notif'[m] = notif[m], fan'[m] = fan[m], Rows(m)' = Rows(m)
  PROVE  CountInv(m)' /\ AudienceInv(m)'
<1>1. CountInv(m)'
  BY DEF CountInv
<1>2. notif[m].spec.devs \subseteq Devices
  BY CountTypes
<1>3. AudienceInv(m)'
  BY <1>2 DEF AudienceInv, Explicit, DevicesKept
<1>4. QED
  BY <1>1, <1>3

\* A fanout handler that is gone or has returned leaves its rows, and "processing"
\* comes from a handler that had counted them.
LEMMA CountReturned ==
  ASSUME BaseInv, NEW n \in Notifs, CountInv(n), AudienceInv(n), UNCHANGED devices,
         Rows(n)' = Rows(n), fan'[n].pc \in {"idle", "acking"}, fan'[n].done = {},
         notif[n].status # "absent", notif'[n].status # "absent",
         notif'[n].spec = notif[n].spec, notif'[n].total = notif[n].total,
         notif'[n].status = "processing" => notif[n].status = "processing" \/ fan[n].pc = "totals"
  PROVE  CountInv(n)' /\ AudienceInv(n)'
<1>1. CountInv(n)'
  BY DEF CountInv
<1>2. AudienceInv(n)'
  BY DEF AudienceInv, Explicit
<1>3. QED
  BY <1>1, <1>2

\* What every step of a send handler leaves alone, and that its row stays.
SendMoves(n, d, p) ==
  /\ UNCHANGED <<notif, req, fan, fanTask>>
  /\ DevicesKept
  /\ recip[n][d] # "absent"
  /\ sendTask[n][d][p].state # "none"
  /\ \/ recip' = recip
     \/ \E status \in RecipStatuses \ {"absent"} : recip' = [recip EXCEPT ![n][d] = status]
  /\ \E t : sendTask' = [sendTask EXCEPT ![n][d][p] = t]
  /\ \E pc : send' = [send EXCEPT ![n][d][p] = pc]

LEMMA SendMovesLemma ==
  ASSUME BaseInv, NEW n \in Notifs, NEW d \in Devices, NEW p \in Providers,
         \/ SendStep(n, d, p)
         \/ \E kind \in {"crash", "shutdown"} : SendWorkerStops(n, d, p, kind)
  PROVE  SendMoves(n, d, p)
<1>1. UNCHANGED <<notif, req, fan, fanTask>>
  BY DEF SendStep, SendOverLimit, SendAccepted, SendRefused, SendProviderThrottles,
         SendAnswerLost, SendAck, SendArchive, SendStart, SendMarkSending, SendNoCredential,
         SendMarkSent, SendInvalidateDevice, SendFailInvalidToken, SendTransientError,
         SendWorkerStops, intakeVars, fanVars
<1>2. \/ recip' = recip
      \/ \E status \in RecipStatuses \ {"absent"} : recip' = [recip EXCEPT ![n][d] = status]
  BY DEF SendStep, SendOverLimit, SendAccepted, SendRefused, SendProviderThrottles,
         SendAnswerLost, SendAck, SendArchive, SendStart, SendMarkSending, SendNoCredential,
         SendMarkSent, SendInvalidateDevice, SendFailInvalidToken, SendTransientError,
         SendWorkerStops, SetRecipient, RecipStatuses
<1>3. DevicesKept
  <2>1. devices' = devices \/ devices' = [devices EXCEPT ![d].status = "invalid"]
    BY DEF SendStep, SendOverLimit, SendAccepted, SendRefused, SendProviderThrottles,
           SendAnswerLost, SendAck, SendArchive, SendStart, SendMarkSending, SendNoCredential,
           SendMarkSent, SendInvalidateDevice, SendFailInvalidToken, SendTransientError,
           SendWorkerStops
  <2>2. QED
    BY <2>1 DEF BaseInv, TypeOK, DevicesOK, DevicesKept
<1>4. sendTask[n][d][p].state # "none"
  BY DEF SendStep, SendOverLimit, SendAccepted, SendRefused, SendProviderThrottles,
         SendAnswerLost, SendAck, SendArchive, SendStart, SendMarkSending, SendNoCredential,
         SendMarkSent, SendInvalidateDevice, SendFailInvalidToken, SendTransientError,
         SendWorkerStops, BaseInv, TaskInv
<1>5. recip[n][d] # "absent"
  BY <1>4 DEF BaseInv, TaskInv
<1>6. \/ \E t : SendReturns(n, d, p, t)
      \/ \E pc : SendGoes(n, d, p, pc)
      \/ \E pc : /\ send' = [send EXCEPT ![n][d][p] = pc]
                 /\ sendTask' = [sendTask EXCEPT ![n][d][p] = Activate(@)]
  BY DEF SendStep, SendOverLimit, SendAccepted, SendRefused, SendProviderThrottles,
         SendAnswerLost, SendAck, SendArchive, SendStart, SendMarkSending, SendNoCredential,
         SendMarkSent, SendInvalidateDevice, SendFailInvalidToken, SendTransientError,
         SendWorkerStops, SendReturnsError, SendThrottled, SendReturnsNil, SendSkipsRetry
<1>7. sendTask \in [Notifs -> [Devices -> [Providers -> Task(SendMaxRetry)]]]
  BY DEF BaseInv, TypeOK, SendOK
<1>8. UNCHANGED sendTask => sendTask' = [sendTask EXCEPT ![n][d][p] = sendTask[n][d][p]]
  BY <1>7
<1>9. \E t : sendTask' = [sendTask EXCEPT ![n][d][p] = t]
  BY <1>6, <1>8 DEF SendReturns, SendGoes
<1>10. \E pc : send' = [send EXCEPT ![n][d][p] = pc]
  BY <1>6 DEF SendReturns, SendGoes
<1>11. QED
  BY <1>1, <1>2, <1>3, <1>4, <1>5, <1>9, <1>10 DEF SendMoves

LEMMA SendCount ==
  ASSUME CountedInv, NEW n \in Notifs, NEW d \in Devices, NEW p \in Providers,
         SendMoves(n, d, p), NEW m \in Notifs
  PROVE  CountInv(m)' /\ AudienceInv(m)'
<1>1. BaseInv /\ CountInv(m) /\ AudienceInv(m)
  BY DEF CountedInv, KeysInv
<1>2. recip \in [Notifs -> [Devices -> RecipStatuses]]
  BY <1>1 DEF BaseInv, TypeOK, RecipientsOK
<1>3. Rows(m)' = Rows(m)
  BY <1>2 DEF SendMoves, Rows
<1>4. QED
  BY <1>1, <1>3, CountFrame DEF SendMoves

\* A request writes a row that has no recipients yet, for devices that exist, or none.
LEMMA IntakeCount ==
  ASSUME CountedInv, NEW q \in Notifs, Intake(q), NEW m \in Notifs
  PROVE  CountInv(m)' /\ AudienceInv(m)'
<1>0. KeysInv /\ BaseInv /\ StagesInv(m) /\ CountInv(m) /\ AudienceInv(m)
  BY DEF CountedInv, KeysInv
<1>1. UNCHANGED <<devices, recip, fan>>
  BY DEF Intake, RejectEmptyTargets, InsertNotification, ReturnExisting, EnqueueFanout,
         ApiCrash, fanVars
<1>2. Rows(m)' = Rows(m) /\ DevicesKept
  BY <1>1 DEF Rows, DevicesKept
<1>3. CASE notif'[m] = notif[m]
  BY <1>0, <1>1, <1>2, <1>3, CountFrame
<1>4. CASE notif'[m] # notif[m]
  <2>1. m = q /\ notif[q].status = "absent"
    BY <1>0, <1>4, IntakeStages DEF IntakeMoves
  <2>2. PICK key \in Keys \cup {NoKey}, spec \in Specs, reply \in Replies :
          InsertNotification(q, key, spec, reply)
    BY <1>4, <2>1
       DEF Intake, RejectEmptyTargets, ReturnExisting, EnqueueFanout, ApiCrash, fanVars
  <2>3. /\ req[q].pc = "idle" /\ Known(spec)
        /\ notif' = [notif EXCEPT ![q] = [status |-> "pending", key |-> key,
                                          spec |-> spec, total |-> 0]]
    BY <1>4, <2>2 DEF InsertNotification
  <2>4. /\ notif'[q].status = "pending" /\ notif'[q].spec = spec /\ notif'[q].total = 0
    BY <1>0, <2>3 DEF BaseInv, TypeOK, IntakeOK
  <2>5. fan[q].pc = "idle" /\ Rows(q) = {} /\ fan[q].done = {}
    <3>1. fanTask[q].state = "none"
      BY <1>0, <2>1 DEF StagesInv
    <3>2. QED
      BY <1>0, <2>1, <3>1 DEF StagesInv, CountInv
  <2>6. CountInv(q)'
    <3>1. Cardinality(Rows(q)) \in Nat
      BY <1>0, CountTypes
    <3>2. QED
      BY <1>1, <1>2, <2>1, <2>4, <2>5, <3>1 DEF CountInv
  <2>7. AudienceInv(q)'
    <3>1. spec.devs \subseteq Devices
      BY SetsAssumption
    <3>2. spec.kind = "device_ids" => \A d \in spec.devs : devices'[d].status # "absent"
      BY <1>1, <2>3 DEF Known
    <3>3. QED
      BY <1>1, <1>2, <2>1, <2>4, <2>5, <3>1, <3>2 DEF AudienceInv, Explicit
  <2>8. QED
    BY <2>1, <2>6, <2>7
<1>5. QED
  BY <1>3, <1>4

\* The steps of a fanout handler that write no recipient and count none.
LEMMA FanoutOtherCount ==
  ASSUME CountedInv, NEW n \in Notifs, NEW reply \in Replies,
         \/ FanoutStart(n, reply)
         \/ FanoutResolve(n)
         \/ FanoutResolveFails(n, reply)
         \/ FanoutComplete(n, reply)
         \/ FanoutLoad(n, reply)
         \/ FanoutEnqueueSend(n, reply)
         \/ FanoutSetProcessing(n, reply)
         \/ FanoutAck(n)
         \/ \E kind \in {"crash", "shutdown"} : FanoutWorkerStops(n, kind)
  PROVE  CountInv(n)' /\ AudienceInv(n)'
<1>0. /\ BaseInv /\ StagesInv(n) /\ CountInv(n) /\ AudienceInv(n)
      /\ fan \in [Notifs -> FanLocals] /\ fan[n] \in FanLocals
      /\ notif \in [Notifs -> [status : NotifStatuses, key : Keys \cup {NoKey},
                               spec : Specs \cup {[kind |-> "none", devs |-> {}]}, total : Nat]]
  BY DEF CountedInv, KeysInv, BaseInv, TypeOK, FanoutOK, IntakeOK
<1>1. UNCHANGED <<devices, req, recip>>
  BY DEF FanoutStart, FanoutResolve, FanoutResolveFails, FanoutComplete, FanoutLoad,
         FanoutEnqueueSend, FanoutSetProcessing, FanoutAck, FanoutWorkerStops, intakeVars
<1>2. Rows(n)' = Rows(n)
  BY <1>1 DEF Rows
<1>3. notif[n].status # "absent"
  BY <1>0 DEF FanoutStart, FanoutResolve, FanoutResolveFails, FanoutComplete, FanoutLoad,
              FanoutEnqueueSend, FanoutSetProcessing, FanoutAck, FanoutWorkerStops, StagesInv
<1>4. CASE \/ FanoutReturnsError(n)
           \/ FanoutReturnsNil(n)
           \/ FanoutReturns(n, NoTask)
           \/ FanoutReturns(n, Requeue(fanTask[n]))
  <2>1. fan'[n].pc \in {"idle", "acking"} /\ fan'[n].done = {}
    BY <1>0, <1>4 DEF FanoutReturnsError, FanoutReturnsNil, FanoutReturns, IdleFan
  <2>2. \/ UNCHANGED notif
        \/ \E status \in {"failed", "completed"} : notif' = [notif EXCEPT ![n].status = status]
        \/ notif' = [notif EXCEPT ![n].status = "processing"] /\ fan[n].pc = "totals"
    BY DEF FanoutStart, FanoutResolve, FanoutResolveFails, FanoutComplete, FanoutLoad,
           FanoutEnqueueSend, FanoutSetProcessing, FanoutAck, FanoutWorkerStops,
           SetNotificationStatus, intakeVars
  <2>3. /\ notif'[n].status # "absent"
        /\ notif'[n].spec = notif[n].spec /\ notif'[n].total = notif[n].total
        /\ notif'[n].status = "processing" => notif[n].status = "processing" \/ fan[n].pc = "totals"
    BY <1>0, <1>3, <2>2
  <2>4. QED
    BY <1>0, <1>1, <1>2, <1>3, <2>1, <2>3, CountReturned
<1>5. CASE FanoutStart(n, reply) /\ reply = "ok"
  <2>1. /\ fan' = [fan EXCEPT ![n].pc = "started"] /\ UNCHANGED notif
        /\ fan[n].pc = "idle" \/ fan[n].pc # "totals"
    BY <1>0, <1>5 DEF FanoutStart, intakeVars, StagesInv
  <2>2. fan'[n].pc = "started" /\ fan'[n].done = fan[n].done /\ fan'[n].ids = fan[n].ids
    BY <1>0, <2>1 DEF FanLocals
  <2>3. QED
    BY <1>0, <1>1, <1>2, <2>1, <2>2 DEF CountInv, AudienceInv, Explicit
<1>6. CASE FanoutResolve(n)
  <2>1. /\ fan' = [fan EXCEPT ![n].pc = "resolved", ![n].ids = Resolve(notif[n].spec)]
        /\ UNCHANGED notif
    BY <1>6 DEF FanoutResolve, intakeVars
  <2>2. /\ fan'[n].pc = "resolved" /\ fan'[n].done = fan[n].done
        /\ fan'[n].ids = Resolve(notif[n].spec)
    BY <1>0, <2>1 DEF FanLocals
  <2>3. Explicit(n) => Resolve(notif[n].spec) = notif[n].spec.devs
    BY <1>0 DEF AudienceInv, Explicit, Resolve, GetDevicesByIDs
  <2>4. CountInv(n)'
    BY <1>0, <1>2, <2>1, <2>2 DEF CountInv
  <2>5. AudienceInv(n)'
    BY <1>0, <1>1, <1>2, <2>1, <2>2, <2>3 DEF AudienceInv, Explicit
  <2>6. QED
    BY <2>4, <2>5
<1>7. CASE FanoutLoad(n, reply) /\ reply = "ok"
  <2>1. PICK snap : /\ fan' = [fan EXCEPT ![n].pc = "loop", ![n].snap = snap]
                    /\ UNCHANGED notif /\ fan[n].pc = "resolved"
    BY <1>7 DEF FanoutLoad, intakeVars
  <2>2. fan'[n].pc = "loop" /\ fan'[n].done = fan[n].done /\ fan'[n].ids = fan[n].ids
    BY <1>0, <2>1 DEF FanLocals
  <2>3. CountInv(n)'
    BY <1>0, <1>2, <2>1, <2>2 DEF CountInv
  <2>4. AudienceInv(n)'
    BY <1>0, <1>1, <1>2, <2>1, <2>2 DEF AudienceInv, Explicit
  <2>5. QED
    BY <2>3, <2>4
<1>8. CASE FanoutEnqueueSend(n, reply) /\ reply = "ok"
  <2>1. PICK d : /\ fan' = [fan EXCEPT ![n].pc = "loop", ![n].cur = NoOne, ![n].done = @ \cup {d}]
                 /\ d = fan[n].cur /\ UNCHANGED notif /\ fan[n].pc = "inserted"
    BY <1>8 DEF FanoutEnqueueSend, intakeVars
  <2>2. /\ fan'[n].pc = "loop" /\ fan'[n].done = fan[n].done \cup {d}
        /\ fan'[n].ids = fan[n].ids
    BY <1>0, <2>1 DEF FanLocals
  <2>3. d \in Rows(n)
    BY <1>0, <2>1 DEF BaseInv, FanoutInv, Rows, FanLocals
  <2>4. CountInv(n)'
    BY <1>0, <1>2, <2>1, <2>2, <2>3 DEF CountInv
  <2>5. AudienceInv(n)'
    BY <1>0, <1>1, <1>2, <2>1, <2>2 DEF AudienceInv, Explicit
  <2>6. QED
    BY <2>4, <2>5
<1>9. QED
  BY <1>4, <1>5, <1>6, <1>7, <1>8
     DEF FanoutStart, FanoutResolve, FanoutResolveFails, FanoutComplete, FanoutLoad,
         FanoutEnqueueSend, FanoutSetProcessing, FanoutAck, FanoutWorkerStops

\* getOrCreateRecipient adds at most the row of a device the handler has resolved.
LEMMA FanoutInsertCount ==
  ASSUME CountedInv, NEW n \in Notifs, NEW d \in Devices, NEW reply \in Replies,
         FanoutInsertRecipient(n, d, reply)
  PROVE  CountInv(n)' /\ AudienceInv(n)'
<1>0. /\ BaseInv /\ StagesInv(n) /\ CountInv(n) /\ AudienceInv(n)
      /\ fan \in [Notifs -> FanLocals] /\ fan[n] \in FanLocals
      /\ recip \in [Notifs -> [Devices -> RecipStatuses]]
  BY DEF CountedInv, KeysInv, BaseInv, TypeOK, FanoutOK, RecipientsOK
<1>1. /\ fan[n].pc = "loop" /\ d \in fan[n].ids
      /\ recip' = recip \/ recip' = [recip EXCEPT ![n][d] = CreateRecipient(@)]
      /\ UNCHANGED <<devices, notif>>
  BY DEF FanoutInsertRecipient, ToEnqueue, intakeVars
<1>2. Rows(n)' = Rows(n) \/ Rows(n)' = Rows(n) \cup {d}
  BY <1>0, <1>1 DEF Rows, CreateRecipient
<1>3. /\ fan'[n].pc \in {"idle", "inserted"} /\ fan'[n].done \in {{}, fan[n].done}
      /\ fan'[n].pc = "inserted" => fan'[n].ids = fan[n].ids
  <2>1. CASE reply = "ok"
    <3>1. fan' = [fan EXCEPT ![n].pc = "inserted", ![n].cur = d]
      BY <2>1 DEF FanoutInsertRecipient
    <3>2. QED
      BY <1>0, <3>1 DEF FanLocals
  <2>2. CASE reply # "ok"
    BY <1>0, <2>2 DEF FanoutInsertRecipient, FanoutReturnsError, FanoutReturns, IdleFan
  <2>3. QED
    BY <2>1, <2>2
<1>4. notif[n].status # "absent"
  BY <1>0, <1>1 DEF StagesInv
<1>5. Cardinality(Rows(n)) <= Cardinality(Rows(n)') /\ Cardinality(Rows(n)') \in Nat
  <2>1. IsFiniteSet(Rows(n) \cup {d}) /\ IsFiniteSet(Rows(n)) /\ Cardinality(Rows(n)) \in Nat
    BY <1>0, CountTypes, FS_AddElement
  <2>2. /\ Cardinality(Rows(n)) <= Cardinality(Rows(n) \cup {d})
        /\ Cardinality(Rows(n) \cup {d}) \in Nat
    <3>1. Rows(n) \in SUBSET (Rows(n) \cup {d})
      OBVIOUS
    <3>2. QED
      BY <2>1, <3>1, FS_Subset, FS_CardinalityType
  <2>3. Rows(n)' = Rows(n) => <1>5!:
    BY <2>1
  <2>4. Rows(n)' = Rows(n) \cup {d} => <1>5!:
    BY <2>2
  <2>5. QED
    BY <1>2, <2>3, <2>4
<1>6. CountInv(n)'
  <2>1. notif'[n].total <= Cardinality(Rows(n))'
    BY <1>0, <1>1, <1>5, CountTypes DEF CountInv
  <2>2. fan'[n].done \subseteq Rows(n)'
    BY <1>0, <1>2, <1>3 DEF CountInv
  <2>3. QED
    BY <1>1, <1>4, <2>1, <2>2 DEF CountInv
<1>7. AudienceInv(n)'
  <2>1. Explicit(n) => d \in notif[n].spec.devs
    BY <1>0, <1>1 DEF AudienceInv
  <2>2. Explicit(n) /\ notif[n].status = "processing" => Rows(n)' = Rows(n)
    BY <1>0, <1>2, <2>1 DEF AudienceInv
  <2>3. QED
    BY <1>0, <1>1, <1>2, <1>3, <2>1, <2>2 DEF AudienceInv, Explicit
<1>8. QED
  BY <1>6, <1>7

\* SetNotificationTotals writes the number of devices the loop has passed.
LEMMA FanoutTotalsCount ==
  ASSUME CountedInv, NEW n \in Notifs, NEW reply \in Replies, FanoutSetTotals(n, reply)
  PROVE  CountInv(n)' /\ AudienceInv(n)'
<1>0. /\ BaseInv /\ StagesInv(n) /\ CountInv(n) /\ AudienceInv(n)
      /\ fan \in [Notifs -> FanLocals] /\ fan[n] \in FanLocals
      /\ notif \in [Notifs -> [status : NotifStatuses, key : Keys \cup {NoKey},
                               spec : Specs \cup {[kind |-> "none", devs |-> {}]}, total : Nat]]
  BY DEF CountedInv, KeysInv, BaseInv, TypeOK, FanoutOK, IntakeOK
<1>1. /\ fan[n].pc = "loop" /\ ToEnqueue(n) = {} /\ UNCHANGED <<devices, recip>>
      /\ notif' = notif \/ notif' = [notif EXCEPT ![n].total = Cardinality(fan[n].done)]
      /\ reply = "ok" => notif' = [notif EXCEPT ![n].total = Cardinality(fan[n].done)]
  BY DEF FanoutSetTotals, SetNotificationTotals, Applied
<1>2. Rows(n)' = Rows(n)
  BY <1>1 DEF Rows
<1>3. /\ notif'[n].status = notif[n].status /\ notif'[n].spec = notif[n].spec
      /\ notif'[n].total \in {notif[n].total, Cardinality(fan[n].done)}
      /\ reply = "ok" => notif'[n].total = Cardinality(fan[n].done)
  BY <1>0, <1>1
<1>4. /\ fan'[n].pc \in {"idle", "totals"} /\ fan'[n].done \in {{}, fan[n].done}
      /\ fan'[n].pc = "totals" => reply = "ok" /\ fan'[n].ids = fan[n].ids /\ fan'[n].done = fan[n].done
  <2>1. CASE reply = "ok"
    <3>1. fan' = [fan EXCEPT ![n].pc = "totals"]
      BY <2>1 DEF FanoutSetTotals
    <3>2. QED
      BY <1>0, <2>1, <3>1 DEF FanLocals
  <2>2. CASE reply # "ok"
    BY <1>0, <2>2 DEF FanoutSetTotals, FanoutReturnsError, FanoutReturns, IdleFan
  <2>3. QED
    BY <2>1, <2>2
<1>5. Explicit(n) => fan[n].done = notif[n].spec.devs /\ Rows(n) = notif[n].spec.devs
  BY <1>0, <1>1 DEF AudienceInv, CountInv, ToEnqueue
<1>6. CountInv(n)'
  <2>1. notif[n].status # "absent"
    BY <1>0, <1>1 DEF StagesInv
  <2>2. fan[n].done \in SUBSET Rows(n)
    BY <1>0 DEF CountInv
  <2>3. Cardinality(fan[n].done) <= Cardinality(Rows(n)) /\ notif[n].total <= Cardinality(Rows(n))
    BY <1>0, <2>2, CountTypes DEF CountInv
  <2>4. notif'[n].total <= Cardinality(Rows(n))'
    BY <1>2, <1>3, <2>3
  <2>5. QED
    BY <1>2, <1>3, <1>4, <2>1, <2>2, <2>4 DEF CountInv
<1>7. AudienceInv(n)'
  BY <1>0, <1>1, <1>2, <1>3, <1>4, <1>5 DEF AudienceInv, Explicit
<1>8. QED
  BY <1>6, <1>7

\* A fanout step leaves the rows and tasks of the other notifications alone.
LEMMA FanoutOthers ==
  ASSUME BaseInv, NEW n \in Notifs, NEW m \in Notifs, m # n, StagesInv(n),
         FanoutStep(n) \/ \E kind \in {"crash", "shutdown"} : FanoutWorkerStops(n, kind)
  PROVE  /\ notif'[m] = notif[m] /\ fan'[m] = fan[m] /\ fanTask'[m] = fanTask[m]
         /\ recip'[m] = recip[m] /\ sendTask'[m] = sendTask[m] /\ send'[m] = send[m]
         /\ UNCHANGED devices
<1>1. FanoutMoves(n)
  BY FanoutMovesLemma
<1>2. UNCHANGED <<devices, send>>
  BY DEF FanoutStep, FanoutStart, FanoutResolve, FanoutResolveFails, FanoutComplete,
         FanoutLoad, FanoutInsertRecipient, FanoutEnqueueSend, FanoutSetTotals,
         FanoutSetProcessing, FanoutAck, FanoutWorkerStops, sendVars
<1>3. recip \in [Notifs -> [Devices -> RecipStatuses]]
      /\ sendTask \in [Notifs -> [Devices -> [Providers -> Task(SendMaxRetry)]]]
  BY DEF BaseInv, TypeOK, RecipientsOK, SendOK
<1>4. recip' = recip \/ \E d \in Devices : \E s : recip' = [recip EXCEPT ![n][d] = s]
  BY DEF FanoutStep, FanoutStart, FanoutResolve, FanoutResolveFails, FanoutComplete,
         FanoutLoad, FanoutInsertRecipient, FanoutEnqueueSend, FanoutSetTotals,
         FanoutSetProcessing, FanoutAck, FanoutWorkerStops
<1>5. sendTask' = sendTask \/ \E d, p, t : sendTask' = [sendTask EXCEPT ![n][d][p] = t]
  <2>1. CASE \E reply \in Replies : FanoutEnqueueSend(n, reply)
    BY <2>1 DEF FanoutEnqueueSend
  <2>2. CASE ~\E reply \in Replies : FanoutEnqueueSend(n, reply)
    BY <2>2 DEF FanoutStep, FanoutStart, FanoutResolve, FanoutResolveFails, FanoutComplete,
                FanoutLoad, FanoutInsertRecipient, FanoutSetTotals, FanoutSetProcessing,
                FanoutAck, FanoutWorkerStops, sendVars
  <2>3. QED
    BY <2>1, <2>2
<1>6. recip'[m] = recip[m]
  BY <1>3, <1>4
<1>7. sendTask'[m] = sendTask[m]
  BY <1>3, <1>5
<1>8. QED
  BY <1>1, <1>2, <1>6, <1>7 DEF FanoutMoves

LEMMA NextCount == CountedInv /\ [Next]_vars => CountedInv'
<1> SUFFICES ASSUME CountedInv, [Next]_vars, NEW m \in Notifs
             PROVE  CountInv(m)' /\ AudienceInv(m)'
  BY NextKeys DEF CountedInv
<1>0. BaseInv /\ CountInv(m) /\ AudienceInv(m)
  BY DEF CountedInv, KeysInv
<1>1. CASE UNCHANGED <<notif, recip, fan>> /\ DevicesKept
  BY <1>0, <1>1, CountFrame DEF Rows
<1>2. CASE Registration
  <2>1. DevicesKept
    BY <1>0, <1>2 DEF Registration, RegisterDevice, SupersedeDevice, DevicesKept,
                      BaseInv, TypeOK, DevicesOK
  <2>2. QED
    BY <1>1, <1>2, <2>1
       DEF Registration, RegisterDevice, SupersedeDevice, intakeVars, fanVars, sendVars
<1>3. ASSUME NEW n \in Notifs, Intake(n)
      PROVE  CountInv(m)' /\ AudienceInv(m)'
  BY <1>3, IntakeCount
<1>4. ASSUME NEW n \in Notifs,
             FanoutStep(n) \/ \E kind \in {"crash", "shutdown"} : FanoutWorkerStops(n, kind)
      PROVE  CountInv(m)' /\ AudienceInv(m)'
  <2>1. CASE m # n
    <3>1. StagesInv(n)
      BY DEF CountedInv, KeysInv
    <3>2. /\ notif'[m] = notif[m] /\ fan'[m] = fan[m] /\ recip'[m] = recip[m]
          /\ UNCHANGED devices
      BY <1>0, <1>4, <2>1, <3>1, FanoutOthers
    <3>3. QED
      BY <1>0, <3>2, CountFrame DEF Rows, DevicesKept
  <2>2. CASE m = n
    <3>1. "ok" \in Replies
      BY DEF Replies
    <3>2. QED
      BY <1>4, <2>2, <3>1, FanoutOtherCount, FanoutInsertCount, FanoutTotalsCount DEF FanoutStep
  <2>3. QED
    BY <2>1, <2>2
<1>5. ASSUME NEW n \in Notifs, NEW d \in Devices, NEW p \in Providers,
             \/ SendStep(n, d, p)
             \/ \E kind \in {"crash", "shutdown"} : SendWorkerStops(n, d, p, kind)
      PROVE  CountInv(m)' /\ AudienceInv(m)'
  BY <1>0, <1>5, SendMovesLemma, SendCount
<1>6. CASE UNCHANGED vars
  BY <1>1, <1>6 DEF vars, DevicesKept
<1>7. QED
  BY <1>2, <1>3, <1>4, <1>5, <1>6 DEF Next, WorkerStops

LEMMA InitCount == Init => CountedInv
<1> SUFFICES ASSUME Init, NEW n \in Notifs
             PROVE  CountInv(n) /\ AudienceInv(n)
  BY InitKeys DEF CountedInv
<1>1. /\ Rows(n) = {} /\ fan[n].pc = "idle" /\ fan[n].done = {}
      /\ notif[n].total = 0 /\ notif[n].spec.kind = "none"
  BY DEF Init, Rows, IdleFan
<1>2. Cardinality(Rows(n)) = 0
  BY <1>1, FS_EmptySet
<1>3. QED
  BY <1>1, <1>2 DEF CountInv, AudienceInv, Explicit

\* SetNotificationTotals: total_recipients never exceeds the recipient rows, and a
\* "processing" notification for explicit ids counts all of them, through any
\* number of attempts of its fanout that fail, die or run again after the end.
THEOREM TotalsExactAlways == Spec => []TotalsExact
<1>1. CountedInv => TotalsExact
  BY DEF CountedInv, CountInv, AudienceInv, TotalsExact
<1>2. QED
  BY <1>1, InitCount, NextCount, PTL DEF Spec


(***************************************************************************)
(* No recipient of explicit ids is lost: an open row that no send task     *)
(* will see to is still ahead of the fanout.  A task whose handler has     *)
(* returned nil is as good as deleted.                                     *)
(***************************************************************************)
\* What the run MCDispatch_recipients assumes: no call to the database fails.
NoDatabaseErrors == "db" \notin FaultKinds

Live(n, d) == \E p \in Providers : sendTask[n][d][p].state # "none" /\ send[n][d][p] # "acking"

Unsent(n, d) == recip[n][d] \in {"queued", "sending"} /\ ~Live(n, d)

AheadOf(n, d) ==
  /\ \A p \in Providers : sendTask[n][d][p].state = "none"
  /\ fanTask[n].state # "none"
  /\ fan[n].pc # "acking"
  /\ d \notin fan[n].done

AheadInv(n) == Explicit(n) => \A d \in Devices : Unsent(n, d) => AheadOf(n, d)

LostInv == CountedInv /\ \A n \in Notifs : AheadInv(n)

LEMMA DatabaseAnswers ==
  ASSUME NoDatabaseErrors, NEW reply, Call("db", reply)
  PROVE  reply = "ok"
BY DEF NoDatabaseErrors, Fault, Call

\* A notification whose fanout and tasks stay as they are.
LEMMA AheadFrame ==
  ASSUME NEW m \in Notifs, AheadInv(m), Explicit(m)' => Explicit(m),
         recip'[m] = recip[m], sendTask'[m] = sendTask[m], send'[m] = send[m],
         fan'[m] = fan[m], fanTask[m].state # "none" => fanTask'[m].state # "none"
  PROVE  AheadInv(m)'
BY DEF AheadInv, Unsent, AheadOf, Live

LEMMA IntakeAhead ==
  ASSUME LostInv, NEW q \in Notifs, Intake(q), NEW m \in Notifs
  PROVE  AheadInv(m)'
<1>0. KeysInv /\ BaseInv /\ StagesInv(m) /\ CountInv(m) /\ AheadInv(m)
  BY DEF LostInv, CountedInv, KeysInv
<1>1. UNCHANGED <<recip, fan, sendTask, send>>
  BY DEF Intake, RejectEmptyTargets, InsertNotification, ReturnExisting, EnqueueFanout,
         ApiCrash, fanVars, sendVars
<1>2. fanTask[m].state # "none" => fanTask'[m].state # "none"
  BY <1>0 DEF Intake, RejectEmptyTargets, InsertNotification, ReturnExisting, EnqueueFanout,
              ApiCrash, fanVars, NewTask, BaseInv, TypeOK, FanoutOK
<1>3. CASE notif'[m] = notif[m]
  BY <1>0, <1>1, <1>2, <1>3, AheadFrame DEF Explicit
<1>4. CASE notif'[m] # notif[m]
  <2>1. m = q /\ notif[q].status = "absent"
    BY <1>0, <1>4, IntakeStages DEF IntakeMoves
  <2>2. Rows(m) = {}
    BY <1>0, <2>1 DEF CountInv
  <2>3. \A d \in Devices : ~Unsent(m, d)'
    BY <1>1, <2>2 DEF Unsent, Rows
  <2>4. QED
    BY <2>3 DEF AheadInv
<1>5. QED
  BY <1>3, <1>4

\* A fanout handler that returns an error or is stopped keeps its task.
LEMMA FanoutLeaves ==
  ASSUME BaseInv, NEW n \in Notifs,
         FanoutReturnsError(n) \/ FanoutReturns(n, Requeue(fanTask[n]))
  PROVE  fanTask'[n].state # "none" /\ fan'[n].pc = "idle" /\ fan'[n].done = {}
<1>1. fanTask[n] \in Task(FanoutMaxRetry) /\ fanTask \in [Notifs -> Task(FanoutMaxRetry)]
      /\ fan \in [Notifs -> FanLocals]
  BY DEF BaseInv, TypeOK, FanoutOK
<1>2. /\ Requeue(fanTask[n]).state # "none"
      /\ Retry(fanTask[n], FanoutMaxRetry).state # "none"
  BY <1>1 DEF Task, Requeue, Retry, Archive
<1>3. QED
  BY <1>1, <1>2 DEF FanoutReturns, FanoutReturnsError, IdleFan

\* The steps of a fanout handler that touch no recipient and no send task.
LEMMA FanoutOtherAhead ==
  ASSUME LostInv, NEW n \in Notifs, NEW reply \in Replies,
         \/ FanoutStart(n, reply)
         \/ FanoutResolve(n)
         \/ FanoutResolveFails(n, reply)
         \/ FanoutComplete(n, reply)
         \/ FanoutLoad(n, reply)
         \/ FanoutSetTotals(n, reply)
         \/ FanoutSetProcessing(n, reply)
         \/ FanoutAck(n)
         \/ \E kind \in {"crash", "shutdown"} : FanoutWorkerStops(n, kind),
         Explicit(n)
  PROVE  \A d \in Devices : Unsent(n, d)' => AheadOf(n, d)'
<1>0. /\ BaseInv /\ StagesInv(n) /\ CountInv(n) /\ AudienceInv(n) /\ AheadInv(n)
      /\ fanTask[n] \in Task(FanoutMaxRetry) /\ fanTask \in [Notifs -> Task(FanoutMaxRetry)]
      /\ fan \in [Notifs -> FanLocals] /\ fan[n] \in FanLocals
  BY DEF LostInv, CountedInv, KeysInv, BaseInv, TypeOK, FanoutOK
<1>1. UNCHANGED <<recip, sendTask, send>>
  BY DEF FanoutStart, FanoutResolve, FanoutResolveFails, FanoutComplete, FanoutLoad,
         FanoutSetTotals, FanoutSetProcessing, FanoutAck, FanoutWorkerStops, sendVars
<1>2. \A d \in Devices : Unsent(n, d)' => Unsent(n, d) /\ AheadOf(n, d)
  BY <1>0, <1>1 DEF Unsent, Live, AheadInv
<1>3. CASE \A d \in Devices : ~Unsent(n, d)
  BY <1>2, <1>3
<1>4. CASE /\ fanTask'[n].state # "none" /\ fan'[n].pc # "acking"
           /\ fan'[n].done \subseteq fan[n].done
  BY <1>1, <1>2, <1>4 DEF AheadOf
<1>5. CASE FanoutReturnsError(n) \/ FanoutReturns(n, Requeue(fanTask[n]))
  BY <1>0, <1>4, <1>5, FanoutLeaves
<1>6. CASE FanoutStart(n, reply) /\ reply = "ok"
  <2>1. /\ fanTask' = [fanTask EXCEPT ![n] = Activate(@)]
        /\ fan' = [fan EXCEPT ![n].pc = "started"]
    BY <1>6 DEF FanoutStart
  <2>2. fanTask'[n].state # "none"
    BY <1>0, <2>1 DEF Activate, Task
  <2>3. QED
    BY <1>0, <1>4, <2>1, <2>2 DEF FanLocals
<1>7. CASE FanoutResolve(n)
  <2>1. fan' = [fan EXCEPT ![n].pc = "resolved", ![n].ids = Resolve(notif[n].spec)]
        /\ fanTask' = fanTask /\ fanTask[n].state # "none"
    BY <1>0, <1>7 DEF FanoutResolve, StagesInv
  <2>2. QED
    BY <1>0, <1>4, <2>1 DEF FanLocals
<1>8. CASE FanoutLoad(n, reply) /\ reply = "ok"
  <2>1. PICK s : /\ fan' = [fan EXCEPT ![n].pc = "loop", ![n].snap = s]
                 /\ fanTask' = fanTask /\ fanTask[n].state # "none"
    BY <1>0, <1>8 DEF FanoutLoad, StagesInv
  <2>2. QED
    BY <1>0, <1>4, <2>1 DEF FanLocals
<1>9. CASE FanoutSetTotals(n, reply) /\ reply = "ok"
  <2>1. fan' = [fan EXCEPT ![n].pc = "totals"] /\ fanTask' = fanTask /\ fanTask[n].state # "none"
    BY <1>0, <1>9 DEF FanoutSetTotals, StagesInv
  <2>2. QED
    BY <1>0, <1>4, <2>1 DEF FanLocals
<1>10. CASE FanoutComplete(n, reply)
  <2>1. notif[n].spec.devs = {}
    BY <1>0, <1>10 DEF FanoutComplete, AudienceInv
  <2>2. Rows(n) = {}
    BY <1>0, <2>1 DEF AudienceInv
  <2>3. QED
    BY <1>3, <2>2 DEF Unsent, Rows
<1>11. CASE FanoutSetProcessing(n, reply)
  <2>1. Rows(n) \subseteq fan[n].done
    BY <1>0, <1>11 DEF FanoutSetProcessing, AudienceInv
  <2>2. QED
    BY <1>0, <1>3, <2>1 DEF Unsent, Rows, AheadInv, AheadOf
<1>12. CASE FanoutAck(n)
  BY <1>0, <1>3, <1>12 DEF FanoutAck, AheadInv, AheadOf
<1>13. QED
  BY <1>5, <1>6, <1>7, <1>8, <1>9, <1>10, <1>11, <1>12
     DEF FanoutStart, FanoutResolveFails, FanoutLoad, FanoutSetTotals, FanoutWorkerStops

\* A row that getOrCreateRecipient makes has no send task in any queue.
LEMMA FanoutInsertAhead ==
  ASSUME LostInv, NEW n \in Notifs, NEW e \in Devices, NEW reply \in Replies,
         FanoutInsertRecipient(n, e, reply), Explicit(n), NEW d \in Devices, Unsent(n, d)'
  PROVE  AheadOf(n, d)'
<1>0. /\ BaseInv /\ StagesInv(n) /\ CountInv(n) /\ AheadInv(n)
      /\ fan \in [Notifs -> FanLocals] /\ fan[n] \in FanLocals
      /\ recip \in [Notifs -> [Devices -> RecipStatuses]]
  BY DEF LostInv, CountedInv, KeysInv, BaseInv, TypeOK, FanoutOK, RecipientsOK
<1>1. /\ fan[n].pc = "loop" /\ e \notin fan[n].done
      /\ recip' = recip \/ recip' = [recip EXCEPT ![n][e] = CreateRecipient(@)]
      /\ UNCHANGED <<sendTask, send>>
  BY DEF FanoutInsertRecipient, ToEnqueue, sendVars
<1>2. fanTask'[n].state # "none" /\ fan'[n].pc # "acking" /\ fan'[n].done \subseteq fan[n].done
  <2>1. CASE reply = "ok"
    <3>1. fan' = [fan EXCEPT ![n].pc = "inserted", ![n].cur = e]
          /\ fanTask' = fanTask /\ fanTask[n].state # "none"
      BY <1>0, <1>1, <2>1 DEF FanoutInsertRecipient, StagesInv
    <3>2. QED
      BY <1>0, <3>1 DEF FanLocals
  <2>2. CASE reply # "ok"
    <3>1. FanoutReturnsError(n)
      BY <2>2 DEF FanoutInsertRecipient
    <3>2. QED
      BY <1>0, <3>1, FanoutLeaves
  <2>3. QED
    BY <2>1, <2>2
<1>3. CASE recip'[n][d] = recip[n][d]
  <2>1. Unsent(n, d)
    BY <1>1, <1>3 DEF Unsent, Live
  <2>2. QED
    BY <1>0, <1>1, <1>2, <2>1 DEF AheadInv, AheadOf
<1>4. CASE recip'[n][d] # recip[n][d]
  <2>1. d = e /\ recip[n][d] = "absent"
    BY <1>0, <1>1, <1>4 DEF CreateRecipient
  <2>2. \A p \in Providers : sendTask[n][d][p].state = "none"
    BY <1>0, <2>1 DEF BaseInv, TaskInv
  <2>3. QED
    BY <1>1, <1>2, <2>1, <2>2 DEF AheadOf
<1>5. QED
  BY <1>3, <1>4

\* After EnqueueSend a task sees to the row, the one it adds or the one it met.
LEMMA FanoutEnqueueAhead ==
  ASSUME LostInv, NEW n \in Notifs, NEW reply \in Replies,
         FanoutEnqueueSend(n, reply), Explicit(n), NEW d \in Devices, Unsent(n, d)'
  PROVE  AheadOf(n, d)'
<1>0. /\ BaseInv /\ StagesInv(n) /\ AheadInv(n)
      /\ fan \in [Notifs -> FanLocals] /\ fan[n] \in FanLocals
      /\ sendTask \in [Notifs -> [Devices -> [Providers -> Task(SendMaxRetry)]]]
  BY DEF LostInv, CountedInv, KeysInv, BaseInv, TypeOK, FanoutOK, SendOK
<1>1. PICK e \in Devices, p \in Providers :
        /\ e = fan[n].cur /\ p = fan[n].snap[e] /\ UNCHANGED <<recip, send>>
  <2>1. fan[n].pc = "inserted" /\ fan[n].cur \in fan[n].ids
    BY <1>0 DEF FanoutEnqueueSend, BaseInv, FanoutInv
  <2>2. fan[n].snap[fan[n].cur] \in ProviderChoices[fan[n].cur]
    BY <1>0, <2>1 DEF BaseInv, FanoutInv
  <2>3. fan[n].cur \in Devices
    BY <1>0, <2>1 DEF FanLocals
  <2>4. fan[n].snap[fan[n].cur] \in Providers
    BY <2>2, <2>3, SetsAssumption
  <2>5. QED
    BY <2>3, <2>4 DEF FanoutEnqueueSend
<1>2. /\ reply = "failed" => sendTask' = sendTask
      /\ reply # "failed" => sendTask' = [sendTask EXCEPT ![n][e][p] = EnqueueOnce(@)]
  BY <1>1 DEF FanoutEnqueueSend, Applied
<1>3. /\ fanTask'[n].state # "none" /\ fan'[n].pc # "acking"
      /\ fan'[n].done \subseteq fan[n].done \cup {e}
      /\ reply # "ok" => fan'[n].done = {}
  <2>1. CASE reply = "ok"
    <3>1. fan' = [fan EXCEPT ![n].pc = "loop", ![n].cur = NoOne, ![n].done = @ \cup {e}]
          /\ fanTask' = fanTask /\ fanTask[n].state # "none"
      BY <1>0, <1>1, <2>1 DEF FanoutEnqueueSend, StagesInv
    <3>2. QED
      BY <1>0, <2>1, <3>1 DEF FanLocals
  <2>2. CASE reply # "ok"
    <3>1. FanoutReturnsError(n)
      BY <2>2 DEF FanoutEnqueueSend
    <3>2. QED
      BY <1>0, <3>1, FanoutLeaves
  <2>3. QED
    BY <2>1, <2>2
<1>4. CASE sendTask'[n][d] = sendTask[n][d]
  <2>1. Unsent(n, d) /\ AheadOf(n, d)
    BY <1>0, <1>1, <1>4 DEF Unsent, Live, AheadInv
  <2>2. d # e \/ reply # "ok"
    <3> SUFFICES ASSUME d = e, reply = "ok"
                 PROVE  FALSE
      OBVIOUS
    <3>1. sendTask'[n][e][p] = EnqueueOnce(sendTask[n][e][p])
      BY <1>0, <1>2
    <3>2. sendTask[n][e][p].state = "none"
      BY <1>4, <2>1 DEF AheadOf
    <3>3. sendTask'[n][e][p].state = "queued"
      BY <3>1, <3>2 DEF EnqueueOnce, NewTask
    <3>4. QED
      BY <1>4, <3>2, <3>3
  <2>3. d \notin fan'[n].done
    BY <1>3, <2>1, <2>2 DEF AheadOf
  <2>4. QED
    BY <1>3, <1>4, <2>1, <2>3 DEF AheadOf
<1>5. CASE sendTask'[n][d] # sendTask[n][d]
  <2>1. d = e /\ reply # "failed"
    BY <1>0, <1>2, <1>5
  <2>2. sendTask[n][e][p].state = "none"
    BY <1>0, <1>2, <1>5, <2>1 DEF EnqueueOnce
  <2>3. sendTask'[n][e][p].state = "queued"
    BY <1>0, <1>2, <2>1, <2>2 DEF EnqueueOnce, NewTask
  <2>4. send'[n][e][p] = "idle"
    BY <1>0, <1>1, <2>2 DEF BaseInv, TaskInv
  <2>5. Live(n, d)'
    BY <2>1, <2>3, <2>4 DEF Live
  <2>6. QED
    BY <2>5 DEF Unsent
<1>6. QED
  BY <1>4, <1>5

\* A send handler stops seeing to its row only when the row is closed, or when
\* asynq deletes the task of one that had stopped before.
LEMMA SendStaysLive ==
  ASSUME NoDatabaseErrors, BaseInv, NEW n \in Notifs, NEW d \in Devices, NEW p \in Providers,
         \/ SendStep(n, d, p)
         \/ \E kind \in {"crash", "shutdown"} : SendWorkerStops(n, d, p, kind),
         ~SendAck(n, d, p)
  PROVE  \/ sendTask'[n][d][p].state # "none" /\ send'[n][d][p] # "acking"
         \/ recip'[n][d] \in Terminal
<1> DEFINE Goal == \/ sendTask'[n][d][p].state # "none" /\ send'[n][d][p] # "acking"
                   \/ recip'[n][d] \in Terminal
<1>1. /\ sendTask \in [Notifs -> [Devices -> [Providers -> Task(SendMaxRetry)]]]
      /\ sendTask[n][d][p] \in Task(SendMaxRetry)
      /\ send \in [Notifs -> [Devices -> [Providers -> SendPCs]]]
      /\ recip \in [Notifs -> [Devices -> RecipStatuses]]
      /\ sendTask[n][d][p].state # "none"
  BY SendMovesLemma DEF BaseInv, TypeOK, SendOK, RecipientsOK, SendMoves
<1>2. /\ Requeue(sendTask[n][d][p]).state # "none"
      /\ Archive(sendTask[n][d][p]).state # "none"
      /\ Activate(sendTask[n][d][p]).state # "none"
      /\ Retry(sendTask[n][d][p], SendMaxRetry).state # "none"
  BY <1>1 DEF Task, Requeue, Retry, Archive, Activate
<1>3. CASE \E t : SendReturns(n, d, p, t) /\ t.state # "none"
  BY <1>1, <1>3 DEF SendReturns
<1>4. CASE SendReturnsError(n, d, p) \/ SendThrottled(n, d, p)
  BY <1>2, <1>3, <1>4 DEF SendReturnsError, SendThrottled, RetryThrottled
<1>5. CASE \E pc \in SendPCs \ {"acking"} : SendGoes(n, d, p, pc)
  BY <1>1, <1>5 DEF SendGoes
<1>6. ASSUME NEW reply \in Replies, SendStart(n, d, p, reply)
      PROVE  Goal
  <2>1. CASE reply # "ok"
    BY <1>4, <1>6, <2>1 DEF SendStart
  <2>2. CASE reply = "ok"
    <3>1. /\ send' = [send EXCEPT ![n][d][p] = IF MayAct(recip[n][d]) THEN "checked" ELSE "acking"]
          /\ sendTask' = [sendTask EXCEPT ![n][d][p] = Activate(@)]
          /\ recip' = recip
      BY <1>6, <2>2 DEF SendStart
    <3>2. sendTask'[n][d][p].state # "none"
      BY <1>1, <1>2, <3>1
    <3>3. send'[n][d][p] = "acking" => recip[n][d] \in Terminal
      BY <1>1, <3>1 DEF MayAct
    <3>4. QED
      BY <3>1, <3>2, <3>3
  <2>3. QED
    BY <2>1, <2>2
<1>7. ASSUME NEW reply \in Replies,
             SendMarkSent(n, d, p, reply) \/ SendFailInvalidToken(n, d, p, reply)
      PROVE  Goal
  <2>1. reply = "ok"
    BY <1>7, DatabaseAnswers DEF SendMarkSent, SendFailInvalidToken
  <2>2. SetRecipient(n, d, "sent", reply) \/ SetRecipient(n, d, "failed", reply)
    BY <1>7 DEF SendMarkSent, SendFailInvalidToken
  <2>3. QED
    BY <1>1, <2>1, <2>2 DEF SetRecipient, Applied, Terminal
<1>8. ASSUME NEW reply \in Replies,
             \/ SendMarkSending(n, d, p, reply)
             \/ SendNoCredential(n, d, p, reply)
             \/ SendInvalidateDevice(n, d, p, reply)
             \/ SendTransientError(n, d, p, reply)
      PROVE  Goal
  BY <1>4, <1>5, <1>8 DEF SendMarkSending, SendNoCredential, SendInvalidateDevice,
                          SendTransientError, SendSkipsRetry, SendPCs, Returned
<1>9. CASE \/ SendOverLimit(n, d, p) \/ SendAccepted(n, d, p) \/ SendAnswerLost(n, d, p)
           \/ SendProviderThrottles(n, d, p)
           \/ \E verdict \in {"invalid_token", "transient"} : SendRefused(n, d, p, verdict)
  BY <1>4, <1>5, <1>9 DEF SendOverLimit, SendAccepted, SendAnswerLost, SendProviderThrottles,
                          SendRefused, SendPCs, Returned
<1>10. CASE SendArchive(n, d, p) \/ \E kind \in {"crash", "shutdown"} : SendWorkerStops(n, d, p, kind)
  BY <1>2, <1>3, <1>4, <1>10 DEF SendArchive, SendWorkerStops
<1>11. QED
  BY <1>6, <1>7, <1>8, <1>9, <1>10 DEF SendStep

LEMMA SendAhead ==
  ASSUME NoDatabaseErrors, LostInv, NEW n \in Notifs, NEW d \in Devices, NEW p \in Providers,
         \/ SendStep(n, d, p)
         \/ \E kind \in {"crash", "shutdown"} : SendWorkerStops(n, d, p, kind),
         NEW m \in Notifs, Explicit(m), NEW e \in Devices, Unsent(m, e)'
  PROVE  AheadOf(m, e)'
<1>0. /\ BaseInv /\ AheadInv(m) /\ SendMoves(n, d, p)
      /\ sendTask \in [Notifs -> [Devices -> [Providers -> Task(SendMaxRetry)]]]
      /\ send \in [Notifs -> [Devices -> [Providers -> SendPCs]]]
      /\ recip \in [Notifs -> [Devices -> RecipStatuses]]
  BY SendMovesLemma DEF LostInv, CountedInv, KeysInv, BaseInv, TypeOK, SendOK, RecipientsOK
<1>1. PICK t, pc : /\ sendTask' = [sendTask EXCEPT ![n][d][p] = t]
                   /\ send' = [send EXCEPT ![n][d][p] = pc]
  BY <1>0 DEF SendMoves
<1>2. CASE m # n \/ e # d
  <2>1. sendTask'[m][e] = sendTask[m][e]
    BY <1>0, <1>1, <1>2
  <2>2. send'[m][e] = send[m][e]
    BY <1>0, <1>1, <1>2
  <2>3. recip'[m][e] = recip[m][e]
    BY <1>0, <1>2 DEF SendMoves
  <2>4. Unsent(m, e)
    BY <2>1, <2>2, <2>3 DEF Unsent, Live
  <2>5. QED
    BY <1>0, <2>1, <2>4 DEF AheadInv, AheadOf, SendMoves
<1>3. CASE m = n /\ e = d
  <2>1. ~(sendTask'[n][d][p].state # "none" /\ send'[n][d][p] # "acking")
    BY <1>3 DEF Unsent, Live
  <2>2. recip'[n][d] \notin Terminal
    BY <1>3 DEF Unsent, Terminal
  <2>3. SendAck(n, d, p)
    BY <1>0, <2>1, <2>2, SendStaysLive
  <2>4. recip' = recip /\ send[n][d][p] = "acking"
    BY <2>3 DEF SendAck
  <2>5. \A q \in Providers : q # p =>
          sendTask'[n][d][q] = sendTask[n][d][q] /\ send'[n][d][q] = send[n][d][q]
    BY <1>0, <1>1
  <2>6. Unsent(n, d)
    BY <1>3, <2>4, <2>5 DEF Unsent, Live
  <2>7. sendTask[n][d][p].state = "none"
    BY <1>0, <1>3, <2>6 DEF AheadInv, AheadOf
  <2>8. QED
    BY <1>0, <2>7 DEF SendMoves
<1>4. QED
  BY <1>2, <1>3

LEMMA NextLost == NoDatabaseErrors => (LostInv /\ [Next]_vars => LostInv')
<1> SUFFICES ASSUME NoDatabaseErrors, LostInv, [Next]_vars, NEW m \in Notifs
             PROVE  AheadInv(m)'
  BY NextCount DEF LostInv
<1>0. BaseInv /\ AheadInv(m)
  BY DEF LostInv, CountedInv, KeysInv
<1>1. CASE UNCHANGED <<notif, recip, fan, fanTask, sendTask, send>>
  BY <1>0, <1>1, AheadFrame DEF Explicit
<1>2. CASE Registration
  BY <1>1, <1>2 DEF Registration, RegisterDevice, SupersedeDevice, intakeVars, fanVars, sendVars
<1>3. ASSUME NEW n \in Notifs, Intake(n)
      PROVE  AheadInv(m)'
  BY <1>3, IntakeAhead
<1>4. ASSUME NEW n \in Notifs,
             FanoutStep(n) \/ \E kind \in {"crash", "shutdown"} : FanoutWorkerStops(n, kind)
      PROVE  AheadInv(m)'
  <2>0. StagesInv(n)
    BY DEF LostInv, CountedInv, KeysInv
  <2>1. CASE m # n
    <3>1. /\ notif'[m] = notif[m] /\ fan'[m] = fan[m] /\ fanTask'[m] = fanTask[m]
          /\ recip'[m] = recip[m] /\ sendTask'[m] = sendTask[m] /\ send'[m] = send[m]
      BY <1>0, <1>4, <2>0, <2>1, FanoutOthers
    <3>2. QED
      BY <1>0, <3>1, AheadFrame DEF Explicit
  <2>2. CASE m = n
    <3>1. "ok" \in Replies
      BY DEF Replies
    <3>2. Explicit(n)' => Explicit(n)
      BY <1>0, <1>4, <2>0, FanoutMovesLemma DEF FanoutMoves, Explicit
    <3>3. Explicit(n) => \A d \in Devices : Unsent(n, d)' => AheadOf(n, d)'
      BY <1>4, <3>1, FanoutOtherAhead, FanoutInsertAhead, FanoutEnqueueAhead DEF FanoutStep
    <3>4. QED
      BY <2>2, <3>2, <3>3 DEF AheadInv
  <2>3. QED
    BY <2>1, <2>2
<1>5. ASSUME NEW n \in Notifs, NEW d \in Devices, NEW p \in Providers,
             \/ SendStep(n, d, p)
             \/ \E kind \in {"crash", "shutdown"} : SendWorkerStops(n, d, p, kind)
      PROVE  AheadInv(m)'
  <2>1. Explicit(m)' => Explicit(m)
    BY <1>0, <1>5, SendMovesLemma DEF SendMoves, Explicit
  <2>2. QED
    BY <1>5, <2>1, SendAhead DEF AheadInv
<1>6. CASE UNCHANGED vars
  BY <1>1, <1>6 DEF vars
<1>7. QED
  BY <1>2, <1>3, <1>4, <1>5, <1>6 DEF Next, WorkerStops

LEMMA InitLost == Init => LostInv
<1> SUFFICES ASSUME Init, NEW n \in Notifs
             PROVE  AheadInv(n)
  BY InitCount DEF LostInv
<1>1. \A d \in Devices : recip[n][d] = "absent"
  BY DEF Init
<1>2. QED
  BY <1>1 DEF AheadInv, Unsent

\* No recipient of explicit device ids is lost as long as the database answers: at
\* any time an open row has a task that will see to it, or that was archived,
\* through any number of failed enqueues, crashes, shutdowns and retries.
THEOREM NothingLostAlways ==
  ASSUME NoDatabaseErrors
  PROVE  Spec => []NothingLost
<1>1. LostInv => NothingLost
  <2> SUFFICES ASSUME LostInv, NEW n \in Notifs, NEW d \in Devices,
                      Explicit(n), recip[n][d] \in {"queued", "sending"}
               PROVE  Attended(n, d)
    BY DEF NothingLost
  <2>1. CASE Live(n, d)
    BY <2>1 DEF Live, Attended
  <2>2. CASE ~Live(n, d)
    BY <2>2 DEF LostInv, AheadInv, Unsent, AheadOf, Attended
  <2>3. QED
    BY <2>1, <2>2
<1>2. QED
  BY <1>1, InitLost, NextLost, PTL DEF Spec
=============================================================================
