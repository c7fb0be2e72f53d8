------------------------------ MODULE Observers ------------------------------
(***************************************************************************)
(* Who watches a notification from outside while the pipeline works on it: *)
(* the notification page of the dashboard, which polls a fragment until    *)
(* every recipient is terminal, and the loadtest command, which registers  *)
(* devices, creates notifications and polls the public API until they are  *)
(* done (internal/dashboard/notifications.go, the GET handler of           *)
(* internal/transport/http/notifications.go, cmd/server/loadtest.go).      *)
(*                                                                         *)
(* Both decide from two statements that see the database at two times: the *)
(* notification with its total_recipients, and the counts of its recipient *)
(* rows by status.  Of the pipeline only what they can tell apart is kept: *)
(* a recipient row is absent, open (queued or sending) or closed (sent or  *)
(* failed), and the fan-out sets the total once the rows of all the        *)
(* devices it resolved exist (TotalsExact of Dispatch).  The devices of a  *)
(* group are resolved again by every attempt, and the row of a device that *)
(* moved to another provider may be opened again by its second send (the   *)
(* run two_queues of Dispatch).  That a fan-out is not run again once it   *)
(* is acknowledged is not kept: here it may always be.                     *)
(*                                                                         *)
(* Left out: latencies, percentiles and the printed report, the columns a  *)
(* page shows beside the status, pages that make a single read.            *)
(***************************************************************************)
EXTENDS Naturals, FiniteSets

CONSTANTS
  LoadDevices,   \* the devices the load test registers, one call each
  LoadNotifs,    \* the notifications it creates, one call each
  OtherDevices,  \* devices of other clients, registered before
  OtherNotifs,   \* notifications of other clients
  Pages,         \* browser tabs
  NoNotif,       \* no notification
  Concurrency,   \* --concurrency: slots of the semaphore
  SampleSize     \* how many created notifications are polled: 20

ASSUME ObserversAssumption ==
  /\ LoadNotifs \cap OtherNotifs = {}
  /\ LoadDevices \cap LoadNotifs = {}
  /\ LoadDevices \cap OtherDevices = {} /\ IsFiniteSet(OtherDevices)
  /\ NoNotif \notin LoadNotifs \cup OtherNotifs
  /\ Concurrency \in Nat \ {0}
  /\ SampleSize \in Nat

Notifs == LoadNotifs \cup OtherNotifs
Devices == LoadDevices \cup OtherDevices
Calls == LoadDevices \cup LoadNotifs

VARIABLES
  devices,   \* registered devices
  group,     \* notifications made for subscribers, tags or everyone
  reopened,  \* notifications of which a row was opened again
  targets,   \* the devices a notification is for, as last resolved; {} before it exists
  total,     \* notifications.total_recipients
  recip,     \* notification_recipients, by notification and device: absent, open or closed
  phase,     \* the phase of the load test
  call,      \* each registration and each creation of the load test
  sem,       \* slots taken of runConcurrent's semaphore
  poll,      \* each poller of pollCompletion
  page       \* each tab

db == <<devices, group, reopened, targets, total, recip>>
loadtest == <<phase, call, sem, poll>>
vars == <<devices, group, reopened, targets, total, recip, phase, call, sem, poll, page>>

Rows(n) == {d \in Devices : recip[n][d] # "absent"}

\* CountRecipientStatuses, added up over the terminal statuses; "delivered" is
\* never written.
TerminalCount(n) == Cardinality({d \in Devices : recip[n][d] = "closed"})

(***************************************************************************)
(* The pipeline                                                            *)
(***************************************************************************)
\* Another client creates a notification, for the ids of devices or for a group.
CreateOther(n, devs, groups) ==
  /\ n \in OtherNotifs /\ targets[n] = {}
  /\ targets' = [targets EXCEPT ![n] = devs]
  /\ group' = group \cup groups
  /\ UNCHANGED <<devices, reopened, total, recip, loadtest, page>>

\* An attempt of the fan-out resolves the group again.  One that finds nobody
\* changes nothing an observer reads.
ResolveGroup(n, devs) ==
  /\ n \in group
  /\ targets' = [targets EXCEPT ![n] = devs]
  /\ UNCHANGED <<devices, group, reopened, total, recip, loadtest, page>>

\* The fan-out inserts the rows of the devices, one by one...
InsertRow(n, d) ==
  /\ d \in targets[n] /\ recip[n][d] = "absent"
  /\ recip' = [recip EXCEPT ![n][d] = "open"]
  /\ UNCHANGED <<devices, group, reopened, targets, total, loadtest, page>>

SetTotals_early(n) ==
  /\ targets[n] # {} /\ Rows(n) # {}
  /\ total' = [total EXCEPT ![n] = Cardinality(targets[n])]
  /\ UNCHANGED <<devices, group, reopened, targets, recip, loadtest, page>>
\* ... and then sets the total to how many this attempt resolved.
SetTotals(n) ==
  /\ targets[n] # {} /\ targets[n] \subseteq Rows(n)
  /\ total' = [total EXCEPT ![n] = Cardinality(targets[n])]
  /\ UNCHANGED <<devices, group, reopened, targets, recip, loadtest, page>>

\* A send closes its recipient as sent or failed.
CloseRecipient(n, d) ==
  /\ recip[n][d] = "open"
  /\ recip' = [recip EXCEPT ![n][d] = "closed"]
  /\ UNCHANGED <<devices, group, reopened, targets, total, loadtest, page>>

\* Another client has registered its device again, for another provider, and a second
\* fan-out enqueued it there: that send marks the recipient sending whatever its status.
ReopenRecipient(n, d) ==
  /\ d \in OtherDevices /\ recip[n][d] = "closed"
  /\ recip' = [recip EXCEPT ![n][d] = "open"]
  /\ reopened' = reopened \cup {n}
  /\ UNCHANGED <<devices, group, targets, total, loadtest, page>>

(***************************************************************************)
(* The load test                                                           *)
(***************************************************************************)
PhaseCalls == CASE phase = "register" -> LoadDevices
                [] phase = "create" -> LoadNotifs
                [] OTHER -> {}

\* runConcurrent: the loop takes a slot and starts the goroutine of the next call.
StartCall(c) ==
  /\ c \in PhaseCalls /\ call[c] = "todo"
  /\ sem < Concurrency
  /\ sem' = sem + 1
  /\ call' = [call EXCEPT ![c] = "sent"]
  /\ UNCHANGED <<db, phase, poll, page>>

Released_onSuccess(outcome) == IF outcome = "ok" THEN sem - 1 ELSE sem
\* The deferred receive gives the slot back however the call ended.
Released(outcome) == sem - 1

\* postAndDecodeID returned; its result is recorded.
Returned(c, outcome) ==
  /\ call' = [call EXCEPT ![c] = outcome]
  /\ sem' = Released(outcome)
  /\ UNCHANGED <<phase, poll, page>>

\* POST /api/v1/devices; a timeout or a reply that is lost counts as an error.
RegisterDevice(d, outcome) ==
  /\ d \in LoadDevices /\ call[d] = "sent"
  /\ devices' = devices \cup {d}
  /\ Returned(d, outcome)
  /\ UNCHANGED <<group, reopened, targets, total, recip>>

\* POST /api/v1/notifications for one of the devices whose registration succeeded.
CreateNotification(n, d, outcome) ==
  /\ n \in LoadNotifs /\ call[n] = "sent"
  /\ d \in LoadDevices /\ call[d] = "ok"
  /\ targets' = [targets EXCEPT ![n] = {d}]
  /\ Returned(n, outcome)
  /\ UNCHANGED <<devices, group, reopened, total, recip>>

\* The request never got there, or was refused.
CallFails(c) ==
  /\ call[c] = "sent"
  /\ Returned(c, "err")
  /\ UNCHANGED db

PhaseOver == \A c \in PhaseCalls : call[c] \in {"ok", "err"}

\* wg.Wait returns: without a device the test is over.
EndRegister ==
  /\ phase = "register" /\ PhaseOver
  /\ phase' = IF \A d \in LoadDevices : call[d] = "err" THEN "aborted" ELSE "create"
  /\ UNCHANGED <<db, call, sem, poll, page>>

NoPoll == [pc |-> "none", total |-> 0, late |-> FALSE]

\* A random sample of the calls, the failed ones included, which are skipped: one
\* goroutine for each other.
EndCreate(sample) ==
  /\ phase = "create" /\ PhaseOver
  /\ Cardinality(sample) = IF Cardinality(LoadNotifs) > SampleSize
                           THEN SampleSize ELSE Cardinality(LoadNotifs)
  /\ phase' = "poll"
  /\ poll' = [n \in LoadNotifs |->
                IF n \in sample /\ call[n] = "ok" THEN [poll[n] EXCEPT !.pc = "get"] ELSE poll[n]]
  /\ UNCHANGED <<db, call, sem, page>>

PollGoto(n, pc) == poll' = [poll EXCEPT ![n].pc = pc, ![n].total = 0]

\* handleGetNotification reads the notification...
GetNotification(n) ==
  /\ poll[n].pc = "get"
  /\ poll' = [poll EXCEPT ![n].pc = "counts", ![n].total = total[n]]
  /\ UNCHANGED <<db, phase, call, sem, page>>

\* notificationDone
NotificationDone_noTotal(read, terminal) == terminal >= read
NotificationDone(read, terminal) == read # 0 /\ terminal >= read

\* ... then the counts; the poller decides.  The answer is forgotten.
GetCounts(n) ==
  /\ poll[n].pc = "counts"
  /\ PollGoto(n, IF NotificationDone(poll[n].total, TerminalCount(n)) THEN "completed" ELSE "check")
  /\ UNCHANGED <<db, phase, call, sem, page>>

GetFails(n) ==
  /\ poll[n].pc \in {"get", "counts"}
  /\ PollGoto(n, "check")
  /\ UNCHANGED <<db, phase, call, sem, page>>

\* The deadline counts from the creation, so it can pass before the first poll.
DeadlinePasses(n) ==
  /\ call[n] = "ok" /\ ~poll[n].late
  /\ poll' = [poll EXCEPT ![n].late = TRUE]
  /\ UNCHANGED <<db, phase, call, sem, page>>

\* After a poll that was not the last: give up past the deadline, or sleep and poll again.
CheckDeadline(n) ==
  /\ poll[n].pc = "check"
  /\ PollGoto(n, IF poll[n].late THEN "timedout" ELSE "get")
  /\ UNCHANGED <<db, phase, call, sem, page>>

EndPoll ==
  /\ phase = "poll"
  /\ \A n \in LoadNotifs : poll[n].pc \in {"none", "completed", "timedout"}
  /\ phase' = "done"
  /\ UNCHANGED <<db, call, sem, poll, page>>

(***************************************************************************)
(* The notification page                                                   *)
(***************************************************************************)
NoPage == [pc |-> "closed", notif |-> NoNotif, total |-> 0, shown |-> {}, first |-> FALSE]

Waiting(v) == [NoPage EXCEPT !.pc = "waiting", !.notif = page[v].notif]

\* A tab opens the page of a notification that exists.
OpenPage(v, n) ==
  /\ page[v].pc \in {"closed", "stopped"}
  /\ targets[n] # {}
  /\ page' = [page EXCEPT ![v] = [NoPage EXCEPT !.pc = "notification", !.notif = n, !.first = TRUE]]
  /\ UNCHANGED <<db, loadtest>>

\* htmx asks for the fragment again, every two seconds.
PollFragment(v) ==
  /\ page[v].pc = "waiting"
  /\ page' = [page EXCEPT ![v].pc = "notification"]
  /\ UNCHANGED <<db, loadtest>>

\* notificationRecipients: GetNotificationByID, then ListNotificationRecipients.
ReadNotification(v) ==
  /\ page[v].pc = "notification"
  /\ page' = [page EXCEPT ![v].pc = "rows", ![v].total = total[page[v].notif]]
  /\ UNCHANGED <<db, loadtest>>

ReadRows(v) ==
  /\ page[v].pc = "rows"
  /\ page' = [page EXCEPT ![v].pc = "counts", ![v].shown = Rows(page[v].notif)]
  /\ UNCHANGED <<db, loadtest>>

\* RecipientCounts.Terminal
TerminalAt_more(read, terminal) == terminal > read
TerminalAt_started(read, terminal) == read = 0 \/ terminal > 0
TerminalAt(read, terminal) == terminal >= read

\* RecipientStatusCounts, and the page or the fragment is rendered: it polls on
\* unless all recipients are terminal, and then nothing it read is used again.
Render(v) ==
  LET done == TerminalAt(page[v].total, TerminalCount(page[v].notif))
  IN /\ page[v].pc = "counts"
     /\ page' = [page EXCEPT ![v] = IF done THEN [@ EXCEPT !.pc = "stopped", !.first = FALSE]
                                           ELSE Waiting(v)]
     /\ UNCHANGED <<db, loadtest>>

\* An error: in place of the page, or of a fragment, which htmx does not swap in.
ReadFails(v) ==
  /\ page[v].pc \in {"notification", "rows", "counts"}
  /\ page' = [page EXCEPT ![v] = IF page[v].first THEN NoPage ELSE Waiting(v)]
  /\ UNCHANGED <<db, loadtest>>

Init ==
  /\ devices = OtherDevices
  /\ group = {}
  /\ reopened = {}
  /\ targets = [n \in Notifs |-> {}]
  /\ total = [n \in Notifs |-> 0]
  /\ recip = [n \in Notifs |-> [d \in Devices |-> "absent"]]
  /\ phase \in {"register", "done"}   \* the load test is run, or it is not
  /\ call = [c \in Calls |-> "todo"]
  /\ sem = 0
  /\ poll = [n \in LoadNotifs |-> NoPoll]
  /\ page = [v \in Pages |-> NoPage]

PipelineStep(n) ==
  \/ SetTotals(n)
  \/ \E devs \in (SUBSET devices) \ {{}} :
       ResolveGroup(n, devs) \/ \E groups \in {{}, {n}} : CreateOther(n, devs, groups)
  \/ \E d \in Devices : InsertRow(n, d) \/ CloseRecipient(n, d) \/ ReopenRecipient(n, d)

CallReturns(c) ==
  \/ \E outcome \in {"ok", "err"} :
       RegisterDevice(c, outcome) \/ \E d \in LoadDevices : CreateNotification(c, d, outcome)
  \/ CallFails(c)

PollStep(n) == GetNotification(n) \/ GetCounts(n) \/ GetFails(n) \/ CheckDeadline(n)

PhaseStep == EndRegister \/ (\E sample \in SUBSET LoadNotifs : EndCreate(sample)) \/ EndPoll

PageStep(v) ==
  PollFragment(v) \/ ReadNotification(v) \/ ReadRows(v) \/ Render(v) \/ ReadFails(v)

Next ==
  \/ \E n \in Notifs : PipelineStep(n) \/ \E v \in Pages : OpenPage(v, n)
  \/ \E c \in Calls : StartCall(c) \/ CallReturns(c)
  \/ \E n \in LoadNotifs : PollStep(n) \/ DeadlinePasses(n)
  \/ PhaseStep
  \/ \E v \in Pages : PageStep(v)

\* The client's calls end by its timeout of ten seconds, its goroutines run on and
\* time passes.  A tab polls on, and a statement that is tried every two seconds
\* succeeds some time.  The pipeline owes its observers nothing.
Fairness ==
  /\ WF_vars(\E c \in Calls : StartCall(c))
  /\ \A c \in Calls : WF_vars(CallReturns(c))
  /\ WF_vars(PhaseStep)
  /\ \A n \in LoadNotifs : WF_vars(PollStep(n)) /\ WF_vars(DeadlinePasses(n))
  /\ \A v \in Pages :
       WF_vars(PollFragment(v)) /\ SF_vars(ReadNotification(v)) /\ SF_vars(ReadRows(v)) /\ SF_vars(Render(v))

Spec == Init /\ [][Next]_vars /\ Fairness

(***************************************************************************)
(* Properties                                                              *)
(***************************************************************************)
\* A notification that names its devices, each sent to from one queue.
Steady(n) == n \notin group /\ n \notin reopened

\* The types, and what the database promises its readers: no total above the number of
\* rows, and when the notification names its devices, no total before all their rows.
TypeOK ==
  /\ phase \in {"register", "create", "poll", "done", "aborted"}
  /\ call \in [Calls -> {"todo", "sent", "ok", "err"}]
  /\ sem \in 0..Concurrency
  /\ \A n \in LoadNotifs : poll[n].pc \in {"none", "get", "counts", "check", "completed", "timedout"}
  /\ \A v \in Pages : page[v].pc \in {"closed", "notification", "rows", "counts", "waiting", "stopped"}
  /\ \A n \in Notifs :
       /\ Rows(n) \subseteq devices /\ targets[n] \subseteq devices
       /\ total[n] <= Cardinality(Rows(n))
       /\ n \notin group /\ total[n] # 0 =>
            Rows(n) = targets[n] /\ total[n] = Cardinality(targets[n])

AllTerminal(n) == \A d \in targets[n] \cup Rows(n) : recip[n][d] = "closed"

\* notificationDone, "whether every recipient under id has reached a terminal state":
\* a completion the load test records is one, although the total and the counts are
\* read at two times and rows are closed before the total is set.  Its notifications
\* name one device each, which nobody else registers.
CompletionTruthful == \A n \in LoadNotifs : poll[n].pc = "completed" => AllTerminal(n)

\* The notification page: one that stopped polling over a total it had read, of a
\* notification that names its devices, lists every recipient, and all of them are
\* terminal.  The order of the three reads is what makes it so: a total that is not 0
\* is read before the rows it counts.  Of a group it is not so: an attempt that resolves
\* fewer devices sets a total that the closed rows can reach over open ones.
FinalPageComplete ==
  \A v \in Pages :
    page[v].pc = "stopped" /\ page[v].total # 0 /\ Steady(page[v].notif) =>
      page[v].shown = targets[page[v].notif] /\ AllTerminal(page[v].notif)

\* "Terminal reports whether every recipient has reached a terminal status": said of
\* any page that stopped, and "live-updates until every recipient reaches a terminal
\* state" of dashboard.md.  The code does not guarantee it: until the fan-out sets the
\* total it is 0, and Terminal(0) holds over open recipients.
DashboardStopsWhenTerminal ==
  \A v \in Pages : page[v].pc = "stopped" => AllTerminal(page[v].notif)

\* runLoadTest comes to an end whatever the pipeline and the API do.
LoadTestEnds == <>(phase \in {"done", "aborted"})

\* A page stops polling once its notification is settled and stays so.
PollingStops ==
  \A v \in Pages, n \in Notifs :
    page[v].notif = n /\ total[n] # 0 /\ AllTerminal(n) /\ Steady(n)
      ~> page[v].pc \in {"closed", "stopped"} \/ ~Steady(n)
=============================================================================
