# slay-push: TLA+ verification project

slay-push is a self-hosted push notification service: an HTTP API takes devices
and notifications, a worker fans each notification out to its audience and sends
to FCM, APNs, Expo or HMS, and a dashboard lets an operator look on. State lives
in Postgres (rows) and Redis (asynq tasks, rate limits). The modules in this
directory model the parts whose correctness depends on the order in which
requests, workers and failures interleave. `PROJECT.json` maps every definition
to its source lines and lists the runs, the theorems, the findings and the
hazards.

## 1. Inventory

| Component | State | Operations | Talks to |
|---|---|---|---|
| Notification pipeline (`internal/dispatch`) | `notifications`, `notification_recipients` rows | `CreateNotification`, `HandleFanout`, `HandleSend` | queues, targeting, adapters, device rows |
| Task queues (`internal/queue`, asynq) | one task per fanout, one per recipient and provider queue | `EnqueueFanout`, `EnqueueSend`, `RetryDelayFunc`, `IsFailure` | handlers of the worker process |
| Targeting (`internal/targeting`) | none | `Resolve`: explicit ids, or active devices of external ids | device and subscriber rows |
| Outbound limiter (`outbound_limiter.go`) | Redis buckets | `Allow` | `HandleSend` |
| Device registry (`transport/http/devices.go`) | `devices`, `subscribers` rows, advisory lock | `handleRegisterDevice`, `MarkDeviceStatus` | targeting reads it, the send handler invalidates |
| Provider adapters (`internal/provider`) | cached clients and tokens | `Send`, `TestCredential` | `HandleSend`, the providers |
| HMS token cache (`provider/hms`) | one cached token per credential | `accessTokenFor`, `invalidateToken` | concurrent sends |
| Dashboard accounts (`internal/dashboard`, `internal/auth`) | `users`, `sessions` rows | setup, bootstrap, login, logout, `requireSession`, reset-password | dashboard pages |
| API keys (`internal/apikey`) | `api_keys` rows, Redis buckets | `requireScope`, `Allow`, create, revoke | every API request |
| Credential store (`internal/crypto`, `dashboard/providers.go`) | `provider_credentials` rows | upsert, test, `Seal`, `Open` | `HandleSend` |
| Projects (`dashboard/projects.go`) | `projects` rows | create, by page or command | keys, credentials |
| Notification page (`dashboard/notifications.go`, `templates/`) | what a browser tab shows | detail page, polled fragment | notification and recipient rows |
| Load test (`cmd/server/loadtest.go`) | its phases, a semaphore, pollers | register, create, poll | the public API |
| Other pages, CLI, config, platform | none of their own, or a log batch | read rows, render | the rows above |

What is hard here:

* **Concurrency.** API processes, any number of workers and the dashboard share
  rows without transactions, except in device registration. A handler reads a
  row, calls a provider and writes the row.
* **Failure.** Postgres and Redis calls fail, with or without effect; workers
  crash or are shut down mid-handler; a provider's answer is lost.
* **Retry.** asynq runs a handler again from its start: each handler has to find
  what an earlier attempt has done. Being throttled retries without limit.
* **Ordering.** Detached writes, late token stores, tasks of two queues.
* **Several reads.** The page, the API and the load test conclude from two or three
  statements that see the database at different times.

What makes each part correct: a recipient is closed once and truthfully and never
lost; totals and idempotency keys mean what they say; one active row per physical
device; a dead token leaves the cache; verdicts of the adapters are justified by
the provider's answers; accounts, sessions and keys end when they should; the two
ceilings of the inbound limiter fit together; a stored
credential opens, and a test or a push uses the credential it read; observers
conclude nothing that is not so, and stop. The hazards
list in `PROJECT.json` gives the lines.

## 2. Modules

| Module | Models | Extends or instantiates |
|---|---|---|
| `Dispatch` | intake, fanout, send, queues, targeting | `DeliveryContract` (as `Contract`) |
| `DeliveryContract` | what the pipeline promises about each recipient row | |
| `DeviceRegistry` | registration and supersession of devices | |
| `Adapters` | outcome of a push at each provider, over the attempts of a recipient | |
| `HmsTokenCache` | the shared access token of the HMS adapter | |
| `Console` | the dashboard's accounts and sessions | |
| `ApiGate` | API keys, scopes, revocation, the inbound limiter, projects | |
| `CredentialStore` | provider credentials: save, seed, test, use, client caches, master keys | |
| `Observers` | the notification page and the load test, over an abstract pipeline | |
| `DispatchProofs`, `DeviceRegistryProofs`, `AdaptersProofs`, `HmsTokenCacheProofs`, `ConsoleProofs`, `ApiGateProofs`, `CredentialStoreProofs`, `ObserversProofs` | theorems and proofs about the module each is named after | that module, TLAPS |
| `MCDispatch`, `MCDeviceRegistry`, `MCConsole`, `MCApiGate`, `MCCredentialStore`, `MCObservers` | small instances for TLC | the module of the same name |

`Adapters` and `HmsTokenCache` are small enough to be run as they are.

An operator `X_variant` just before an operator `X` is a faulty version of it; the
`mutants` list of `PROJECT.json` says which property notices when `X` is replaced
by it.

### Dispatch

State: `devices` (status, provider), `notif` (status, key, target spec, total),
`req` (the API handler of each request, with its key), `recip` (recipient status by notification
and device), `fanTask`/`fan` (the fanout task and the locals of its handler),
`sendTask`/`send` (one task slot and one program counter per recipient and send
queue), and two histories, `accepts` (pushes the provider accepted) and `faults`.

Every statement, enqueue and provider call is an action: `InsertNotification`,
`ReturnExisting`, `EnqueueFanout` for `CreateNotification`; `FanoutStart` to
`FanoutSetProcessing` for `HandleFanout`; `SendStart` to `SendTransientError` for
`HandleSend`. A handler that returned nil or `SkipRetry` is not the end of its task:
asynq deletes or archives it in a step of its own (`FanoutAck`, `SendAck`,
`SendArchive`), and a worker that dies before it leaves a task that runs again on rows
that are already done with. An intake names device ids that exist (`Known`: clients get
ids from registrations) or ids that never will. A call's reply is `ok`, `failed` (nothing happened) or `unacked` (it
happened, the caller sees an error). Each error is spent from a budget of
`MaxFaults`, restricted to `FaultKinds`:

* `db`: a Postgres statement fails;
* `redis`: an enqueue fails;
* `crash`: a worker or API process dies; asynq recovers the task by its lease;
* `shutdown`: asynq requeues a task whose handler did not finish in time;
* `timeout`: the provider accepts a push and its answer is lost.

asynq is external and modelled from how the code uses it (v0.26): a failed handler
is retried until `retried` reaches `MaxRetry` and then archived; `SkipRetry`
archives at once; an error for which `IsFailure` is false is retried without being
counted; an enqueue under a task id its own queue holds is refused. Assumptions:
archived tasks are kept (their retention is days), a handler whose lease expired
does not run on beside its successor, and delays are ignored (a scheduled retry is
simply queued).

`DeliveryContract` is the abstract specification: a recipient row is created once,
attempted any number of times and closed once, as sent only after an acceptance.
`ImplementsContract` is the refinement, with `status <- recip`.

### DeviceRegistry

A registration with `external_user_id` and `device_uuid` is a READ COMMITTED
transaction: advisory lock, subscriber upsert, device upsert, the update that marks
superseded rows stale (its snapshot, then row by row, waiting for locked rows and
checking again), commit. Uncommitted versions are private (`writes`) and lock their
rows. Any other registration commits statement by statement. `InCycle` and
`DeadlockAborts` are Postgres's deadlock detector. The worker's verdict on a token is
`MarkInvalid`. Handlers are reused, so the run covers any number of registrations,
two at a time.

### Adapters

`Events(p)` enumerates what can happen to a push at provider `p`; `FcmSend`,
`ApnsSend`, `ExpoSend`, `HmsSend` give the `provider.Status`, early returns included;
`Attempt` is what `HandleSend` and asynq do with it over the attempts of one
recipient.

### HmsTokenCache

`Lookup` and `StoreToken` are the two critical sections of `accessTokenFor`,
`FetchToken` the request between them, `InvalidateToken` the eviction after an
authentication error. The provider may drop all tokens it issued, `MaxDrops` times.

### Console

`SetupGate` or `Bootstrap` counts users, `CreateUser` inserts; `Login` reads and
verifies, `CreateSession` inserts; `RequireSession` admits a page and leaves behind
the goroutine `TouchSessionLastUsed`; `Logout` looks the session up and
`RevokeSession` ends it or fails; `LogoutLookupFails` is the lookup that meets a database
error, which `handleLogout` takes for no session. `unrevoked` remembers the tokens whose
logout met an error. Password resets leave sessions alone, as in the code.

### ApiGate

`requireScope` is three steps that others can come between: `ResolveKey` (lookup and
scope), `CheckKey` and `CheckProject` (one Redis command each, which tests and
charges). The limiter's GCRA is a debt in ticks. A tick is as short as one likes: a
project earns a request in `Grain` ticks and a key in `KeyCost = Ratio * Grain`, so an
accepted request costs that much, and both may owe what they earn in a second. `Tick`
pays off one of each and makes every request that is between its two checks older.
`CheckKeyFailsOpen` and `CheckProjectFailsOpen` are Redis errors. `Admit` leaves behind
the goroutine `TouchAPIKeyLastUsed`. `CreateAPIKey` inserts the row, `RenderAPIKeysTab`
hands the raw key out or fails to. The migration's default project exists from the start.

`KeyCeilingsProtectProject` says how much looser "a looser per-project ceiling" is. The
two checks are two round trips, so some time always passes between them, and a key's debt
shrinks in it: two bursts of a key may reach its project closer together than the key
allowed them. The project does not refuse what its keys admitted if they leave room for
that (`RoomFor`): with `n` keys and a ratio of 5, checks up to `(5 - n) / n` seconds apart,
which is a quarter of a second for four keys. The history `disturbed` names the projects
where a second check came later than `MaxDelay` ticks or a Redis error let a key pass
unchecked; it is cleared once the project has paid off its debt and nothing is pending.

### CredentialStore

A sealed credential is a pair of columns: a DEK wrapped by a master key, and a text
encrypted with a DEK. `Open` succeeds only with the key that sealed. A save seals and
then upserts (`StartSave`, `UpsertProviderCredential`); a test or a send reads the row,
opens it with the master key of its process, takes a client from the adapter's cache in
its process or builds one, and uses it. A row belongs to a provider type, and each type has
its own adapter: which credentials it accepts (`Usable`), whether it keeps clients
(`Caching`) and whether it has a tester (`Testing`; a test of Expo only looks at the shape,
`TestShape`). What a test tells the browser is not state. `Restart` starts a process again, without its
cache, under any of the master keys: changing `APP_MASTER_KEY` without sealing the rows
again is something an operator can do. DEKs are random in the code and fresh here;
`FreshDek` takes the smallest that is nowhere in use, since none is better than another.

### Observers

Of the pipeline `InsertRow`, `SetTotals`, `CloseRecipient`, `ResolveGroup` and
`ReopenRecipient` are left: a recipient row is absent, open or closed, and the total is set
to the number of devices an attempt resolved once all of these have rows. A group is
resolved again by every attempt, to any devices; a device of another client may move to
another provider and have its closed row opened again (run `two_queues`). A notification
that meets neither is `Steady`. The load test sends to explicit ids of devices nobody else
registers, so its notifications always are. On top, `handleGetNotification` and the
notification page are one action per statement (`GetNotification`, `GetCounts`;
`ReadNotification`, `ReadRows`, `Render`), and the load test one action per call,
semaphore operation, poll and end of phase. A failed fragment leaves the page as it was,
since htmx does not swap in an error; a failed page leaves none.

## 3. Runs

Passing:

| Run | Instance | Shows |
|---|---|---|
| `core` | two requests, with one key or none, for one device by id, one fault of any kind | types; what a send handler read stays true (`HandlerInv`); outcomes are truthful; every 202 names the one row of its key (`OneFanoutPerKey`); terminal rows do not change (`TerminalStays`); the contract is implemented |
| `recipients` | one notification to two devices, by id or as a group, two faults other than database errors | no open recipient of explicit ids without a task (`NothingLost`); `total_recipients` never above the rows, and exact for explicit ids, over retries and reruns of a finished fanout (`TotalsExact`) |
| `live` | one device, every kind of target, unlimited throttling, two faults other than database errors | an accepted notification for explicit ids is settled, or one of its tasks archived where an operator finds it; without faults one for any target is settled |
| `registration` | two users, two tokens, two registrations at a time, any number of failures and verdicts | nothing uncommitted outlives its handler (`TypeOK`); one active row per physical device, never none in place of one, and no registration waits for ever |
| `token_cache` | two sends, three tokens | authentication errors after a drop are bounded, and sends recover |
| `adapters` | every outcome of every provider | the statuses recorded are the provider's; a throttled push is never retried at once |
| `console` | two handlers, emails, passwords and session tokens | setups drain after the first admin; ended sessions stay ended; a logout ends its session unless one of its two statements failed |
| `api_gate` | two requests at a time, two keys of a project, any number of revocations, Redis errors and ticks, a delay of one tick | a revoked key admits only the requests that had looked it up and never comes back (`RevokedDrains`); keys that leave room for the delay cannot exhaust their project (`KeyCeilingsProtectProject`) |
| `credentials` | two saves, tests or sends at a time, an FCM row that accepts one of two credentials and an Expo row that accepts both, two master keys, a dashboard and a worker that restart | a stored row is the work of one save (`RowsOpen`); a test or a push uses the credential it read (`PushUsesTheRowRead`) |
| `observers` | the load test with two devices, two notifications and concurrency 1, or another client's notification to some of three devices, by id or as a group, and one tab | completions are true (`CompletionTruthful`); a page that stopped over a total of a `Steady` notification lists every recipient, all terminal (`FinalPageComplete`); the load test ends and pages of settled notifications stop polling |

Violations, each stating what the repository says of itself (quotes under
`findings`):

| Run | What happens |
|---|---|
| `two_queues` | a token re-registered under another provider between two fanout attempts gets two tasks, and a closed recipient is reopened |
| `lost_fanout` | the process dies between insert and enqueue; the retry with the same key is answered 202 for a row nobody works on |

More divergences met while modelling. The first five are stated in the modules;
adding the property to the `.cfg` named here reproduces them.

* `NothingLost` (`MCDispatch_recipients.cfg` with `FaultKinds <- DatabaseErrors`):
  `failRecipient` (`handlers.go:53`) only logs an error of its update and `HandleSend`
  then returns nil, with the comment "terminal — no retry": the row stays `sending` and
  no task is left.
* `DashboardStopsWhenTerminal` (`MCObservers.cfg`): `types.go:73` says of `Terminal` that it
  "reports whether every recipient has reached a terminal status", and
  `docs/content/docs/dashboard.md:29` that the page "live-updates until every recipient reaches a
  terminal state". Until `SetNotificationTotals` the total is 0, so a page opened early
  counts every row as terminal and never polls.
* `ClosedOnlyWhenEmpty` (`MCDispatch_recipients.cfg`): a group fanout retried after its
  audience vanished completes a notification that has recipients.
* `FailedFanoutStays` (`MCDispatch_core.cfg` with `FanoutMaxRetry = 1`): the error `fanout_handler.go` calls not
  retryable is retried by asynq, and a retry reopens the failed notification.
* `SetupUnreachable` (`MCConsole.cfg`): two first visits both get past `setupGate` and
  both create an admin.
* A registration with a `device_uuid` and without `external_user_id` bypasses the
  supersession, so a physical device can have two active rows; the inputs of
  `registration` leave it out.
* A group fanout that dies between a recipient's insert and its enqueue, and whose retry
  resolves a group without that device, forgets the recipient: the notification ends
  `processing` (or `completed`, when the group is empty), the row stays queued for ever,
  nothing is archived. `NothingLost` and `AcceptedSettlesOrArchives` are therefore about
  explicit ids; without `Explicit(n)` `MCDispatch_recipients.cfg` finds it.
* The same retry leaves a total below the number of rows; the notification page, which
  compares with the total, then stops over an open recipient. So does a page whose
  recipient is reopened by its second queue. `FinalPageComplete` is about `Steady`
  notifications.
* The notification page reads the rows before the counts: a page that stopped may list a
  recipient as `sending` that the counts it stopped for have as sent.
* A key whose page fails after the insert is active and in nobody's hands (`ApiGate`,
  `RenderAPIKeysTab`).
* With exactly five keys, which is what the factor 5 of `NewRateLimiter` suggests, any
  delay between the two checks lets the project refuse what a key admitted, and the key
  has then paid for a refused request (`ApiGate` with as many keys as `Ratio`, `Grain` 2).
* A logout whose lookup fails clears the cookie and leaves the session active
  (`auth_handlers.go:69`); `LogoutEndsSession` excepts it.
* APNs throttles with status 429 and the reason `TooManyRequests`; a 429 with another
  reason is a transient error and costs the retry budget (`apns.go`, `classifyResponse`).
* A worker that runs with another `APP_MASTER_KEY` than the dashboard fails every
  recipient of the row for good, since `HandleSend` does not retry what does not open; a
  test in the dashboard passes all the same.
* `--concurrency 0` is not refused by the load test: a semaphore without slots blocks it
  for ever. `Observers` assumes at least one.
* A late `StoreToken` brings a dropped HMS token back after an eviction; it costs one
  more authentication error per such store, which `AuthErrorsBounded` counts.

### Bounds

* Two devices are enough for an interleaving of two recipients and for a total that
  differs from the number of rows; recipients do not share state beyond the
  notification. Two notifications are needed only for keys (`core`,
  `lost_fanout`), two devices for recipients side by side (`recipients`).
  `live` has one device; two by id, one fault and no retries of sends was checked as well.
* Retry budgets are 0 or 1 for 3 and 5: the code compares with the budget only, and
  1 covers the first, the last and the exhausted attempt. In `core` the fanout's budget
  is 0 and a crash or a shutdown starts it again; with 1 the run was checked as well
  (1.2 million states). `recipients` and `live` have retries of the fanout after errors.
* One or two faults: each finding needs one; `recipients` and `live` take two, a
  fault during the recovery from the first. The theorems hold for any number.
* Registrations: two at a time is the smallest set with a race and with a lock cycle;
  two users and two tokens let both happen. Handlers are reused, so neither requests
  nor failures are bounded.
* `HmsTokenCache`: one drop and two sends, so that one stores a dropped token after the other
  evicted it; three tokens, recycled, so that the run does not end for lack of one.
* `Adapters`: `MaxRetry` 2, one throttled attempt between others; it stops when the
  recipient is closed, so deadlock is not checked.
* `Console`: two handlers race each other; two session tokens let one session end
  while another is opened. Handlers are reused and nothing is counted.
* `ApiGate`: `Rate` 1 and `Ratio` 3 for the configured rate and 5: a second request at once
  meets the key's ceiling, and two keys with a delay of one tick are exactly as many as
  the project's ceiling carries. All keys are of one project; the other one is the wrong
  project of a revocation. With `Rate` 2 the properties hold as well (6.7 million states,
  too many for a run that is repeated). Requests, revocations and faults are not counted.
* `CredentialStore`: two operations race; two rows share the caches of two processes;
  `MaxDek` 4 is enough for two rows and two operations, so the bound never disables a
  save. One row with two usable credentials and an unusable one, `MaxDek` 3, was checked
  as well (260 thousand states).
* `Observers`: `MCObservers` runs either the load test or the other client and the page:
  they share only the tables, and neither reads what the other wrote. Two calls per phase
  and concurrency 1 make the second wait for the slot of the first; three devices let a
  group shrink and still leave a total the rows reach one by one. The load test ends, so
  deadlock is not checked.

Symmetry is used in runs of invariants and action properties only.

### Fairness

* `Dispatch`: a request and a handler that has started take their next step
  (processes run), a queued task is started (a worker process is up), and a send that
  is tried again and again is not throttled for ever and eventually gets an answer
  (strong fairness): a limiter's bucket refills and its `RetryAfter` is honoured. Faults
  are never fair.
* `DeviceRegistry`: strong fairness of each request's next step: handlers run,
  deadlocks are detected, and lock queues are served in turn, which Postgres's lock
  manager does.
* `HmsTokenCache`: a send is retried, and a fetch and a push that are tried again and
  again succeed some day.
* `Observers`: the client's calls return by its timeout of ten seconds, its goroutines
  run and time passes (weak fairness); an open tab polls again, and a statement that is
  tried every two seconds succeeds some time (strong fairness). The pipeline is not fair:
  the load test ends even if no recipient is ever closed.

## 4. Proofs

Every invariant and every action property that a passing run checks is also a theorem,
for every value of the constants: any number of notifications, devices, requests, keys
or sends, any retry budget and any number of faults. Where a theorem has a hypothesis,
the run it belongs to makes the same restriction. Conditions inside a property
(`Explicit`, `Steady`, `RoomFor`) are part of what is proved.

| Theorem | Statement | Hypothesis |
|---|---|---|
| `DispatchProofs` | | |
| `BaseInvariant` | `Spec => []BaseInv` | |
| `TypeCorrect` | `Spec => []TypeOK` | |
| `HandlersAlone` | `Spec => []HandlerInv` | `OneProviderPerToken` |
| `Implements` | `Spec => ImplementsContract` | `OneProviderPerToken` |
| `TerminalStaysTheorem` | `Spec => TerminalStays` | `OneProviderPerToken` |
| `OutcomesAreTruthful` | `Spec => []OutcomeTruthful` | `OneProviderPerToken` |
| `OneFanoutPerKeyAlways` | `Spec => []OneFanoutPerKey` | |
| `TotalsExactAlways` | `Spec => []TotalsExact` | |
| `NothingLostAlways` | `Spec => []NothingLost` | `NoDatabaseErrors` |
| `DeviceRegistryProofs` | | |
| `RegistryTypeCorrect` | `Spec => []TypeOK` | |
| `OneActivePerPhysicalDeviceAlways` | `Spec => []OneActivePerPhysicalDevice` | `Attributed` |
| `StaleOnlyWithSuccessorAlways` | `Spec => StaleOnlyWithSuccessor` | |
| `HmsTokenCacheProofs` | | |
| `AuthErrorsBoundedAlways` | `Spec => []AuthErrorsBounded` | |
| `AdaptersProofs` | | |
| `VerdictsMeanWhatTheySayAlways` | `Spec => []VerdictsMeanWhatTheySay` | |
| `NoHotRetryAlways` | `Spec => []NoHotRetry` | |
| `ConsoleProofs` | | |
| `ConsoleTypeCorrect` | `Spec => []TypeOK` | |
| `LogoutEndsSessionAlways` | `Spec => []LogoutEndsSession` | |
| `EndedStaysEndedAlways` | `Spec => EndedStaysEnded` | |
| `SetupDrainsAlways` | `Spec => SetupDrains` | |
| `ApiGateProofs` | | |
| `GateTypeCorrect` | `Spec => []TypeOK` | |
| `RevokedDrainsAlways` | `Spec => RevokedDrains` | |
| `KeyCeilingsProtectProjectAlways` | `Spec => []KeyCeilingsProtectProject` | |
| `CredentialStoreProofs` | | |
| `StoreTypeCorrect` | `Spec => []TypeOK` | |
| `RowsOpenAlways` | `Spec => []RowsOpen` | |
| `PushUsesTheRowReadAlways` | `Spec => []PushUsesTheRowRead` | |
| `ObserversProofs` | | |
| `ObserversTypeCorrect` | `Spec => []TypeOK` | |
| `CompletionTruthfulAlways` | `Spec => []CompletionTruthful` | |
| `FinalPageCompleteAlways` | `Spec => []FinalPageComplete` | |

Hypotheses:

* `OneProviderPerToken`: a token is registered with one provider only. It is what push
  tokens are like, the API does not enforce it, and run `two_queues` shows that the
  theorems fail without it.
* `NoDatabaseErrors`: a statement that is executed is answered. It is needed:
  `failRecipient` drops a database error (section 3). Redis errors, crashes, shutdowns and
  lost answers are all allowed, and a token may have several providers.
* `Attributed`: no registration has a `device_uuid` without an `external_user_id`, which
  the code would let bypass the transaction (section 3).

The assumptions on constants are the `ASSUME`s of the modules. They say that null values
are not values, that bounds are numbers, that the devices of `Dispatch` and the sends of
`HmsTokenCache` and the other clients' devices of `Observers` are finitely many (their
number is in a property), that the load test has a slot, and that a call of the
load test is a registration or a creation, not both.

### Arguments

Each theorem rests on an inductive invariant with one preservation step per action; frame
lemmas (`Frame`, `FrameRecipient`, `OutcomeFrame`, `RecipientsFrame`, ...) dispose of the
actions that leave the relevant variables alone.

* **`Dispatch`, handlers.** `TypeOK` alone is not inductive: `BaseInv` adds that a
  registered device has one of its providers (`RegistryInv`), that a fanout handler works on
  existing devices and enqueues for rows it inserted (`FanoutInv`), and that a task stands
  for an existing row while a handler runs only for an active task (`TaskInv`).
  `HandlersInv` is `BaseInv /\ HandlerInv`: since the provider of a device is unique there
  is one task per recipient (`OneTask`), so two handlers never work on one row. Refinement
  and `TerminalStays` need only `HandlersInv`: every step of a handler is a step of the
  contract or a stutter. `OutcomesInv` adds, for the faultless case, that a recipient was
  accepted only if its handler is about to record it or has done so.
* **`Dispatch`, keys.** `StagesInv` orders the stages of a notification: the request's
  insert, its row, its fanout task, the task's handler; each exists only when the one
  before it does. `AnswerInv` keeps the key of a request with the row it was answered with,
  and `OneRowPerKey` makes that row unique; a request answered with another's row never had
  the first stage.
* **`Dispatch`, recipients.** What a fanout has enqueued has a row, and a total was the
  number of such devices (`CountInv`), for any target. `AudienceInv` is about explicit ids:
  since no device row is ever deleted, every attempt that resolves them finds the same
  devices, so its loop passes all of them, and from the first `SetNotificationTotals` on
  rows, targets and total agree, also while a finished fanout runs again. An open row
  without a task that is going to act is ahead of a fanout that still has its task and is
  not about to lose it (`AheadInv`). A send task is deleted only after its handler closed
  the row (`SendMoves`).
* **`DeviceRegistry`.** A transaction holds the advisory lock of its physical device to its
  end (`HandlerInv`, lemma `OneTransactionPerDevice`), its uncommitted rows are the
  registered one and stale ones of the same device (`WritesInv`), and while it supersedes
  every other active row of the device is on its list (`SupersedeInv`). No other step makes
  a row of that device active (`BecomesActive`).
* **`HmsTokenCache`.** A debt: the errors of a send, plus one if what it holds or what is
  cached is a dropped token, plus one for each other send about to store one, never exceed
  the number of sends (`DebtInv`). An error pays one, and only a drop makes new debt.
* **`Adapters`.** A lemma per adapter says which statuses each of its outcomes can give;
  `AttemptsInv` carries them over the attempts.
* **`Console`, `ApiGate`.** What a handler holds is a row that exists (`ConsoleInv`,
  `GateInv`). Counting properties need that the counted sets are finite, which is an
  invariant of its own (`FiniteInv`) since the sets of requests and keys are not assumed
  finite. `KeyCeilingsProtectProject` is a balance (`Backed`): `Ratio` times what the project
  owes and is about to be charged is covered by what its keys owe and what they may have
  paid off in `MaxDelay` ticks (`Covered`). A tick pays off as many ticks of debt as there
  are keys and `Ratio` of the project's, so the balance stays while the project owes
  anything; once it owes nothing, only pending requests count, and those whose key was
  charged `a` ticks ago are backed up to what the keys have paid off since (`Prompt`).
  Projects with more keys than `Ratio` are outside the balance, and `RoomFor` excludes them.
* **`CredentialStore`.** A row, and what an operation is about to save, is one `Seal` with a
  DEK nobody else uses (`SealInv`); a cached client is that of the credential it is cached
  under, and one its adapter accepts (`ClientInv`).
* **`Observers`.** What was read of a notification that names its devices is still so: a
  total that was set and the targets it counts never change, and closed rows only change
  where the notification stops being `Steady` (`DbStable`). So a total that is not 0 is the
  total, and as many closed rows as it says are all the targets. The load test's rows are
  never opened again, since nobody else registers its devices.

Only model-checked: the properties under fairness (`AcceptedSettles`,
`AcceptedSettlesOrArchives`, `FaultlessSettles`, `Answered`, `Recovers`, `LoadTestEnds`,
`PollingStops`), since fairness and ENABLED are out of the prover's reach; and the two
violations, which are counterexamples.

## 5. Not modelled

* The Seq log writer: no part reads what it does with a line. Its batch compares a length
  in bytes with a number of lines (`seq_writer.go:47`), which costs requests, not state.
* The concurrency one worker shares among its queues: which task asynq starts next is
  decided in the library; `Dispatch` assumes only that a queued task is started some time.
* Pages that make a single read (projects, devices, keys, providers, lists): they show one
  snapshot and change nothing. `migrate` and `healthcheck`.
* Texts, payloads, metadata, error codes, validation, formatting, templates,
  configuration, health endpoints: no state that another part depends on.
* Several projects, except in `ApiGate` and `CredentialStore`: rows are scoped by project
  in every statement, and the other modules stand for one project.
* `expires_at` of keys and `status` of projects: tested by the lookup, set by no statement.
* asynq, redis_rate, pgx and the providers: external, modelled from their use. Lease
  expiry of a worker that is slow rather than dead is not modelled.

## 6. Plan

1. `Observers` takes from the pipeline when a total is set and which rows change. State that as an
   abstract specification of a notification's rows, and prove that `Dispatch` implements it
   (`CountedInv` is the invariant it needs; groups and `OneProviderPerToken` decide which steps
   are allowed).
2. The contract without `OneProviderPerToken`: what a recipient with tasks in two queues
   still promises (a closed row was accepted or refused, if no longer only once).
3. What `NothingLost` becomes with database errors: a lost recipient costs a fault.
