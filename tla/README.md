# Runweave: specifications of its engine

Runweave is a local-first workspace for AI command-line agents. A backend on the
user's machine owns terminals, runs agents on a schedule, and stores what they
did; an app-server beside it keeps an event log; a push gateway tells the
user's phone; desktop, web and mobile clients attach to them. This directory
holds TLA+ specifications of the parts that act without a user looking on, with
TLC configurations and TLAPS proofs: the scheduled tasks, the event stream
between app-server and backend, the alerts about finished runs, the
subscriptions that carry them, and the configuration every process runs with. A
prompt that is executed twice, a stop that is forgotten, an event that nobody
handles or a setting that is overwritten unseen cannot be repaired afterwards,
and which of these can happen depends on the order of transactions, messages,
process events and crashes. That order is what the models explore.

All paths below are relative to `src/`.

## 1. Inventory of the system

### 1.1 Scheduled tasks (`backend/src/scheduled-tasks`)

| part | state | operations | talks to |
| --- | --- | --- | --- |
| SQLite worker (`storage/sqlite-worker.ts`, `database.ts`, `execution.ts`, `run-archive.ts`) | tables of tasks, runs, attempts, output | one transaction per request, in the order of `postMessage` | the store proxy `storage/store.ts` in the main thread |
| Runtime (`runtime.ts`) | the pass in flight, `executions`, `disposed`, its `ownerId` | `initialize`, a pass every 5 s (recover, advance, dispatch, claim), `execute`, `stop`, `dispose` | worker, provider |
| Codex provider (`providers/codex.ts`) | one detached process group per execution | spawn, store pid, prompt, thread id, terminate, result | operating system, worker |
| Continuation policy (`continuation.ts`, `run-record.ts`) | `recoveryState` of a run: count, deadline, spent time, next time | decide and normalise after an execution | called by `finish` and `advance` in the worker |
| Service (`service.ts`) | none | create, edit, pause, delete, run now | worker, through the HTTP routes |
| Calendar (`schedule.ts`) | none | next and latest occurrence in a time zone | runtime, service |
| Terminal takeover (`terminal-attachment.ts`) | operations in flight, `bindings` | open the thread of a run in a terminal, resume its agent | worker, terminal manager, tmux |
| Maintenance (`server-maintenance.ts`) | at most one lease and its timer | acquire, renew, release, expiry | runtime (pause, drain) |

Requests of users, the timer, answers of the worker, events of the provider
process and the end of the backend interleave freely: JavaScript runs each
handler up to its next `await`, the worker runs each transaction whole, and the
provider is detached, so that it survives the backend that started it.

What makes this part correct: one unfinished run per task; one prompted process
per task, through crashes; every attempt closed once; nothing replayed without
being counted; a stop that wins over a result; a run that ends only after its
process; continuations inside their window and budget; one run per occurrence
and no occurrence that vanishes; a maintenance lease that tells the truth; one
executor per provider thread; queued runs that start and stopping runs that end.

### 1.2 Events, alerts, subscriptions, configuration

| part | state | operations | talks to | modelled in |
| --- | --- | --- | --- | --- |
| Event log (`app-server/src/events`) | the file, the events in memory, the next id | record a request with the event it derives, retention, restart | subscribers | `EventLog` |
| Event stream (`app-server/src/server/websocket.ts`, `backend/src/app-server/event-consumer.ts`, `event-cursor-store.ts`) | connections, message queue, reconnect timer, cursor file | catch-up, live announcement, reconnecting, handling | the log, the handlers of the backend | `EventStream` |
| Alerts (`backend/src/device-monitor/scheduled-task-alerts.ts`, `packages/push-gateway/src/delivery.ts`) | a delivery record on either side | plan, claim, send, settle; claim again at the gateway | store of runs, gateway, APNs | `AlertDelivery` |
| Subscriptions (`backend/src/device-monitor/subscriptions.ts`, `packages/push-gateway/src/subscriptions.ts`) | a subscription on either side, the revoke token of the phone | register, confirm, disable, reconcile, revoke | phone, gateway | `PushSubscriptions` |
| Configuration (`packages/config-node`) | settings file, backups, upgrade receipt, locks, what each process runs with | patch, restore, upgrade, start, reload | CLI, user's editor, every process | `Configuration` |

What makes them correct: an event is handled in order and at least once, or its
loss has a named cause; a phone is told of a result at most once, and only if
it had agreed before; backend and gateway agree on a subscription whatever was
lost or late; no save replaces what its author has not seen, no upgrade runs
beside a process, and what is reported as applied is in use.

### 1.3 The rest of the system

| component | state | hard behaviour | correct when |
| --- | --- | --- | --- |
| State projection (`app-server/src/state`) | projected task and terminal states | reordered events, missed ends | converges to the log |
| Profile lock, singleton (`backend/src/server/profile-lock.ts`, `app-server/src/singleton.ts`) | lock file, heartbeat | stale lock of a dead process, two starters | one live process per profile |
| Terminal runtime (`backend/src/terminal`) | sessions, panels, operation generations | tmux and PTY outlive the backend | an input reaches the pane it was meant for |
| Task supervision, races, handoff, side chats | records per orchestration | agents that fail in the middle | each step is taken once |
| Knowledge, evolution, activity, experience, work history | record stores | little concurrency | - |
| Attention, Feishu, battery alerts, tunnels, remote, auth | connections, credentials | network I/O | - |
| HTTP routes, bootstrap, resource monitor, diagnostics, recording, voice, WebSocket transport | plumbing and media | I/O, backpressure | - |
| Electron, frontend, other packages, plugins, scripts, deployment | clients and tooling | GUI and OS | - |

`PROJECT.json` lists every part with its status, and the hazards of the code at
the lines where they bite.

## 2. The modules

```
ScheduledRuns  <-- TerminalTakeover            ServerMaintenance     Configuration
   ^     ^
   |     +-- ScheduledRuns_proofs <-- TerminalTakeover_proofs --> TerminalTakeover
   |
   +-- MC... (one MC module per specification)

ScheduledDispatch, Calendar  <-- MCScheduledDispatch
EventLog <-- EventStream --(implements)--> EventDelivery
AlertDelivery        PushSubscriptions
```

`X_proofs` holds the theorems of module `X`: eight modules of proofs, for
`ScheduledRuns`, `TerminalTakeover`, `ScheduledDispatch` (with those of
`Calendar`), `ServerMaintenance`, `EventStream` (with its refinement of
`EventDelivery`), `AlertDelivery`, `PushSubscriptions` and `Configuration`.

The conventions of all of them: a transaction of the worker is one action;
whatever happens between two `await`s of the main thread is one action; an
operation that awaits is several actions with its progress in a variable;
a crash may come between any two actions. An operation's action contains
everything its handler stores. Operators introduced as "Mutant: ..." are
plausible mistakes in one definition each, placed before the definition they
replace. They are used by no action; `PROJECT.json` pairs each with the
property that notices it.

### 2.1 `ScheduledRuns`

| variable | in the code |
| --- | --- |
| `row` | the row of each run in `scheduled_runs`: status, owner, pid, active attempt, recovery state, thread, archive flag, result revision |
| `attempts` | `scheduled_attempts`: how many were made and which are unfinished |
| `replies` | replies of the user that were accepted (history, for `NoReplay`) |
| `mode`, `inc` | the runtime serves, is being disposed, or is down; which incarnation (`ownerId`) it is |
| `pass`, `claimed` | the scheduler pass in flight; the run whose claim is on its way back to the main thread |
| `exec`, `abort` | the `executions` map: how far each execution is, and its abort signal |
| `live`, `prompted` | provider processes alive, and those that were sent the prompt |
| `clock`, `faults` | time in units; store calls that failed so far |

| actions | code |
| --- | --- |
| `CreateManualRun`, `CreateQuickInputRun`, `MaterializeScheduledRun` | the three transactions that insert a run, each with its own busy check (`storage/database.ts`) |
| `ReplyRun`, `ContinueNow`, `RequestRunStop`, `ArchiveQuickInputRun` | requests of the user on a run (`storage/execution.ts`, `storage/run-archive.ts`) |
| `PassStart` .. `Execute` | `tick`: recover, advance the continuations, dispatch, then claim until the places are taken |
| `Spawn` .. `Finish` | one execution: provider start, `setRunOwnerPid`, prompt, thread id, abort, result, `finish` |
| `OwnerPidNotStored`, `ResultNotStored`, `StartFails`, `ClaimRefused` | the error paths of those calls |
| `PutBinding` | `putBinding`: a terminal is given the thread of one of `BindableRuns`; when, is left open here |
| `Dispose`, `CancelClaimed`, `Disposed`, `Crash`, `Restart` | the life of the backend process; `Restart` is `initialize()` with its `recover` |

Decisions worth knowing when reading it:

- **One live backend.** The profile lock excludes a second backend for the same
  profile, so incarnations follow one another. The lock itself is not modelled.
- **Processes outlive the backend.** `Crash` leaves `live` and `prompted`
  alone. After a restart a run is recognised by its stored pid only, and a pid
  may have been reused by a stranger (`reused` in `RecoverRuns`).
- **A terminated process is not a dead process.** `Abort` and a stop only ask;
  `Finish` needs the exit.
- **Unresolved runs** are `waiting` without a next time, as in the code: their
  process may be alive, so that their task stays busy.
- **Data left out**: prompts, output, error texts, stop reasons. The revision
  and idempotency keys of `continueRun` are abstracted to requests that match
  the row; the output budget is folded into the spent time, because both cut a
  continuation off in the same place.

### 2.2 `TerminalTakeover`

Extends `ScheduledRuns`, whose `PutBinding` may come at any time, with the one
that calls it, `openExclusive()`: it reads a snapshot of the run,
cancels a pending continuation, awaits the file system, tmux and the history of
the thread, and stores the binding last; a resume in the background then starts
the terminal agent. `opening` and `snapshot` are the operation, `binding` and
`known` the stored and the remembered state of the attachment, `resuming` and
`terminal` the resume and the agent. The session and the agent outlive the
backend. Which of its branches the code takes depends on panes, threads and
panel generations; the model has every branch, guarded by what it tells apart.

### 2.3 `ScheduledDispatch` and `Calendar`

From the calendar to a queued run. The pass decides on task rows it read
before; edits are prepared in the main thread and posted to the worker; both
wait in `requests`, the queue of the worker. `task` is the row with its
revision, next time, schedule and misfire policy; `edit` are the requests of
users in flight, of which there may be several for one task, prepared from the
same row; `runs` are the runs inserted under their occurrence key. What becomes
of a run is `ScheduledRuns`; here a task has an unfinished run or not
(`unfinished`). The wall clock does not go back.

A schedule is a set of times there. `Calendar` says which times: it is
`schedule.ts`, the search over local dates that resolves one minute of each in a
zone that changes its clocks (`ResolveLocalMinute` with its five sampled
offsets, `SearchNext`, `SearchLatest`), and `Occurs`, what the search is for: the
first instant at which the clocks of the zone show a minute of the schedule.
`MCScheduledDispatch` joins the two: the schedules of the run are those of a
zone whose clocks are put forward, and TLC evaluates as an assumption of the
run that both searches are exact for every zone, rule and instant of a small
range. A zone has one change of its clocks, by at most a day: real changes are months
apart, and the search samples the two days around a date.

### 2.4 `ServerMaintenance`

The lease, the timer, and per owner what `acquire` still awaits and what it was
told; with them the part of the runtime that a lease pauses (the pass, its
executions). A lease that expires while its owner still awaits the drain is the
case the code treats with care, and the one the model was written for.

### 2.5 `EventLog`, `EventStream`, `EventDelivery`

`EventLog` is the app-server's side: recording a request (write, project,
derive, announce: `stage`, `pending`), retention, failure, crash and restart. An
event is known by its place in the history `hist`, because its id need not be
unique (section 4). A list of events is the set of its places: lists are appended
to and filtered, and so stay in the order of the history. `EventStream` adds the connections, as slots that are used
again, and the consumer of the backend: reading the cursor, dialling, a queue
of messages, the handler, and the cursor write, which opens (empties) the file
before it fills it. `sock` and `timer` are the fields of the consumer; two
connections at once, and late messages of the one that was replaced, are the
cases they have to survive.

`EventDelivery` is the promise: published events, handled ones and lost ones;
an event is handled after those before it, or after they were lost for a cause
that is named. The refinement mapping is `published <- Agent`, `done <- handled`,
`lost <- Excused`: a request that failed after its event was written, a handler
or cursor write that threw, the retention, an id given twice. `ImplementsDelivery`
is `Delivery!Spec`, `EventuallyHandled` its `AtLeastOnce`.

### 2.6 `AlertDelivery` and `PushSubscriptions`

`AlertDelivery` follows results from `finished` to `told`: `recs` are the
backend's delivery records, `gw` the gateway's, `net` the requests between
them, `pc` and the plan variables the pass of `ScheduledTaskAlerts.run()` with
each store update an action of its own. An older release keyed its records by
subscription and not by phone; each of the `Legacy` subscriptions may start with
such a record, in any state it can have been left in. `told` is history: the
deliveries by which a phone may have been told. So are `unplanned`, the results
and phones with two deliveries that the current pass has not looked at, and
`doubled`, those of them one of whose deliveries was claimed. `gsubs` is the
gateway's view of a subscription: `active`, `revoked` for good, or `invalid`
since APNs refused its token, until another token is registered (`Sync`). The
gateway looks at the age of an event twice: before anything else (`Stale`,
answered 422), and, by its own record, when it claims (`TooLate`).
`PushSubscriptions` follows the registration of a connection: `version` is the
device token the phone registers, `net`, `answers` and `waiting` are the
requests in flight, so that any of them is late, lost or answered after it was
given up. Each module takes of the other what it needs: in `AlertDelivery` a
subscription is registered, confirmed and revoked in single steps. Of the iOS
app (`NotificationCoordinator.swift`) the modules have what the backend and the
gateway see: that it stores the revoke token before it confirms, and that it may
revoke by itself. That it revokes at once when the answer to a registration comes
too late is left out.

### 2.7 `Configuration`

The settings file of an instance and all who touch it: clients that save,
restore and upgrade under `settings.lock` (`op` is the holder, `step` how far it
is), the user's editor, which takes no lock, and the processes that own a role
(`stage`: reading, at the gate, running) and reload. A content is its revision,
its structure and one value, which may be one that validation refuses; digests
are contents. `late` and `landed` are history: what the editor saved after a
check, and whether what the receipt names has been in place.

## 3. The runs

| run | question | what it shows |
| --- | --- | --- |
| `scheduled_runs` | two runs of one task, all ways to start one, stops, replies, a failed store call, a crash | one unfinished run, one writer, stops win, runs end after their process, archived runs stay finished |
| `continuations` | one run, two automatic continuations, time, a reply, a failed call, three backends | nothing is replayed, deadline, earliest time and budget hold, each result has a version |
| `run_liveness` | two tasks, one place | queued runs start and stopping runs end |
| `takeover` | takeover of a run with a pending continuation, a reply, stops and a crash | a terminal and a background process share a thread only when a reply raced the opening; a run whose thread is bound is never claimed |
| `takeover_race` | the same without that exception | **violated**, see section 4 |
| `maintenance` | two owners, two runs, renewals and expiry | nothing starts under a granted lease, affected runs are reported, one promise at a time |
| `dispatch` | one task, two concurrent edits, passes, a crash, a calendar with a change of clocks | one run per occurrence, none lost without a record, a due task is dispatched; the searches of the calendar are exact |
| `event_stream` | three events, two connections, two troubles | no event is passed in silence, the stream implements `EventDelivery`, every event is handled in the end |
| `ids_reused` | retention empties the log, the app-server restarts | **violated**, see section 4 |
| `alert_delivery` | one result, one phone with two connections, and two troubles, or deliveries of an older release for one or both connections, in each state they can be left in | one of several deliveries is selected and the others cancelled; told once, except where a pass claims one of two that it has not planned (section 4); over a connection confirmed before, not more often than counted; accepted means told |
| `push_subscriptions` | two ids, two registrations, two logins, two faults | what counts as synced is, a revocation is followed up, an overtaken refusal changes nothing, nothing comes back, registrations end |
| `configuration` | one client, one process, the editor, a kill at any step, three revisions | nothing unseen is replaced, nothing is lost, upgrades run alone, receipt and status are true |

`IInv` is the inductive invariant of the proofs (section 5); the types of the
module's state are a conjunct of it.

### Bounds, and why they are enough

- *Runs and tasks.* Conflicts are between two runs of one task, or two tasks
  for one place. Two of each show every pairwise conflict. `continuations` and
  the takeover runs follow a single run, since what they ask concerns its own
  history.
- *`MaxIncarnations`* 2 or 3: a run orphaned by the first backend, seen by the
  second, whose own execution is orphaned for the third.
- *`MaxAttempts`* 2 with a reply reaches the last allowed continuation, one too
  many, and the reset of the count.
- *`MaxClock`*, `Window`, `Budget`, `Delay`: a deadline of 2 and a clock to 4
  pass before, at and after the deadline, also between queuing and claiming.
- *`MaxReplies`, `MaxFaults`* (scheduled runs) 1: one reply and one lost answer
  per behaviour; a second fault meets states the first has produced already.
- *`BindableRuns`*: one run in `scheduled_runs` and in the takeover runs, so that
  a claim meets a bound thread; none in `continuations` and `run_liveness`.
- *`dispatch`*: a daily schedule that goes on beyond the clock (so that there is
  a next time at the end) and loses a date to the change of the clocks, and one
  that is used up; the policies with and without catching up; two editors, and
  two revisions, so that both edit the first revision and one is late. `Day` 3
  and `Week` 2 make the calendar small; zones with offsets of up to 2 of 3 hours
  contain gaps, repetitions and changes across midnight.
- *Leases*: three leases, lasting 2 of 4 time units, so that one expires during
  the drain of another and is released late.
- *`MaxTroubles`* is one bound for all faults of a behaviour together: any two
  (`event_stream`, `alert_delivery`) of them, in any order. Three
  events, a batch limit of one and two connections are a catch-up in several
  batches with live events between them, on a connection that replaces another.
- *`alert_delivery`* (`Bounded`, a state constraint): the deliveries of an older
  release start in every state a lost answer or a crash can have left them in,
  and no further trouble follows; a single one is that of the first connection.
  What follows once `doubled` is not empty is cut off:
  `NoRepeat` says nothing of a result and a phone in `doubled`, which never
  leave it, and there is one result and one phone. The theorems cover the rest.
- *`push_subscriptions`*: two registrations of two ids overtake each other; two
  faults are a crash and a lost request, or two requests that arrive late.
- *`configuration`*: one client, one process, one hand edit and one kill meet in
  every order; three revisions allow an upgrade after a save, a restore after
  that, and a reload that bumps the revision. The theorems are for any number.

`CHECK_DEADLOCK FALSE` is set where a bounded clock, incarnations, leases or
messages run out; the configuration has always a step left and is checked for
deadlock.

### Fairness

Only what the code schedules is fair. `run_liveness` and `dispatch`: the
5-second timer starts passes again and again and the worker answers
(`WF(Pass)`; in the dispatch model, where its queue is explicit, `WF(Worker)`
too), the steps of an execution follow one another (`WF(Execution(r))`), and a
process of a live execution ends by itself, by its timeout, or by the kill that
follows a termination request (`WF(OwnExit(r))`). `event_stream`: a request
that is half recorded goes on, a process that is down is started again, a
message is read, a timer that is set fires, a connection is accepted or
refused. `push_subscriptions`: the reconciliation comes back with each sample
of the device, and a request that is waited for is handled and its answer read.
There is no fairness for users, crashes, restarts of the backend in
`ScheduledRuns`, or orphaned processes, which nothing terminates. `StopEnds` is
checked without failing store calls: when both attempts to store a result fail,
the run stays `stopping` until the next restart, which is what the code does.

## 4. Findings and observations

Two disagreements between the code and its documents are runs that TLC finds
violated:

`takeover_race` (`OneExecutorPerThread`). `openExclusive()` checks a snapshot
and stores the binding several awaits later without looking at the row again.
A reply accepted in between still sees no binding, queues the run, and the
scheduler starts a background process that resumes the thread, while the
resume starts the terminal agent on the same thread. The test plans
`docs/testing/scheduled-tasks/continuation.testplan.yaml` (CONT-004) and
`runtime.testplan.yaml` (SRT-008) say that the two must never write to a thread
together. Apart from that race the property holds (`takeover`,
`OneExecutorUnlessRaced`).

`ids_reused` (`IdsNeverReused`). The store takes the next id from the events
that are left in its file (`app-server/src/events/store.ts:65`). When retention
has emptied it, a restart numbers from 1 again, and a consumer whose cursor is
larger receives nothing until the ids pass it.
`docs/architecture/app-server-event-center.md:36-38` says that clean-up never
resets the ids. `NoSilentLoss` and the refinement name this cause (`Reused`).

Met while modelling, and part of the models' behaviour, without a run of their
own:

- A handler that throws loses its event: the error ends the message, the rest of
  the batch is skipped, and the next message moves the cursor past both
  (`event-consumer.ts:139-150`), where
  `docs/architecture/app-server-architecture.md:322` says that the cursor stays
  and the event comes again. `Excused` holds `dropped` for this reason.
- Of two records that an older release left for one phone, `deliveryPlans()`
  prefers one that was attempted (`scheduled-task-alerts.ts:219`); when one says
  failed and the other accepted, the choice is by order, and the comment above it
  asks for the accepted one.
- Of two such records the second may be sent although the phone was told through
  the first. A pass that begins while no connection of the phone is usable reads
  no results for it (`scheduled-task-alerts.ts:65-69`, `202-208`), so that it
  cancels no duplicate, and when a connection is synchronised before the pass
  looks at a pending delivery, it claims that one (`90-128`). The gateway knows
  the two by different ids and submits both, where the comment in
  `deliveryPlans()` (`211-212`) says that an accepted or unknown delivery must not
  replay after reconnecting. It takes an upgrade between the two, and a
  registration within a pass. `NoRepeat` names this exception (`doubled`), and one
  that comes with it: of two records the one that waits for another attempt
  although the gateway has taken the first, since the answer was lost to an error
  in between, may be the one that is cancelled, and the other is sent.
- `revoke()` of the gateway answers 404 to a subscription it does not know, and
  keeps no tombstone of it (`packages/push-gateway/src/subscriptions.ts:116`), so
  that a registration which comes later than its revocation is accepted, where the
  README of the gateway (line 188) says 409. The backend calls such a
  registration back: `RevocationFollows`.
- The backend reads its configuration before it owns its role
  (`backend/src/bootstrap/configuration.ts:7`, `:16`), so that an upgrade in
  between leaves it running with the structure from before, until it restarts.
- `latestOccurrence()` starts at today's local date: in a zone that is set back
  over midnight (historically America/St_Johns) an instant of the repeated hour
  has its latest occurrence on a later date than its own. `LatestIsExact` is
  stated under `KeepsDate` for this reason. `materializeDue()` takes the stored
  next time when the search finds none after it, so that nothing is lost.

## 5. What is proved

For every value of the constants that satisfies the assumptions of the module
(the types of the constants and of the bounds; nothing limits their size):

| theorem | states |
| --- | --- |
| `TypeCorrect`, `Safety` (`ScheduledRuns_proofs`) | `Spec => []TypeOK`, `Spec => []Consistent` |
| `UniqueRun`, `UniqueWriter` | a task never has two unfinished runs, its runs never two prompted processes alive |
| `AttemptsMatch` | the active attempt is the only unfinished one: `closeAttempt` cannot throw |
| `StopWins`, `NoWriterLeft` | a stored stop is not overtaken by a result; a run ends only when its prompted process is gone |
| `RunsInvariant`, `PromptsNotReplayed`, `ContinuationsInTime` | `Spec => []IInv`; every attempt is the first, a counted continuation or a reply's; a continuation is claimed within its time and budget |
| `HistoryIsFinal`, `ResultsHaveVersions` | the status of an archived run stays a finished one; every result raises the revision |
| `TakeoverImplementsRuns` (`TerminalTakeover_proofs`) | `TakeoverSpec => Spec` |
| `TakeoverSafety`, `TakeoverTypes` | `IInv`, and so what holds of the runs, holds of the composition; its types |
| `OneExecutor`, `BoundNotClaimed` | a terminal and a background process execute one thread only when a reply raced the opening; a bound run is not claimed |
| `DispatchSafety`, `DispatchTypes` (`ScheduledDispatch_proofs`) | the inductive invariant of edits, decisions and rows; types |
| `OneRunEach`, `AllAccounted` | one run per occurrence, none dropped in silence, for any number of tasks and editors, any schedules |
| `NextExact`, `LatestExact` | the searches of the calendar find the first occurrence after, and the last one up to, any instant |
| `MaintenanceSafety`, `LeaseHolds`, `PromisedOnce` (`ServerMaintenance_proofs`) | the invariant of the lease; nothing starts under it; one promise at a time |
| `StreamInvariant`, `StreamTypes` (`EventStream_proofs`) | the invariant of log, connections, queue and cursor; types |
| `CursorLosesNothing`, `StreamImplementsDelivery` | no event is passed in silence; `Spec => Delivery!Spec` under the refinement mapping |
| `AlertsConsistent`, `AlertTypes`, `AlertsWithConsent` (`AlertDelivery_proofs`) | claims, requests and attempts agree; types; only over connections confirmed in time, only as often as counted |
| `AlertInvariant`, `ToldOnce`, `AcceptedWasTold` | of the deliveries for a phone and a result one is selected before it is claimed; nobody is told twice, with the exception of section 4; accepted means told |
| `SubscriptionSafety` (`PushSubscriptions_proofs`) | the invariant of requests, answers and subscriptions |
| `SyncedHolds`, `RevocationComes`, `RevokedForGood`, `OvertakenKept` | what counts as synced is; a revocation that was overtaken comes again; nothing comes back; an overtaken refusal changes nothing |
| `ConfigurationSafety` (`Configuration_proofs`) | the invariant of clients, owners, locks, gate, receipt and runtime |
| `UpgradeRunsAlone`, `CommittedIsTrue`, `AppliedIsTrue`, `NothingIsLost`, `NothingUnseenIsReplaced` | the properties of the run `configuration` |

### Scheduled runs

The argument. None of these is inductive alone. That a task has one unfinished
run is about rows, but that a process writes is about the operating system, and
between them stand the execution map, the stored pid and the owner. `Consistent`,
the first part of `IInv`, ties them together, run by run (`RunOK`): an execution of the live backend, or a
claim on its way to it, owns its row (`ExecutionOwned`, `ClaimOwned`); nothing
is prompted before the row holds its pid; a prompted process is alive, is the
one its row records, and its row is running, stopping or unresolved
(`WriterRecorded`); a run has an open attempt exactly in those states
(`AttemptAccounted`); a running row has no next time (`NoNextTime`).

Most actions touch one run or move many rows at once without starting anything.
The proof names these: a row is *resting* when it is not running, stopping or
unresolved, and *parked* when it then has no execution, claim, writer or open
attempt. The invariant makes the two coincide (`RestingParked`), and a parked
run satisfies `RunOK` whatever else its row holds (`ParkedOK`). So each
transaction that starts from and ends in a resting row (requests, dispatch,
advancing continuations) is one citation, and what is left are the actions of
an execution, `recover` and the crash, each with its own lemma. Uniqueness of
the unfinished run is a second family of lemmas about statuses only, since the
insertions check the task inside the same transaction. `UniqueWriter` follows
from `WriterRecorded` and uniqueness; the two action properties follow from
`Consistent` and a case split of `Next`.

What concerns the history of one run is a second layer. `NoReplay` bounds the
attempts of a run by its count of continuations and replies, but a claim adds an
attempt and a continuation adds to the count long before it is claimed; so
`AttemptsCounted` says that a row that may still be claimed has one attempt to
spare, unless it continues what a claim has already counted. `ContinuationTimely`
says that a scheduled continuation has budget and a deadline, and that its time
has come when it is queued; the deadline is compared once more with the claim,
and the proof of `ContinuesInTime` uses both. The steps are not gone through
action by action again: each of them changes a row in one of twelve ways
(`RowStep`: created, claimed, recovered, replied and so on), which one lemma
per group of actions establishes, and each part of the invariant is a case split
over these.

Against the invariant of the runs the takeover needs nothing: each of its steps
stores a stop request or a binding, which are steps of `ScheduledRuns` wherever
they come, or leaves the runs alone. What it does break, the exclusion of a
terminal and a background process (section 4), is about its own variables, and
has an invariant there: `TakenOver` says that an operation past its check, or
a bound row, belongs to a run that has ended and has a thread, unless a reply
raced the operation; that the snapshot is of a run that has ended since only
if it still has, or was raced; and that session, resume and agent exist for
bound runs only. Of the runs it uses only in which ways a row changes.

### Scheduled dispatch and its calendar

Both properties are about runs that exist; what could break them is still in
the queue of the worker. So the invariant is about requests: a save is one
revision ahead of the row it was prepared from, and the next time it brings is
ahead of every run of the task (`SavesFresh`), also of those the worker is asked
for before it (`InOrder`, a relation between two places of the queue); a
decision is for a time that had come, and no occurrence lies between it and
the next time it brings, as long as its revision is current (`DecisionsSeen`);
what the pass holds is an earlier state of the row (`PassSeen`); and each row's
next time is ahead of its runs (`RowsAhead`). A stale save is refused by its
revision, and a stale decision by revision and next time, which is where each
conjunct is used. Two edits of one task need no more: the second fails on the
revision of the first.

The calendar has no state: the theorems say of every zone with one change of
its clocks, every rule and every instant that the search and the specification
give the same set. The proof resolves a local minute first (it has an instant if
and only if one of the two offsets gives one, and the sampled times contain the
offset that applies), then shows that occurrences of later dates come later, so
that the first date that has one after the instant is the one searched for.
For the latest occurrence this needs that no date is repeated (`KeepsDate`).

### Events

`NoSilentLoss` is about the cursor, but what endangers it is under way: a message
with a later event that comes before an earlier one. The invariant says where an
event is that nobody has handled and no failure explains (`Owed`): no cursor,
stored, read or asked for, is past it (`CursorsPassed`); in the queue, and on
each connection, nothing later comes before it (`QueueInOrder`,
`ChannelsInOrder`); an open connection has carried it or will be told of it
(`OpenAreTold`, which is what binds the catch-up to the live events); and the log
keeps it (`LogKept`). Ids enter only through `Reused`, the cause of section 4: of
the other events the order of ids is the order of the history. The refinement of
`EventDelivery` is proved step by step from the same invariant: only a written
event, the consumer's handler, a failure and the retention are steps of the
abstract specification, and the handler's is one because nothing owed comes before what it handles.

### Alerts

Each attempt is counted twice, by the backend when it claims and by the gateway
when it submits, and requests may arrive late or not at all. `Counted` ties the
two: the attempts of the gateway and the requests that may still reach it
(`Underway`, with the one a claim is about to send) are together no more than
the attempts of the backend. A late request is therefore one that was counted,
and the bound of attempts holds at the gateway too. `Requested` keeps with each
request that its connection was confirmed before the result, and `Claimed` that
the row being sent is the one that was claimed, since no other step touches a
row in `sending`. `AcceptedByGateway` follows the word "accepted" back to the
gateway's record, which never leaves that state.

That a phone is told once has two sides. For one delivery, `told` is what the
gateway's records say (`ToldByDelivery`), and a record that may be submitted is
not among them. For several deliveries about one result and phone, under the ids
of its connections, the argument follows the one that is *handled*: a request of
it may be under way, it is being sent, or it may have told the phone although
the backend's record is pending or cancelled. A handled delivery is alone
(`Alone`): the others were cancelled and are not handled themselves. A delivery
becomes handled by its claim only, so it must be alone before; that is what
`deliveryPlans()` and the update after it establish (`PlanAlone`), since it sees
every delivery there is (`Seen`, `ExistingFacts`), prefers one that was attempted
(`SelectedFacts`) and cancels the pending others. It does so only for the phones
it looks at, and that is the exception: a claim of a delivery that the pass has
not planned puts its result and phone into `doubled`, where `SelectedAlone` and
`NoRepeat` promise nothing.

### Maintenance, subscriptions, configuration

`PromiseKept` relates what an owner was told to the lease that is held, whose id
tells it from later ones, and `ClaimsDrained` to the claim that was in flight
when the pass was paused. `AnswersTrue` says that an answer stays true until it
is read, since the gateway only moves on (`GatewayStep`); with `NothingAhead` an
answer to the current version is then an answer about the current token.
`Following` is for `RevocationFollows`: as long as nothing was given up, a request
has one answer (`OneAnswer`), a disabled subscription is off until its request is
answered, and whatever the gateway accepts after that is noticed (`Revoked`). In
`Configuration` the steps of an operation are chained by what it has read
(`ReadingsHold`), what the receipt announces (`ReceiptFollows`) and who can be
running beside it (`UpgradeAlone`); the editor is the exception each of them
names.

### Only model-checked

The liveness properties `QueuedRunStarts`, `StopEnds`, `DueIsDispatched`,
`EventuallyHandled` and `RegistrationEnds`: fairness and `ENABLED` are out of reach
of the prover. Every other property of a passing run is a theorem. The models
have no induction over data that a proof would need; sequences are reasoned
about by their places. The `KeepsDate` of `LatestIsExact` is the one hypothesis
beyond the assumptions of the modules.

## 6. What is not modelled, and why

The map covers a small share of the repository's lines. Most of those lines are
user interface, prototypes, scripts and documents with no state that
interleaves; the models go where order decides what is true.

- The other components of section 1.3 (see `PROJECT.json`): either I/O without
  control of their own, or planned below.
- Storage details of scheduled tasks: migrations, output chunks, listings,
  record validation; each is one transaction that no other step observes.
- Building provider arguments and parsing results: data without control.
- A wall clock that is set back.
- Liveness across a takeover: a queued run whose thread is bound makes
  `claimNextRun` throw on each pass while it is the oldest, so that runs behind
  it wait until it is stopped. `QueuedRunStarts` is checked without takeovers.
- A task that stays busy. A provider that outlives its backend is not timed out
  by the next one, and its pid may be given to another process: the task is busy
  as long as that process lives. So it is, until a restart, when storing the
  result of a run failed twice (`runtime.ts:309`). The models have these states,
  but no property is about them.
- The profile lock, which `ScheduledRuns` assumes. A backend takes the owner
  lock of its configuration first, so that backends of one context are already
  serialised there; those of two contexts that share a profile meet at this lock.
- Of the event log: deduplication by key (a known key changes nothing) and the
  mirrored cloud file; a line torn by a crash in the middle of an append
  (`app-server/src/events/store.ts:94`).
- Of the alerts: the seven-day clean-up, the backoff times, the time window but
  for its end. Of the subscriptions: a change of the gateway's address, limits on
  their number, other kinds of alerts. Of the configuration: creation and import
  of the file, several domains, permissions.

## 7. Plan

Done, in this order: `ScheduledRuns` (the core), `TerminalTakeover` and
`ServerMaintenance` (what interferes with it), `ScheduledDispatch` and `Calendar`
(what feeds it), `EventStream` with its abstract specification, `AlertDelivery`,
`PushSubscriptions`, `Configuration`, and the proofs.

Next, modelling:

1. `ScheduledExecution`: what a task promises in the abstract, a single right
   to execute that is granted, used and returned, implemented by `ScheduledRuns` under
   a refinement mapping from rows and processes.
2. `ProfileLock`: lock file, stale owner, two starters; its guarantee is the
   assumption of `ScheduledRuns` above.
3. Liveness of the queue with takeovers; liveness of the alerts; a clock that is
   set back.
4. The battery alerts, whose episodes share the store of the subscriptions; the
   state reconciler; operation generations of the terminal runtime.

Next, proofs: how often a phone is told under the exception of `NoRepeat` (not
more often than there are records an older release left), and those of the new
modules.
