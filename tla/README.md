# A verification development of RigDeck

RigDeck is a self-hosted controller for mining rigs. A Rust server (crates/) keeps machines, flight
sheets and jobs in PostgreSQL and drives the rigs over SSH and their BMCs over Redfish or IPMI. On
each rig one Python script (runtime/rig-runtime.py) runs operations, supervises the miners inside
screen sessions, watches them and pushes telemetry back. Operators use a web console (frontend/), a
single page that polls the server. The TLA+ modules here model the part whose correctness depends on
the order of things: the job queue, the workers between queue and rigs, the instances a rig keeps
running, and the pages of the console with the controller's answers to them.

## 1. Inventory

### Controller

| part | state | operations | what makes it correct |
|---|---|---|---|
| Job queue, `infrastructure/src/pg/jobs.rs`, `migrations/0001_core.sql` | `jobs`, `job_targets` (status, lease, retry time, attempts), `machine_locks` | enqueue, claim, heartbeat, task_progress, finish, defer_reconcile, expire_leases, resolve_target, cancel_job; all but the first statement of expire_leases under one advisory lock | one unsettled target per machine; lock = unsettled; results final; job status = aggregate; nothing wedged |
| Submission, workers, `application/src/jobs.rs`, `mining.rs` | one future per claimed target: lease, heartbeat time, cancel flag | submit_job, run_worker, execute_task, execute_task_inner, finish_with_retry, resolve_target, cancel_job | an operation is begun at most once; its recorded result is what happened; a lost rig never hangs a target |
| SSH and runtime client, `infrastructure/src/runtime.rs`, `ssh.rs` | connection pool, package cache | start/cancel/query an operation, collect, bootstrap, fetch and upload packages | which errors are definite and which are not |
| Machines, `application/src/fleet.rs`, `pg/fleet.rs` | machine rows, secrets, `deleted_at`, `is_controller`, BMC settings | save, delete (soft), onboarding | a machine with work is not retired |
| Flight sheets, catalog, `flights.rs`, `catalog.rs` | coins, wallets, pools, miners, sheets with versions | edits by revision, compile, roll-out after an edit | a deployment is rendered from one consistent version |
| Push receiver, telemetry, `push.rs`, `telemetry.rs` | last snapshot per rig, event cursor, samples | ingest full and delta snapshots, SSH fallback, retention | a delta is applied to its base; an event is stored once |
| Offline and pool status, `status.rs`, `pools.rs` | alert state per machine, outbox | checks, confirmations, mails | one alert per change |
| BIOS, `infrastructure/src/bios.rs`, `runtime/bios-sum.py` | a journal directory per operation | read, write, resume | a write is dispatched at most once |
| BMC, `bmc.rs` | none | power actions, sensors | no automatic second power action |
| Identity, vault, audit, settings, icons, HTTP API, MCP | sessions, tokens, secrets, settings | request handling | (not the subject of this development) |

### Rig (`runtime/rig-runtime.py`)

| part | state | operations | what makes it correct |
|---|---|---|---|
| Operations | `operations/<id>/state.json`, `CANCEL`; `operation.lock` | operation_start, operation_run, operation_status, cancel | the id is replay protection; one runner at a time |
| Instances | `instances/<name>/state.json`, `STOP`, `control.lock`; a supervisor in a screen session and its miner | start, stop, restart, supervise, budget | at most one supervisor; a stop holds; what should run comes back |
| Watchdog, thermal guard, boot | `policy.json`, `thermal.json`, `last-reboot.json` | watchdog_once, thermal_guard, boot_start | a pause is always followed by its resumption |
| Deployments | `versions/`, `deployment.json`, adopted miners | prepare, apply_deployment, recover_interrupted_deployments, cleanup_runtime | all or nothing, over crashes too |
| Telemetry | base snapshot, events and cursor | publish_snapshot, Pusher, PushWorker | (see the push receiver) |

### Console (`frontend/src`)

| part | state | operations | what makes it correct |
|---|---|---|---|
| Flight sheet page, `features/flight_sheets` | cached list, form with a row per miner, miner and wallet dialogs | edit, copy, import, save, apply, delete | no edit lost; a row's wallet, coin, miner and instance fit together |
| Machine pages, `features/fleet/worker*.tsx`, `detail.tsx`, `bulk.tsx` | cached machine records, open forms | every form puts the whole record | nothing sent that the operator neither changed nor could see |
| Machine dialog, `features/fleet/controls.tsx` | address, host key, credential, readings under way | probe, trust, save | a host key and a credential belong to this machine and this dialog |
| Batch add, `features/fleet/import.tsx` | three steps, rows with fingerprints and results | probe, choose, create | every row tells of its own host |
| Fleet list, `features/fleet/dashboard.tsx`, `shared/api.ts`, `shared/selection.ts` | rows, filters, page, ticks; the moment of the last telemetry | poll, filter, tick, bulk removal | online means recent; ticks are given in sight |
| Job dialogs and BIOS page, `features/bios`, `worker-dialogs.tsx` and others | idempotency keys, the job a page watches | submit, retry, poll | one decision, one job; what is reported is what was submitted |
| Overclocking, `features/overclock` | templates with revisions, fields and template name of a tab | edit, save, load, apply | no template lost; a name stands for its fields |
| Terminals, `features/terminal` | panes with WebSockets, senders, ticks | connect, reconnect, type | what is typed reaches the ticked panes |
| Alerts, `features/alerts` | each tab's last seen alert, the browser's note of it | poll, show | no alert skipped |
| Session, settings forms, BMC page, charts, icons | | | (not the subject of this development) |

### Interactions and what is hard about them

* submit_job and the queue share only the database; every method is a short transaction. A worker
  holds no transaction while it talks to a rig, so between its claim and its finish anything can
  happen to its target: the lease lapses, the sweep hands the target to another worker, an operator
  cancels it or settles it. The stale worker's last writes still arrive.
* A call to a rig can be lost before or after it took effect, or time out and arrive later. The rig
  records an operation under its id before it starts it, a BMC records nothing.
* The controller, a runner on the rig, the watchdog and the rig itself can each stop at any point.
* On the rig three programs start and stop the same instances: the runner of the controller's
  operations, the watchdog (with the thermal guard) and the recovery at boot. `start` and `stop`
  exclude each other, but a restart is two calls, a thermal pause is a stop and a later list entry,
  and decisions are made from a record read before the lock is had.
* A page of the console works on copies: lists fetched a while ago, a form filled from a list, a
  dialog opened on a form. Its requests go on when their dialog is closed, their answers come late,
  after the form was emptied or filled with something else, or never, though the controller did what
  was asked. Other operators and other tabs change the same rows. Some rows have a revision that is
  compared (sheets, templates), some have none (machines).

The hazards found while reading, each at its line, are listed in PROJECT.json, with the properties
that cover them or the reason why none does.

## 2. Modules

| module | models | 
|---|---|
| `ExclusiveTasks` | what the queue promises: a task waits, is active, is done; one active task per machine |
| `JobQueue` | the tables and every repository method that changes them, called by anyone at any time |
| `Dispatch` (extends `JobQueue`) | the real callers: workers, the network, the operation records of the rigs, BMCs, restarts |
| `RigInstances` | the instances of one rig: records, supervisors, and the plans of runner, watchdog and boot |
| `FlightSheets` | flight sheets between several pages, the controller's save and apply, and the machines they roll out to |
| `FlightComposer` | the form of the flight sheet page with its dialogs |
| `MachineRecords` | machine records, replaced whole by many forms of many pages |
| `MachineEditor` | the dialog with the address, the host key and the credential of a machine |
| `BatchAdd` | the dialog that adds many machines |
| `Freshness` | polls of telemetry and when a machine counts as online |
| `FleetList` | filters, pages and ticks of the fleet list |
| `Submissions` | how the dialogs and the BIOS page submit jobs, with idempotency keys |
| `Templates`, `OverclockTab` | overclocking templates by revision; the tab that applies them |
| `Terminals` | panes, their sockets, and typing into several |
| `Alerts` | the watcher of alerts in several tabs |
| `ConsoleObjects`, `Console` | what these share; all of them side by side |
| `JobQueueProofs`, `DispatchProofs`, `RigProofs`, `FlightSheetsProofs`, `MachineProofs`, `OverclockProofs`, `TerminalsProofs`, `ConsoleProofs` | theorems and their proofs |
| `MCJobQueue`, `MCDispatch`, `MCRigInstances`, `MCConsole` | instances for TLC (symmetry, a stored machine) |

**JobQueue.** One variable per column that matters: `status`, `lease`, `claims` (the leases issued
to a target so far, numbered, for UUIDs), `due` (retry_at has come), `attempts`, `locks`,
`jobStatus`, `cancelRequested`, and the machine rows `fleet`, `controllers`. One action per method.
The clock is abstracted: a lease of a running target may lapse at any moment, a retry time may come
at any moment. `WorkerStep` lets any lease ever issued be presented at any time, so whatever holds
of the queue does not depend on the workers' discipline. The statuses "blocked" and "skipped" that
older rows may have are never set by this code and are left out; "bios_read" and "bios_write" are
one kind "bios". `SaveMachine` takes no advisory lock in the code; it is one statement on one row.

**Dispatch.** `workers` is the set of execute_task futures, each with its lease, its stage in
execute_task_inner and what it will report. A call is answered, or unanswered (then `starts` holds a
request that still may arrive or be lost), or refused before anything was sent. `op` is the rig's
record as operation_status would report it ("unknown" for a record whose runner is dead), `ran`
counts how often the action was begun. Restart removes all workers; the queue's rows stay.
`Fenced` states the timing: a target is claimed again only when its former worker is gone and no
start of it is still under way (heartbeat every 10 s with 5 s time-out, tolerated for 50 s, lease
60 s, first re-query after 30 s, start call limited to 30 s). AtMostOnce does not need it and is
checked and proved without.

**RigInstances.** `rec` is desired, maintenance and phase of state.json; `sup` is what the
supervisor process is doing, `registered` whether the record names it. What a program still has to
do is `plan`, a sequence of calls, `stage` is where it is in the current one, `control` the holder
of each control.lock. A restart is the plan check, stop, start; a thermal pass is one hotCheck per
instance, a stop for those that run, then save. Left out: versions and the `switching` mark of a
deployment (not modelled, see section 6), pools, and the miner as a process of its own (a
supervisor that is "mining" has one).

**The console.** A module has the state its page keeps (React state, form fields, refs, the query
cache), one action per handler, and one action per answer, so that anything may come between a
request and its answer. Requests are recorded with what they carry when they are sent, as the
closures in the code do; what an answer does to the page is computed from the page's state when it
arrives, or from what the closure kept, as the code does it. The controller's side of a request is
in the same module, translated from the Rust handler and its SQL:

* `FlightSheets`: save_flight is a read of the machines in use, a comparison and compilation, and a
  transaction that checks the machines again, compares the version and queues the roll-out; other
  requests come in between. A row carries which insertion it is of (`life`), so that a sheet deleted
  and saved again can be told apart. `FlightComposer`: what the form and its two dialogs do to the
  rows; a wallet's answer finds its row by index.
* `MachineRecords`: `Records` are the fields of a machine; `FormKey` says which fields remount a form
  when a poll changes them, `Owned` which a form writes. A page's saves are a queue in which those of
  different forms may overtake each other, those of a bulk edit may not (`Overtakes`).
* `MachineEditor`: the code numbers readings (`keyReadVersion`) to recognise late ones; the model
  has what the comparison tells, `current`.
* `BatchAdd`: results are paired by position with the rows that were included when the request was
  sent; the rows submitted are the included ones in the order of the table (`InOrder`).
* `Freshness`: ages instead of times, in units of 5 s; `freshNow` is modelled by its lag behind the
  clock. The constants of the run are those of the code; `LimitAssumption` says what they must
  satisfy for the limit to hold.
* `FleetList`: a row's place on a page is the number of filtered rows `Before` it, so that the sort
  key need not be modelled; removing machines keeps the order of the others.
* `Submissions`: the idempotency key is what the code makes of it: new for each confirmation, one
  per batch dialog, one per version of BIOS edits.
* `Terminals`: a replaced socket closes later; the browser tells of it then, to whom depends on the
  handlers that were removed.
* `Alerts`: the answer is at most a page, the oldest first after the last seen alert.

`Console` puts the twelve beside each other. They share no variable: each has its own view of what
the controller stores, changed behind its back by actions of its own. A behaviour of `ConsoleSpec`
follows one of them (`visited`) and leaves the others where they began. As no property relates two
components, and no component reads another's state, nothing is lost by that, and the theorems of the
components carry over to `ConsoleSpec` by the same argument (`ConsoleIsSheets` and its like).

The definitions marked *Faulty* in the modules are variants with a plausible mistake. No
specification uses them; each is there to show that one property would notice the mistake.

## 3. What is checked

| run | configuration | shows |
|---|---|---|
| QueueContention | 1 machine, 3 jobs, 2 leases per target, 1 re-query | TypeOK, LockMeansUnsettled, OpenWorkKeepsMachine, SettledStays, refinement of ExclusiveTasks |
| QueueFanout | 1 job on up to 3 machines, BIOS and power, at most one controller | JobStatusIsAggregate, QueueMoves |
| QueueTwoControllers | 2 controllers | violation of QueueMoves |
| DispatchFenced | 1 machine, 2 jobs, kinds apply, power, bootstrap | DispatchTypeOK, WorkIsLocked, ReportsAreTrue |
| DispatchLoose | 1 machine, 1 job, 3 leases, BMC settings may be removed, no timing assumption, fairness | AtMostOnce, Spec of the queue, EventuallySettledOrAsked |
| DispatchBmcRemoved | power, BMC settings may be edited | violation of PowerSentIsNotFailed |
| RigRecovery | 1 instance, budget 1, 2 faults, fairness | RigTypeOK, NeverTwoSupervisors, StoppedIsDead, QuietStopStands, Recovers |
| RigThermalList | 2 instances, no faults | OnlyFaultsAbandon |
| RigThermal, RigManualStop, RigMaintenance | 1 instance | violations, see section 5 |
| Console | see below | the properties of the twelve components of the console |

What the run Console checks, by component (in brackets the bounds):

| component | property | says |
|---|---|---|
| FlightSheets (2 pages, 1 sheet, 1 machine, 2 commits, 2 deployments) | NoLostEdit | a save replaces the very row its editor was filled from |
| | VersionNamesContent | one version of a sheet is one content, wherever it is shown, stored or deployed |
| | SaveReachesUsers | a save reaches every machine that uses the sheet when it commits |
| FlightComposer (2 rows, 1 wallet, 2 coins, 4 changes) | WalletMatchesCoin | a row's wallet is of the coin it shows |
| | MinerMatchesChoice | the configured miner is the chosen one |
| | InstancesDiffer | rows never share an instance name |
| MachineRecords (1 page, 2 machines, 2 saves) | UntouchedAsCopied | a save sends the page's copy in every field that was left alone |
| | CurrentCopyKeepsRest | with a current copy, a save changes only what the operator changed |
| MachineEditor (2 addresses, 2 keys, 2 openings) | HostKeyIsTrusted | a host key is stored only for the address it was confirmed of |
| | SecretIsOfThisDialog | a credential goes where and as what it was entered |
| BatchAdd (2 addresses, 2 openings) | RowsTellTruth | fingerprints and results stand beside their own host |
| Freshness (1 machine) | ShownOnlineIsRecent | online means observed within 75 s, once the polling runs undisturbed |
| | LateIsNotOffline | waiting for data does not turn a machine offline |
| FleetList (2 machines, pages of 1 and 2) | TicksChangeInSight | ticks are given and taken in sight |
| Submissions (2 dialogs, 2 versions, 2 sends) | OneJobPerDecision | a decision is executed once |
| | ReportedAsSubmitted | what is reported as submitted is a job with this content |
| Templates (2 tabs, 1 template, 2 saves) | NoTemplateLost | a save replaces the version its editor was opened on |
| OverclockTab (1 template, 2 configurations, 2 jobs) | NameTellsFields | fields run under a template's name only if they were the template's |
| Terminals (2 machines, 4 sockets) | InputReachesTicked | typing reaches the ticked panes that are connected, and no others |
| Alerts (2 tabs, 3 alerts, 1 pop-up, pages of 2) | NoAlertPassedOver | what is counted as seen was shown, counted, or came with pop-ups off |

ConsoleTypeOK is the type invariant of the component that is followed.

**Bounds.** Two actors contending for one machine are enough for every pairwise conflict; three jobs
let one be settled, one active and one waiting. Two leases per target give one stale and one current
holder, three add a second hand-over. A bound on leases cuts off longer histories of one target;
claims are otherwise alike. Three machines are needed for a controller with two siblings. On the rig
the code treats instances separately except for the list in thermal.json, which RigThermalList
covers with two. Two faults allow a crash during the recovery from another.

In the console two pages, tabs or requests give every pairwise conflict, and two values tell a copy
from what it should be. Two commits of a sheet let an edit be made from an old version; once they
are used up, requests under way go on and no others begin (`Further`). Two openings of a dialog let
an answer find a later dialog. Four changes of the rows reach a removal and a new choice behind a
dialog. Four sockets let a pane reconnect twice beside another one. Three alerts with pages of two
and one pop-up make an answer that is cut off, one that is counted, and one that comes after another
tab's. The constants of Freshness are the code's, in units of 5 s; ages stop at 16 units, above the
limit the property speaks of.

Deadlock is checked in every run but Console, where the bounds on openings, saves and sockets are
used up in the end and the followed page rests.

**Fairness.** `FairDispatch` assumes of the code: the scheduler loop, the workers' own steps, the
sweep of leases without a worker, and of the surroundings: a request on the wire arrives or dies, a
runner ends or dies. It assumes nothing of operators, and no call needs to succeed. `FairRig`
assumes that programs and supervisors take their steps, that systemd restarts the watchdog
(Restart=always) and that a warm-up ends; not that operations come, that statistics are good or that
the temperature falls. Faults are bounded by `MaxFaults`; each is one that may happen any time. The console is checked for
safety only: its requests may be lost and its operator may leave, so nothing must happen.

## 4. What is proved

For every finite set of machines and every value of the bounds:

* `JobQueueProofs`: TypesHold, LockTableIsExact, MachineIsExclusive, JobListIsExact,
  WorkKeepsItsMachine, OutcomesAreFinal, QueueKeepsMoving, QueueImplementsExclusiveTasks. The inductive invariant
  `IInv` is the conjunction of TypeOK, the exact lock table, the aggregate, "open work keeps its
  machine" and what they need about unused rows (targets of jobs not yet created have no status). The
  lock table needs its exact form (if and only if): "a held target has the lock" alone does not
  survive a claim that takes over an existing lock. The proof has one lemma per action; those that
  change one target share `OneTargetStep`. The refinement cites the invariant for claim (another
  active task on the machine would hold the lock).
  QueueKeepsMoving holds with at most one controller machine (`MaxControllers <= 1`; finding 1 is two of
  them). `MovingInv` says that a cancelled job has nothing queued, so that what is queued can be claimed
  unless it waits for its siblings, and one of them that is not a controller can go first.
* `DispatchProofs`: DispatchImplementsQueue (every step of workers, network and rigs is a step of
  the queue or leaves it alone), hence DispatchKeepsQueuePromises, and BegunAtMostOnce. Its
  invariant `DInv` says when the action of a target cannot have been sent yet, and that at most one
  worker of a target may still send; it needs the queue's invariant because a lease number is given
  out once.
  DispatchTypesHold and BegunOncePerLease need more than `DInv`: bootstrap, an idempotent install, may
  be begun again, and it is the number of leases that bounds how often. `OncePerLease` counts: what was
  begun, what is on the wire, what the rig has queued and the workers that have not sent yet are
  together no more than the leases given out. A claim adds one to both sides; every other step moves
  one of these to the next or drops it.
  Under `Fenced`, WorkStaysLocked and OutcomesAreTrue, the second while no BMC settings are removed
  (`~ BmcEdits`; finding 2 is what happens otherwise). `FencedInv` adds to `DInv` that a target has one
  worker, that a request may be on the wire only once its worker has given up, that what a worker is
  about to report is what happened, and that work under way keeps its target unsettled. Without
  `Fenced` two workers of a target exist, and the slower one's report may be out of date.

* `RigProofs`: RigTypesHold, OneSupervisor, StoppedInstancesAreDead, QuietStopsStand, for any number
  of instances and faults. The inductive invariant `RInv` adds what the code relies on without
  saying so: a program holds a control.lock only within a call, and one at a time (so nobody else is
  launching what it found missing); a supervisor that mines is known to the record, one that is not
  known has just been launched or will find a STOP file (so a screen that hangs does not bring a
  stopped miner back); and plans have a shape, calls that start or stop something before all others
  (so a restart that is given up leaves nothing behind that could start the instance). Steps are
  sorted by kind first (`StepKinds`: a call, a decision, a supervisor, a death, a reboot), so that
  each part of the invariant only looks at the steps that can disturb it.
  CalmRigsAbandonNone, that without a fault no instance is left in maintenance that should run, by
  `Calm`: whatever waits is on the thermal guard's list, or picked for it, or the runner is going to
  start it, or the watchdog is with its next calls; the rest of `Calm` says which plans there can be
  without a fault and that a list is cleared only when each instance on it was looked at. An instance
  passes from one of these to another while the other programs act: an operation may come between the
  guard's list and the pauses it stands for, a resumption between the halves of a restart.

* `FlightSheetsProofs`: EditsAreNotLost, VersionsAreContents, SavesReachUsers. `SheetsIInv` says that every copy of a row that a page
  lists, edits or saves is *known*: of an earlier life of the sheet, or of a lower version, or the
  very row that is stored. NoLostEdit alone is not inductive: what a save may replace depends on
  what its editor was opened on long before. VersionsAreContents and SavesReachUsers by `VersionsIInv`:
  no row of a sheet that was never deleted is of a higher version than the stored one (so a commit
  writes a version nobody has seen), a request that updates machines was compiled from the version it
  replaces (so what is rolled out is what is stored), and a key was only used for versions that are
  stored (so the key of the next one is free, and its job is really queued). WalletsMatchCoins, MinersMatchChoices and InstancesStayDifferent, about
  the form, by `ComposerIInv`: every row fits as it stands, so that it does not matter into which row an
  answer or a dialog writes, and the wallets of what is stored or being saved exist, so that a form filled
  from it fits again. That AddTask finds a number is the pigeonhole principle (`LowestFree`).
  SheetsTypes and ComposerTypesHold add that keys name versions (`KeysTyped`) and that neither form,
  nor save, nor store ever has more rows than a sheet may (`SizedRows`, `CallsTyped`).
* `MachineProofs`: StoredKeyIsTrusted, SecretsStayInTheirDialog, EditorTypes by `EditorIInv` (a key
  in the form or in a save is trusted for the address beside it; a save that waits for a key waits
  for the key of its own address; a reading that may still land is of the open dialog), and
  UntouchedFieldsAreCopied, CurrentCopiesKeepTheRest by `RecordsIInv` (a form shows its page's copy in
  every field it writes and the operator did not touch: a poll that changes such a field remounts
  the form). RowsStayTrue by `BatchIInv`: the rows of a request under way are true themselves and stand
  at places of their own, so that a result finds its row again or none, whatever became of the table
  meanwhile. RecordsTypes (`WritesBounded`: a save is counted before it is sent) and BatchTypes.
* `OverclockProofs`: SavesReplaceWhatTheyKnow by `TemplatesIInv` (every copy of a template that was
  never deleted is known, as with the sheets), NamesTellFields by `TabIInv` (wherever a name and fields
  pass together, from the tab to the confirmation, the job, the rig and its report). TemplatesTypes by
  `TemplatesBounds`: a revision is at most one more than the number of the save that stored it.
* `TerminalsProofs`: TypingReachesTicked, TerminalTypes by `TerminalsIInv`: there is a sender exactly
  while the pane takes itself for connected, and it sends to the pane's present socket.
* `ConsoleProofs`: TicksStayInSight; AlertsAreNotPassedOver by `AlertsIInv` (an answer under way
  follows what its tab has seen without a gap, and everything after the start of the watch up to the
  note and to each tab's last seen alert was dealt with); DecisionsAreJobsOnce and ReportsAreJobs by `SubmitIInv` (a key of a batch or
  BIOS job tells its decision; while a confirmation is open somebody waits for the answer to every
  request it sent, so that its button stays blocked; an answer that says "accepted" has a job with that
  content behind it); LateStaysOnline by `FreshIInv` (while data count as recent, the age freshNow gives
  them plus what is left of the grace stays below what is shown as online). ShownOnlineStaysRecent,
  for any periods that satisfy `LimitAssumption`: undisturbed, the time since the last poll ended is at
  most what `Progress` says, an interval, a request up to its deadline and a second one; as long as the
  polling has been calm for longer than that, what is shown online was at most `FreshFor` old when that
  time began (`RecentUnlessDisturbed`), and so is at most `Limit` old now. The code's periods (10 s,
  15 s, 35 s and 75 s) satisfy it. The types of these components (FleetListTypes, AlertsTypes,
  SubmitTypesHold, FreshTypesHold) say among other things that no job is watched that the controller
  does not have and no alert counted that was not raised. ConsoleIsSafe and ConsoleTypes: all these
  hold of `ConsoleSpec`.

Assumptions are those the modules state: finite sets, natural bounds, Nil and NoTarget are none of
the things they stand beside, page sizes are positive and one of them is the largest, and the periods
of Freshness are as above. Every invariant and every action property that a passing run checks is
proved. Only model-checked are the liveness properties (EventuallySettledOrAsked, Recovers): liveness
and ENABLED are out of this prover's reach. No recursive definition is used, so nothing had to be
left out for being one.

## 5. Disagreements between code and documentation

1. *Two controllers* (QueueTwoControllers): two machines flagged is_controller in one power job wait
   for each other for ever. The flag is not unique.
2. *BMC settings removed* (DispatchBmcRemoved): a power request whose outcome is not known is
   recorded as failed and its machine unlocked when the settings to ask again are missing.
3. *Thermal pause forgotten* (RigThermal): instances are stopped first and listed afterwards; a
   watchdog restarted in between leaves them in maintenance for good.
4. *Stop undone* (RigManualStop): start does not look at the intent again once it has the lock.
   QuietStopStands delimits the case: a stop stands unless another program had already decided.
5. *Maintenance mode at boot* (RigMaintenance): the watchdog revives what boot_start left alone, as
   the check of maintenance_mode comes after the check for a missing supervisor.

The console, found while modelling; the properties are stated so that they hold, with the case named
in their comments, and no run is spent on them:

6. *Machines on an older version*: the help text (flight_sheets/index.tsx:301) says that machines that
   use a sheet are updated when an edit is saved; an application compiled before the save and queued
   after it leaves its machines on the older version. SaveReachesUsers speaks of the machines in use
   when the save commits.
7. *Machine records have no revision*: docs/architecture.md:38 says that edits detect conflicts by
   revision or version; the record of a machine is replaced whole by whoever saves last.
   CurrentCopyKeepsRest says what remains true.
8. *Versions start anew*: a sheet or a template deleted and saved again begins with version 1, so an
   editor that is still open on an earlier version 1 replaces it unseen. NoLostEdit and NoTemplateLost
   leave this case out by name.
9. *Alerts without local storage*: a comment (alerts/index.tsx:23) says that in private mode alerts
   pop up again after a reload; the watcher takes the newest alert for its beginning and shows none
   of those before it. The comment at line 8 says how many pop-ups there are at most; several polls
   add up to more, as pop-ups stay.
10. *A page beyond the end*: when a poll or a deletion shortens the fleet list, the page number stays;
    the list then says that no machine matches and hides the pager.

## 6. Not modelled, and the plan

Not modelled for good: layout, charts, formatting, HTTP handlers, rendering of miner command lines,
parsing of HiveOS exports, hardware readings, encryption, image handling.

Of the console: login and the session with its expiry, the settings forms and favorites (last writer
wins, over single values), the BMC page, messages and telemetry views, and the wallets page (its
dialog is in FlightComposer). Of the flight sheet page, names, pools and package URLs are left out
where they only make the controller refuse a save.

What remains, in this order:

1. `RigDeployment`, extending the rig: prepare, apply_deployment with its roll-back, the commit in
   deployment.json, recover_interrupted_deployments, the `switching` mark, orphaned miners,
   cleanup_runtime. Abstract specification: a deployment takes effect as a whole or not at all. It
   changes almost every action of RigInstances (each start and stop knows the deployment it is of)
   and with them the proofs of RigProofs, which is why it is a project of its own.
2. Theorems still worth having: that findings 3 to 5 are the only ways to the violations they show,
   in the style of QuietStopsStand.
3. `PushTelemetry`: full and delta snapshots, lost answers, restarts on either side, events by
   cursor. Abstract specification: the receiver's snapshot is one the rig had, events are stored at
   most once and in order.
4. `LeaseTiming`: the clocks behind `Fenced`, in the style of Freshness.
5. `OfflineStatus` (the state machine that raises the alerts), `BiosJournal` (the SUM journal on the
   rig and its resumption), login limits.
