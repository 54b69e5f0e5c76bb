# TLA+ models of tork

Tork is a distributed job runner: a coordinator turns submitted jobs into
tasks and sends them through a broker to workers, which run each task in a
container and report back.  This directory holds TLA+ models of the parts of
it that are in this repository, the TLC configurations that check them, and
`PROJECT.json`, which maps every definition to the source lines it models.
The coordinator's event handlers are not in the repository; they are
modelled from the specification (`spec.md`) and marked so.

## 1. The system

| Part | Where | State | Operations |
|---|---|---|---|
| Worker task handlers | `src/worker/worker.go` 79-263 | `w.tasks` (task id to cancel function, under `w.mu`), one context per running task | `handleTask`, `cancelTask`, `runTask` (with its deferred unregister), `doRunTask` |
| Worker life cycle | `src/worker/worker.go` 23-77, 265-331 | `w.stop`, `w.queues`, the subscriptions made, the heartbeat goroutine | `NewWorker`, `Start`, `Stop`, `sendHeartbeats` |
| Broker | `src/broker/broker.go` (interface only) | named FIFO queues, subscribers | `PublishTask`, `SubscribeForTasks`, `PublishHeartbeat`, ... |
| Coordinator HTTP API | `src/coordinator/api.go` | datastore, `pending` queue | `createTask` (save, then publish), `getTask`, `listQueues`, `status` |
| Input validation | `src/input/validate.go` | none (pure) | `Job.Validate`, `validateMount`, `validateQueue`, `taskTypeValidation`, `compositeTaskValidation`, ... |
| Coordinator handlers | tests only (`src/internal/coordinator/...`), specification 4.F | the rows of jobs and tasks in the datastore | `onJob`, `onPending`, `onStarted`, `onCompleted`, `onFailed`, cancellation of a job |
| Runtime, datastore, planner, evaluator, middleware, scheduler | not in the repository | | |

How they interact.  The coordinator publishes a task in state Scheduled on a
work queue; one of the subscribers of that queue, a goroutine of some worker,
is handed it and calls `handleTask`.  `runTask` registers a cancel function
under the task id, publishes the task as Running on `started`, prepares
limits and volumes, runs the pre-tasks, the task and the post-tasks through
`doRunTask` (each one a blocking `runtime.Run`), and publishes the task as
Completed on `completed` or as Failed on `error`; a deferred function removes
the registration on every way out.  The coordinator cancels a running task by
publishing it in state Cancelled on the exclusive queue `x-<id>` of the
worker that reported it started; the one subscriber of that queue calls
`cancelTask`, which looks the id up in `w.tasks`, calls the cancel function
and deletes the entry.  A failed task may be scheduled again under the same
id.  Besides, every worker announces itself with a heartbeat every 30 s until
`Stop` raises `w.stop`.

On the coordinator's side every queue has a handler that is one transaction
on the datastore.  `onJob` plans the first task of a job, `onPending` puts a
planned task on a work queue, `onStarted` records the node that runs it,
`onCompleted` advances the job to its next task or completes it, `onFailed`
retries the task or fails the job, and the cancellation of a job cancels its
tasks and tells the nodes that run them.  The broker delivers at least once
and keeps no order between queues.

What makes it hard:

* `w.mu` is held for one map operation at a time, so `runTask`, the deferred
  delete and `cancelTask` of different goroutines interleave freely around
  every publish and every `runtime.Run`;
* the registry is keyed by task id, and the same id can be on the worker
  twice (retry after a failure report, redelivery, duplicate delivery);
* a cancellation can land at any point of `runTask`, also after the last
  container ended and before the final report;
* every publish can fail, which ends the handler half-way: after `started`
  and before any terminal report, or after the work and before the report;
* `Start` can fail after some subscriptions were made; `Stop` shares only a
  flag with the rest;
* the exclusive queue has exactly one subscriber, which is busy for as long
  as a task it was handed runs;
* the coordinator sees the reports of a run, and of the runs of a retried
  or redelivered task, in any order and possibly twice, while the job is
  cancelled or fails under it.

What must hold:

* registry: every entry of `w.tasks` belongs to a run that is still on its
  way with a live context (`RegistryHoldsLiveRuns`); every live run is the
  one the registry names, so that a cancellation stops it
  (`LiveRunIsCancellable`, which the retry of a task breaks);
* reports: what the coordinator sees of a worker is one started report per
  attempt and at most one terminal report after it, in the state and on the
  queue that belong together (`ImplementsContract`, the refinement of
  `WorkerContract`); Completed is reported only after every pre-task,
  the task and every post-task returned nil (`CompletedRanEveryStep`), and
  never for a task one of whose timeouts had passed when it was set
  (`CompletedMetEveryDeadline`); no
  Completed after an explicit cancel (`NoCompletedAfterCancel`, spec 4.I);
* progress: a cancelled or timed run ends (`BoundedRunEnds`); a cancellation
  sent to a live run is handled (`CancelReachesRun`, spec 8.5);
* life cycle: only a fully subscribed worker sends heartbeats
  (`HeartbeatingWorkerListens`); a worker that reports a task started
  listens on its exclusive queue, even while `Start` is still subscribing
  (`StartedWorkerHearsCancel`);
* coordinator: a terminal state is never left (`TerminalStatesAbsorb`,
  spec 8.1); the job's position counts the completed tasks, once each
  (`PositionCountsCompletions`, spec 8.2 and 8.4); the attempts at a task
  follow each other, and two run at a time only where a message was
  delivered twice or a handler error failed a running task
  (`AttemptsOverlapOnlyByFault`); a cancelled job comes to rest
  (`CancelledJobQuiesces`, spec 8.5), which the code does not achieve, but
  for the tasks whose runs `cancelTask` can reach
  (`CancelledJobQuiescesWithinReach`);
* API: a task is in the datastore before anything can take it off the queue
  (`NoTaskLost`); 200 is answered only for a published task
  (`AcceptedTaskWasPublished`), and such a task is scheduled in the end
  (`AcceptedTaskIsScheduled`); a saved task is queued (`SavedTaskIsQueued`);
* validation: an accepted template is well formed (`AcceptedIsWellFormed`);
  every error names a field that is at fault
  (`RejectionNamesOffendingField`, spec 8.6).

## 2. Modules

| Module | Models | Instantiated by |
|---|---|---|
| `Worker` | the task handlers of one or more workers, the queues they consume, and a stand-in for the coordinator | `MCWorker` |
| `WorkerLifecycle` | `NewWorker`, `Start`, `Stop`, `sendHeartbeats` | (through `WorkerNode`) |
| `WorkerNode` | both, over the same subscriptions (`INSTANCE` of each) | `MCWorkerNode` |
| `WorkerContract` | the abstract specification of what workers report: attempts that open with a started report and close at most once | (checked as a property of `Worker`) |
| `WorkerRefinement` | the refinement mapping from `Worker` to `WorkerContract` | `MCWorker` |
| `CoordinatorApi` | `start`, `shutdown`, `createTask` and the reading handlers of the coordinator's HTTP API, with the consumer of the pending queue | `MCCoordinatorApi` |
| `Coordinator` | the coordinator's handlers for one job, the planner for leaf tasks, the broker's queues between coordinator and workers, and the workers as `WorkerContract` describes them (`INSTANCE`) | `MCCoordinator.cfg`, `MCCoordinatorClosure.cfg` |
| `Validate` | the validators of `src/input/validate.go` and the walk that applies them to a job | `MCValidate` |

### Worker

A *slot* `<<w, i>>` is one subscription of worker `w`, that is one goroutine
that calls `handleTask` with one message at a time: `i = 0` is the subscriber
of the exclusive queue, `1 .. Concurrency` those of the shared queue.

| Variable | Code |
|---|---|
| `queues` | the broker's queues that workers consume (`default`, `x-<id>`), FIFO |
| `published` | what workers published on `started`, `completed`, `error`, as a bag |
| `tasks[w]` | `w.tasks`; the value is the slot whose cancel function the entry holds |
| `subscribed` | the subscriptions `Start` made |
| `pc[s]`, `cur[s]`, `step[s]`, `err[s]` | where the handler of slot `s` is, its `t`, which of pre-tasks, task, post-tasks it is at, whether it returns an error |
| `ctx[s]` | the context `runTask` made: `none`, `live`, `cancelled` |
| `sent`, `cancels`, `redelivered` | counters that bound the coordinator stand-in and the broker |

| Action | Code | Lines |
|---|---|---|
| `handleTask` = `runTask` or `cancelTask` or `rejectTask` | the switch of `handleTask`; the start of `runTask` up to the registration; `cancelTask`; the default case | 79-113 |
| `runTaskPublishStarted` | state Running, node id, publish on `started`, return on error | 119-125 |
| `runTaskPrepare` | limits, temporary directories for volumes, return on error | 126-147 |
| `doRunTaskBegin` | `doRunTask` up to `runtime.Run`: run directory, script, timeout | 215-243 |
| `doRunTaskEnd` | `runtime.Run` returns, output is read; then the next step, the Completed report, or the Failed report | 244-255, 149-207 |
| `runTaskPublishFailed`, `runTaskPublishCompleted` | the final publish and return | 159-166, 207-212 |
| `runTaskDeferred` | the deferred delete; afterwards the broker may redeliver if the handler returned an error | 114-118 |
| `Dispatch`, `Direct`, `Retry` (each a `Schedules`), `Cancel`, `Misroute` | the coordinator and broker as the specification describes them | spec 4.F, 4.A |

Data is abstracted to what the properties tell apart: a task is its id, its
state and its node id; its pre- and post-tasks are counted (`Shape[t].pre`,
`.post`), its volumes are a flag.  `Shape[t].timeout[i]` is the `Timeout` of
the i-th of its pre-tasks, the task and its post-tasks, one of the strings
`""` (none), `"5s"`, `"0s"`, `"-5s"` and `"soon"`; `Seconds` is
`time.ParseDuration` over them, which refuses `"soon"` (`Parses`).
`doRunTaskBegin` fails the step whose timeout does not parse, as lines
236-239 do.  `context.WithTimeout` with a duration that is not positive
returns a context that is done (`Expired`), so `runtime.Run` is handed a
context that has ended.  The runtime is a contract: `Run` returns nil only
if the context it was given has not ended, by cancellation or by a deadline
that had passed (`RunSucceeds`), and it is sure to return only once that
context ends (`RunMustReturn`).

### WorkerLifecycle

`phase[w]` follows the calls (`none`, `refused`, `new`, `starting`,
`started`, `failed`), `conc[w]` is `w.queues[default]`, `hb[w]` is the
heartbeat goroutine's position (`idle`, `check`, `beat`, `exited`),
`heartbeats` the node records published.  `Start(w)` is the call of
`w.api.start` (299-303), which may fail; `Subscribe(w)` is one
`SubscribeForTasks` of `Start` (304-319), the exclusive queue first
(`subscribes`), and with the last of them the launch of the heartbeat
goroutine (`startsHeartbeats`, 320-321).  A subscription that fails is the
error return, with the earlier subscriptions left in place and no heartbeat
goroutine.  Between two subscriptions anything else may happen: in
`WorkerNode` the handlers of the subscriptions already made take messages
while `Start` has yet to make the others.  A configuration that names
queues other than `default` is not modelled: the loop over `w.queues` is
the loop over one queue.  `Stop` writes `w.stop` and the loop condition
reads it with no lock, channel or atomic between them, a data race:
`Loops(w)` lets a read after the write return either value, so the loop may
go round any number of times after `Stop`.  Nothing in the code makes the
loop see the flag, and the model states no property that needs it to
(section 6).

### WorkerContract and WorkerRefinement

`WorkerContract` has two variables: the bag of `reports` and `open[t][w]`,
the number of attempts at task `t` that worker `w` has open.  `Opens` adds a
Running report on `started`; `Closes` needs an open attempt and adds a
Completed report on `completed` or a Failed report on `error` under the same
node id; `GivesUp` closes an attempt without a report.  `WorkerRefinement`
maps `reports` to `published` and `open[t][w]` to the number of slots of `w`
that are past the publish on `started` and before their return
(`OpenAttempts`), and `ImplementsContract` is `Contract!Spec`.  Under this
mapping the successful `runTaskPublishStarted` is `Opens`, a successful
final publish is `Closes`, a failed final publish or a volume that cannot be
made is `GivesUp`, and every other step stutters.

### CoordinatorApi

| Variable | Code |
|---|---|
| `server` | the `http.Server`: `new`, `starting` (after `start`, before the goroutine listens), `listening`, `closing`, `closed`, `fatal` (`log.Fatal`) |
| `ds` | the task datastore, task id to state |
| `pending` | the queue `QUEUE_PENDING` |
| `lost` | tasks the consumer took off the queue and could not load |
| `pc[r]`, `code[r]` | where the handler of request `r` is, and the status it answered |

`createTaskBind` (lines 66-78) is `BindJSON` and the image check, with the
body one of malformed, no image, blank image (`strings.TrimSpace`), image;
`createTaskSave` (79-82) and `createTaskPublish` (83-89) are the two calls
that block and can fail.  A request's task id is the request itself, since
every request draws a new uuid.  `status`, `listQueues` and `getTask`
(53-64, 91-99) answer in one step (`Reply`): `listQueues` 200 or, when the
broker fails, 400; `getTask` 200 for a task the datastore has and 404 for
every error of `GetByID`.  `onPending` is the specification's consumer
reduced to what touches this module's state.  `FairSpec` adds that the two
blocking calls of a handler return and that the consumer takes its queue;
under it a task that was answered 200 is found in the datastore by the
consumer and set Scheduled, behind whatever other requests queued before
it and whether or not the server is shut down meanwhile.

### Coordinator

| Variable | Stands for |
|---|---|
| `jobs` | the queue `jobs`: the messages of the submitted job that wait for `onJob` |
| `job` | the job's row: state and position |
| `task` | the rows of the tasks planned so far, by position: state, attempts (retries made), node |
| `published` | the queue `pending`, a bag |
| `scheduled` | the shared work queue, a bag of task ids |
| `cancelq` | the cancellations on the workers' exclusive queues, a bag of (task, worker): one message per cancellation sent |
| `reports`, `open` | the variables of `WorkerContract`: the workers' reports that wait for the coordinator, the attempts open per task and worker |
| `registry` | `w.tasks[t]` per task and worker: `none` (no entry), `live` (the cancel function of an open attempt), `done` (the cancel function of an attempt that published its terminal report and has not returned) |
| `stopping` | per task and worker, the open attempts whose context `cancelTask` cancelled |
| `returning` | per task and worker, the runs that published their terminal report and whose deferred delete has not run |
| `faults` | lost acks, redeliveries and handler errors so far, bounded by `MaxFaults` |

| Action | Is |
|---|---|
| `onJob`, `Plan` | spec 4.F onJob and 4.E for leaf tasks: the job goes Scheduled, the task at the position is persisted Pending and published; past the last task the job is Completed |
| `pending` = `Delivered` and `onPending` | a task that has not ended, of a job that goes on, is set Scheduled and put on the work queue; any other is Cancelled |
| `started` = `Delivered` and `onStarted` | the job has ended: a cancellation to the reporter, the task untouched (`started_test.go`, `Test_handleStartedTaskOfFailedJob`); else the task is Running on the reporting node and a Scheduled job Running |
| `completed` = `Delivered` and `onCompleted` | no-op on a terminal task; else Completed and the planner for the next position |
| `error` = `Delivered` and `onFailed` | no-op on a terminal task; a retry (attempts + 1, Scheduled, republished on `pending`) while attempts are left; else the task and the job Failed |
| `refused` = `taskHandler` | spec 4.G and `TestTaskMiddlewareWithError`: the handler of a message on `pending`, `started` or `completed`, or a middleware before it, returns an error; the handler is one transaction and has changed nothing, the wrapper fails the task as `onFailed` does (`Fails`: retry or Failed) and the message is acked |
| `jobHandler` | spec 4.G and `TestJobMiddlewareError`: `onJob` or a middleware before it returns an error on a message of the queue `jobs`, and the job is Failed whatever active state it is in (the test fails a Running job); the message is acked |
| `cancelJob` | the job Cancelled, its Pending and Scheduled tasks Cancelled, a cancellation to the node of every Running task |
| `Takes`, `Balks` | an idle subscriber of the worker (`Handed`: fewer than `Concurrency` are inside `handleTask`) is handed a Scheduled message: `runTask` writes its cancel function into `w.tasks`, over whatever is there, and publishes on `started` (107-125); or the publish fails, the deferred delete empties the entry and the message is delivered again |
| `Ends`, `Leaves` | `runTask` publishes its terminal report (196-212).  `Leaves` says which of the open attempts it is: one whose context is cancelled, the one `w.tasks` names (the entry stays until the function returns: `done`), or one that `w.tasks` names no more |
| `Returns` | `runTask` returns and its deferred function deletes `w.tasks[t.ID]` (114-118), whichever run put it there |
| `GivesUp` | `runTask` returns an error (138-142, or a terminal publish that fails): the deferred delete runs and the broker delivers the message again |
| `Cancelled` | `cancelTask` (93-105): if `w.tasks` holds a cancel function under the id it is called and the entry deleted; that stops an attempt only when the entry is `live`.  An unknown id is nothing to cancel |

Every write is predicated on the state found (`Move`; spec 4.A "the
coordinator predicates all writes on the observed source state"), and every
handler leaves a terminal row alone (spec 3).  `Delivered` is the broker: the
handler runs and the message is acked, or the ack is lost and the message
stays to be handled again.  The queues are bags, so a message can overtake
any other.  A worker takes a Scheduled message whatever has become of the
job, since `handleTask` cannot know, and may end an attempt with a report
even after `cancelTask` cancelled its context (`worker_cancel_completed`).

The worker's side is a count abstraction of `Worker`: attempts of one task
on one worker are not told apart, only counted (`open`, `stopping`,
`returning`), and `registry` says whether the one cancel function
`w.tasks` holds for the id belongs to an open attempt.  `TypeOK` states the
consistency the counts must keep: an entry that is `live` has an open
attempt with a live context to name, and one that is `done` a run that has
yet to return.  What the abstraction keeps is what the cancellation of a
job meets: an entry overwritten by a later run of the same id, an entry
deleted by an earlier run's deferred delete or by a cancellation meant for
it, and a cancellation that finds no entry.

Three guards are readings of the specification where the repository has no
code.  `Dispatchable` and the guard of `onStarted` look at the task's row
as well as the job's: 4.A has the coordinator predicate all writes on the
observed source state.  `taskHandler` fails the task in the step in which
the handler is refused: `TestTaskMiddlewareWithError` finds the task Failed
when the wrapped handler has returned.
A handler error is a fault like a lost ack: `refused` on a started report
fails and retries a task whose attempt is running, so that the retry runs
beside it, and on a completed report it fails a task that completed.
`AttemptsOverlapOnlyByFault` counts the attempts open per task
(`SumFunction(open[t])`) against the faults so far: without a fault the
attempts at a task are strictly one after the other, because a retry is
dispatched only on the Failed report of an attempt that has closed.

### Validate

| Variable | Code |
|---|---|
| `job` | the template `Validate` is called on: its kind (`Job`, `ScheduledJob`), one task, the permissions |
| `ran` | the registered validators that `validate.Struct` has applied |
| `errs` | the field errors reported, each the field name and the tag passed to `ReportError` |

Each validator is an operator: `validateExpr`, `validateDuration`,
`validateQueue` return a boolean, `validateMount`, `taskTypeValidation`,
`compositeTaskValidation`, `validatePermission` the set of errors they
report.  `validateMount` is the sequence of its conditions (`mountRules`)
of which the first that holds is reported, as the else-if chain does.  The
six actions `duration`, `queue`, `expr`, `Mount`, `Task`, `Permission` are
the six registrations of `Job.Validate`, the same six of
`ScheduledJob.Validate`; each applies its validator to the values it is for
and may run in any order, because the order is the library's.  `Permission`
asks the datastore for every permission of the template by itself
(98-104); with `DatastoreMayFail` each of these lookups may fail or
succeed.  `IsCoordinatorQueue` is not in the repository: it has the
reserved names of specification 4.A, `scheduled` among them.

A string is a sequence of tokens (`<<"/", "tork">>`, `<<"x-", "w1">>`), each
token one or more characters of one class, so that the empty string,
`strings.HasPrefix`, the match of `mountPattern` (every token is of admitted
characters, and there is one at least) and the comparison with `"/tork"`
are what they are in the code.  Of a task's fields that are only tested for
presence (`Image`, `CMD`, ...) the set of those present is kept.

The struct tags that bind field validators to fields are not in the
repository; `queue`, `duration` and `expr` are taken to apply to the task's
queue, timeout and condition.  Whether a tag restricts the type of a mount
cannot be seen either: `validateMount` itself accepts every type that is
not empty.  `WellFormed` defines the accepted templates as what a template
is (at most one marker, a composite that carries nothing, a user queue, a
mount with the source and target its type needs) and `Offends` says when a
named field is at fault.

### WorkerNode

The conjunction of the two: the initial state is `NewWorker`'s, a step is a
step of the life cycle or of a handler.  A handler can take a message as
soon as its subscription is made, while `Start` is still subscribing or
after it failed.  The properties of the life cycle are checked here, with
the handlers running beside it.  `Worker` on its own starts from any
outcome of `Start`, which is why its runs need no life cycle.

## 3. Runs

| Run | Configuration | Bounds | Result |
|---|---|---|---|
| `worker_protocol` | `MCWorker.cfg` | 1 worker, 2 shared subscribers, 2 tasks (one with a pre-task without a timeout, a task and a post-task with `5s`, and volumes; one bare with timeout `0s`), 1 retry, 1 cancellation, directed dispatch | `TypeOK`, `RegistryHoldsLiveRuns`, `CompletedMetEveryDeadline`, `CompletedRanEveryStep`, `ImplementsContract` hold; 199,014 states |
| `worker_retry_race` | `MCWorkerRetryRace.cfg` | as `worker_protocol`, bare tasks, 1 retry | `LiveRunIsCancellable` is violated |
| `worker_cancel_completed` | `MCWorkerCancelCompleted.cfg` | 1 worker, 1 subscriber, 1 cancellation | `NoCompletedAfterCancel` is violated |
| `worker_liveness` | `MCWorkerLive.cfg` | 1 worker, 1 shared subscriber beside the exclusive one, 2 tasks (the second with a timeout that does not parse), stray `PENDING` messages, 1 redelivery, 1 cancellation, no retry; `FairSpec` | `BoundedRunEnds`, `CancelReachesRun` hold; 17,656 states |
| `worker_direct_cancel` | `MCWorkerDirectCancel.cfg` | 1 worker, 1 shared subscriber, directed dispatch; `FairSpec` | `CancelReachesRun` is violated |
| `node` | `MCWorkerNode.cfg` | 2 workers through `NewWorker`, `Start` one subscription at a time (each may fail), `Stop` and the heartbeat loop with its racy read, 1 task, 1 shared subscriber each, 1 cancellation | `TypeOK`, `StartedWorkerHearsCancel`, `HeartbeatingWorkerListens` hold; 51,568 states |
| `api` | `MCCoordinatorApi.cfg` | 3 requests; `FairSpec` | `TypeOK`, `NoTaskLost`, `AcceptedTaskWasPublished`, `AcceptedTaskIsScheduled` hold; 3,493 states |
| `api_orphan` | `MCCoordinatorApiOrphan.cfg` | 3 requests | `SavedTaskIsQueued` is violated |
| `validate` | `MCValidate.cfg` | 8,432 templates: 3,840 tasks (8 sets of markers, 8 sets of fields, 5 queues, 4 timeouts of which one is zero, 3 conditions), 360 mounts (5 types, 6 sources, 6 targets) on a plain and on a composite task, 16 permissions; both kinds; no datastore failure | `TypeOK`, `AcceptedIsWellFormed`, `RejectionNamesOffendingField` hold; 539,648 states |
| `validate_datastore` | `MCValidateDatastore.cfg` | as `validate`, lookups may fail | `RejectionNamesOffendingField` is violated |
| `system` | `MCCoordinator.cfg` | 1 job of 2 tasks, retry limit 1, 1 worker with 2 subscribers, 1 lost ack, redelivery, failed publish or handler error, a cancellation at any moment; `FairSpec` | `TypeOK`, `PositionCountsCompletions`, `AttemptsOverlapOnlyByFault`, `TerminalStatesAbsorb`, `CancelledJobQuiescesWithinReach` hold; 241,180 states |
| `system_closure` | `MCCoordinatorClosure.cfg` | 1 task, retry limit 1, 2 workers with 1 subscriber each, no fault; `FairSpec` | `CancelledJobQuiesces` is violated |

Why the bounds are enough.  The registry is per worker and keyed by task id,
so what matters is two runs of one id on one worker (two subscribers, one
retry or one redelivery) and two ids on one worker (two tasks); a second
worker only adds a second registry and a second exclusive queue.  The stray
messages and the redelivery are in `worker_liveness`, whose liveness
properties keep it to one shared subscriber and no retry: there two runs of
one id never meet, so the run says nothing of the registry under retries,
which `worker_protocol` and `worker_retry_race` do; `worker_protocol` with one
redelivery added has 893,868 states and the same result, and is left at
none to keep the run short.  The timeouts cover every way `doRunTask` can
treat one: none, one that parses and lies ahead, one that parses and has
passed when it is set (`0s`), and one that does not parse; a negative
duration behaves as zero does.  The second worker of `node` gives
`Stop` of one worker a neighbour that goes on, and a worker whose `Start`
failed half-way a neighbour on the same shared queue, so that a started
report has to name the worker that listens and not merely one that does.
One pre-task and one post-task exercise every position of the step list
(first, middle, last).  One cancellation per task suffices because a second
one finds the entry gone.  Three API requests give two requests in flight
around a third that is done, which is every relative position of a save, a
publish and a consumption.  The validators read disjoint parts of a template,
so the templates come in three families that each vary one part over every
class of value its validator tells apart (empty, valid, each way of being
invalid) and hold the rest at a plain container task.  In `system` two tasks
make the position advance twice, so that a report counted twice shows in
the position; one retry gives a task two attempts whose reports cross; two
subscribers of one worker give two runs of one task id one registry entry
to share, which is where `cancelTask` can miss a run; one fault is one
report or pending message handled twice, one Scheduled message run twice,
one publish of a worker that fails, or one message whose handler returned
an error.  The run has one worker because the registry makes the second
one dear: with two workers of one subscriber each it has more than 1.8 million
states before any liveness is checked, and more than 5.9 million with two
subscribers each.  What a second worker adds, a row that names the wrong
node, is the subject of `system_closure`, and
`CancelledJobQuiescesWithinReach` also holds for two workers with two
subscribers each and one task (48,400 states).  With the retry limit at
one a replayed Failed report spends the only retry, and a task is run
twice at a time through a redelivered Scheduled message or a refused
started report.  Faults share one budget because a run with two of them
does not finish its liveness check in minutes; reordering costs nothing and
is unbounded.  All runs set `CHECK_DEADLOCK FALSE`: a worker with
empty queues and a coordinator that has used up its bounded sends rightly
has nothing to do.

What the violations show.

* `worker_retry_race` (`src/worker/worker.go:117`): the deferred function
  deletes `w.tasks[t.ID]` whoever owns the entry.  Run 1 of a task fails and
  publishes the Failed report; the task is scheduled again and a second
  subscriber of the same worker registers run 2; run 1's deferred delete
  then removes run 2's entry.  A later cancellation finds "unknown task" and
  run 2 goes on.
* `worker_cancel_completed` (`src/worker/worker.go:212`): `runTask` does not
  look at its context before it publishes Completed.  A cancellation that is
  handled after the last `doRunTask` returned is followed by a Completed
  report, which the specification (4.I) excludes.
* `worker_direct_cancel` (`src/worker/worker.go:305`): the only subscriber of
  `x-<id>` runs a directed task to its end inside `handleTask`; the
  cancellation of that task is queued behind it.
* `api_orphan` (`src/coordinator/api.go:84`): the task is saved, the publish
  fails, the client is told 400: a Pending task remains that is on no queue.
* `validate_datastore` (`src/input/validate.go:98`): every error of
  `ds.GetUser` and `ds.GetRole` is reported as `invalidusername` or
  `invalidrole`; when the datastore cannot answer, a template with a known
  user is rejected as invalid, where the specification (7, 8.6) keeps
  transient errors apart from validation errors.
* `system_closure` (`src/worker/worker.go:123`): an attempt on `w1` fails
  and the task is retried on `w2`.  `started`, `error` and `pending` are
  queues of their own, so the started report of the first attempt can be
  handled after the one of the retry, and `onStarted` as the specification
  words it copies its node id into the row.  When the job is cancelled the
  cancellation goes to `w1`, where `cancelTask` finds nothing to cancel;
  the run on `w2` goes on and its row stays Running, against the
  cancellation closure of specification 8.5.  No message is lost or
  duplicated in this behaviour.  The handlers are modelled from the
  specification, so this is a gap of the specification as much as of any
  implementation that follows it.  With two subscribers per worker TLC
  finds the other way first: the run of a retry whose entry in `w.tasks`
  the first run's deferred delete removed (`worker_retry_race`) is not
  stopped either.  `CancelledJobQuiescesWithinReach` shows that these two
  are the only ways: every task of a cancelled job ends unless an attempt
  at it runs on a node its row does not name, or runs without being the
  one `w.tasks` names.

Two divergences that are read off the code and not model-checked.  `Stop`
(`src/worker/worker.go:326`) sets `w.stop`, which only the heartbeat loop
reads, and shuts the worker's API down.  It cancels no context of `w.tasks`
and unsubscribes nothing, while the specification (5) has all in-flight
contexts cancelled on stop; in `WorkerNode` the handlers go on after
`Stop`.  And the heartbeat loop reads `w.stop` (line 266) without
synchronisation: the Go memory model does not promise that a read after
the write of `Stop` sees it, so the code does not guarantee that the
heartbeats ever end.  The model has the read return either value; that the
loop leaves would follow only from an assumption that it does, so no run
checks it.

## 4. Fairness

`Worker!FairSpec` assumes weak fairness of every handler step of every slot:
goroutines are scheduled, the broker hands the head of a queue to an idle
subscriber, and a publish returns (with or without an error).  The return of
`runtime.Run` is fair only when the context it was given is cancelled or has
a deadline, because nothing else in the code ends a container.  The
coordinator's actions are not fair: nobody has to dispatch, retry or cancel.
`WorkerNode` is checked for safety only: `NewWorker`, `Start` and `Stop`
are up to the caller, and of the heartbeat loop's exit the code promises
nothing.
`CoordinatorApi!FairSpec` assumes weak fairness of `createTaskSave` and
`createTaskPublish` of every request (`Save` and `Publish` return, with or
without an error) and of `onPending` (the consumer is subscribed); nobody
has to send a request, and the server need not be started or shut down.
`Validate` is checked for safety only and assumes no fairness.
`Coordinator!FairSpec` assumes weak fairness of `onJob` and of the four
consumers (a subscribed handler is called while its queue has a message),
of some worker taking a Scheduled message, of `cancelTask` for a
cancellation on an exclusive queue, of `Returns` (a function that has
published its last report returns and runs what it deferred), and of
`Halts`: an attempt whose context was cancelled ends, which is what
`BoundedRunEnds` and `CancelReachesRun` show of the worker.  It ends with
its report, or, since the reports are published with the cancelled context
(lines 163, 180, 200, 212) and a broker may refuse them, with the error of
the publish (`GivesUp`), after which the message is delivered again; the
bound on faults makes the refusals finitely many, so a broker that refuses
every report of every cancelled run is outside the run.  An attempt that
nobody cancelled need not end, nobody has to cancel the job, and no fault
has to happen.  All fairness is weak: no action it covers is disabled by
another actor once enabled, except by being taken.

## 5. Mutants

Every property of a passing run has a mutant in `PROJECT.json`: an operator
defined just before the one it replaces, which changes it the way a slip in
the code would (`unregisterNothing`: no deferred delete; `cancelCallsNothing`: `cancelTask` finds the entry and
calls nothing; `startedUnpublishedGoesOn`: the error of the publish on `started` is
ignored; `afterStepDone`: Completed after the first step;
`afterStepOnward`: a loop that does not stop at the end of the list;
`ReturnsOnTimeoutOnly`: a runtime that ignores cancellation;
`ExpiredIfNegative`: a deadline of zero taken for one that lies ahead;
`startsHeartbeatsAnyway`, `subscribesSharedFirst`, `queuesAsGiven` in the
life cycle; `saveFailedGoesOn`, `saveFailedUnanswered`,
`publishFailedAnswersOK`, `saveFailedAnswersOK` (200 for a task that was
not saved) in the API; `taskTypeValidationPasted`: a pair of
markers reported under the tag of another pair, `compositeParallelOnly`: the
early return tests one marker only, `validateQueueEmptyToo`: no early return
for the empty queue name, in the validation; `SettledUnlessCompleted`: a Completed report
handled twice advances the job twice, `SettledIfCompleted`: a Failed or
Cancelled task is revived by a late report, in the coordinator;
`LeavesKeepsContext`: a run that ends leaves its entry in `w.tasks` and
its cancelled context behind,
`EndsGoesOn`: a worker that reports a task Failed and goes on running it,
`CancelledCallsNothing`: `cancelTask` takes the message and cancels
nothing, in the workers of the composition).  TLC finds the property violated under each.

## 6. Not modelled

* The contents of a task (image, command, environment, limits, mounts, the
  run script, the output file) in the worker's modules: no property there
  depends on them.
* What becomes of a mount on the run directory.  `validateMount` refuses
  the target `/tork` by comparing strings, so `/tork/` and `/tork/output`
  are accepted (the templates of `validate` include them); what a runtime
  does with such a mount is not in the repository.
* `validateCron`: neither `Validate` registers it.  Nested tasks (`pre`,
  `post`, the children of a composite): each is validated like the task
  that is modelled.  The value passed to `ReportError`, which in
  `taskTypeValidation` and `compositeTaskValidation` is in places that of
  another field than the one named (lines 147, 153, 164, 167).
* Queues other than `default` in `cfg.Queues`, and `mq.IsWorkerQueue`.
* `deleteTempDir` and the temporary directories: file-system effects without
  influence on the protocol.
* In `Coordinator`: composite tasks (parallel, each, subjob) and
  conditions, progress and log parts, job events, and more than one job:
  jobs share no row.  The retry's backoff is the immediate republish the
  specification gives as default.  Of the middleware, only the error a
  task or job chain returns is modelled (`taskHandler`, `jobHandler`); an
  error of the handler of the `error` queue itself, which the tests do not
  exercise, and the web and node chains are not.
* The restart of a job (specification 4.F; `Test_restartJob` and its
  neighbours in `api_test.go`).  A restart plans the task at the job's
  position anew while the rows and the runs of the earlier life of the job
  may still be there, so the model would need task ids apart from
  positions, and the specification leaves open whether the retries spent
  are reset and what a late report of an earlier row does to the restarted
  job.
* Whether the run of a task of a cancelled job is always stopped.  It is
  not where the rows are wrong about the node (`system_closure`), and
  `onStarted` is the only place that cancels a run which started after the
  job ended: a started report that a handler error consumes (`refused`)
  leaves such a run without a cancellation.
  `CancelledJobQuiescesWithinReach` speaks of the rows, which come to rest
  where `cancelTask` reaches the runs; no property is stated of the runs.
* Node health (specification 4.J): the heartbeat handler and the sweep
  that marks a silent node Offline and re-queues its tasks.  The worker's
  half, `sendHeartbeats`, is in `WorkerLifecycle`.  The coordinator's half
  is not in the repository, and the specification leaves open what the
  model would have to decide: the state a re-queued task is given, whether
  a Scheduled row counts as a node's before any started report named the
  node, and what becomes of a Running row whose job is terminal and whose
  node is gone.  A worker keeps nothing across a crash (`w.tasks` is
  memory), so on the worker's side a crash is an attempt that closes
  without a report, which `GivesUp` is.
* A refinement of the coordinator's task rows to the transition table of
  specification 3.  The table has no edge from Running back to Scheduled
  or Running, and the handlers of 4.F take both under reports that are
  reordered or replayed (`system_closure` shows one such behaviour); the
  properties of `system` are stated on what the handlers do keep.
* A publish that fails because the task's context was cancelled (the
  reports of lines 163, 180, 200 and 212 are published with the context
  `cancelTask` cancels).  Whether `PublishTask` looks at its context is the
  broker's business; the model lets every publish fail at any time, which
  includes this, and bounds how often (section 4).
* What `getStats` returns with an error (line 285): the loop logs the
  error and reads `s.CPUPercent` all the same, which is a nil dereference
  if `s` is nil.  `getStats` is not in the repository.
* Whether a redelivered message is the task as published or the value
  `runTask` wrote `State` and `NodeID` into (line 121): the model has the
  former.
* The identity of an attempt in `Coordinator`: attempts of one task on one
  worker are counted, not told apart, and which of them a step is about is
  chosen among those the counts allow (`Leaves`).  `Worker`, where every
  run has its slot and its context, is the model of the registry in full;
  `Coordinator` keeps of it what a cancellation can find.
* `onFailed` handling the Failed report of one attempt twice while the task
  is not terminal spends two retries.  The specification's handler cannot
  tell a replay from a new failure there, and its idempotence (8.4) speaks
  of persisted state, not of attempts; the model has the behaviour, and
  `AttemptsOverlapOnlyByFault` bounds what it can do to the runs.
* The worker's own HTTP API (`newAPI`, `api.start`, `api.shutdown`): its
  failure is one of the ways `Start` returns early.
* Runtime, expression evaluator, scheduler: not in this repository.  Of the datastore and the planner, `Coordinator` has what the
  handlers of one job of leaf tasks need.

## 7. Plan

1. `Worker`, `WorkerLifecycle`, `WorkerNode`, `WorkerContract` with
   `WorkerRefinement`, `CoordinatorApi`, `Validate` (done).
2. `Coordinator`: the handlers of spec 4.F composed with `WorkerContract`
   under reordered and duplicated reports, retries and cancellation (done).
3. The timeouts of `doRunTask` with zero, negative and unparsable
   durations, which `validateDuration` lets through or not; the data race
   on `w.stop`; two workers in `node`; `w.tasks` in `Coordinator` (done).
4. Composite tasks in `Plan` (parallel and each), with the completion of a
   parent by its last child.
5. Nodes in `Coordinator`, once the open points of specification 4.J
   listed under "Not modelled" are settled.
6. The restart of a job, with task ids apart from positions, once the
   specification says what a restart does to the retries spent and to the
   reports of the rows it leaves behind.
