------------------------------- MODULE Worker -------------------------------
(***************************************************************************)
(* The worker runtime of src/worker/worker.go.                             *)
(*                                                                         *)
(* A worker subscribes one handler to its exclusive queue x-<id> and       *)
(* Concurrency handlers to the shared work queue.  Every subscription is a *)
(* goroutine that hands one message at a time to handleTask, so a "slot"   *)
(* <<w, i>> is one such goroutine: i = 0 is the exclusive subscriber.      *)
(* handleTask runs a Scheduled task (runTask) or cancels a running one     *)
(* (cancelTask); the two meet in the map w.tasks, which the mutex w.mu     *)
(* guards only for the length of one map operation.  runTask is therefore  *)
(* a sequence of steps, one per call that blocks or touches shared state,  *)
(* and a program counter per slot says which step is next.                 *)
(*                                                                         *)
(* The coordinator is not part of this module: the actions Dispatch,       *)
(* Retry, Cancel and Misroute stand for what it puts on the worker's       *)
(* queues, and published keeps what the worker reports to it.  Start, Stop *)
(* and the heartbeats are in WorkerLifecycle; all this module needs of     *)
(* them is which subscriptions Start left behind.                          *)
(***************************************************************************)
EXTENDS Integers, Sequences, FiniteSets, FiniteSetsExt, Functions, Bags, TLC

CONSTANTS
    Workers,          \* worker processes, each with its own Worker struct
    Tasks,            \* task ids
    Concurrency,      \* subscribers of a worker on the shared queue
    Shape,            \* per task: [pre, post: Nat, volumes: BOOLEAN, timeout],
                      \*   timeout[i] the Timeout of its i-th pre-task, task or post-task
    DirectDispatch,   \* whether tasks are also dispatched on exclusive queues
    StrayStates,      \* states other than Scheduled/Cancelled a message may carry
    MaxRetries,       \* bound: re-dispatches of one task after a failure report
    MaxCancels,       \* bound: cancellations sent for one task
    MaxRedeliveries,  \* bound: redeliveries after a handler error, in total
    Nil               \* no node, no task

\* time.ParseDuration over the timeouts of the model: the seconds of the
\* strings it accepts.  "" is no timeout, "soon" a string it refuses.
Seconds  == ("-5s" :> -5) @@ ("0s" :> 0) @@ ("5s" :> 5)
Timeouts == {"", "soon"} \cup DOMAIN Seconds

\* task states (package task)
Pending   == "PENDING"
Scheduled == "SCHEDULED"
Running   == "RUNNING"
Cancelled == "CANCELLED"
Completed == "COMPLETED"
Failed    == "FAILED"
TaskStates == {Pending, Scheduled, Running, Cancelled, Completed, Failed}

ASSUME /\ Concurrency \in Nat \ {0}
       /\ DirectDispatch \in BOOLEAN
       /\ StrayStates \subseteq TaskStates \ {Scheduled, Cancelled}
       /\ {MaxRetries, MaxCancels, MaxRedeliveries} \subseteq Nat
       /\ \A t \in Tasks : /\ Shape[t].pre \in Nat /\ Shape[t].post \in Nat
                           /\ Shape[t].volumes \in BOOLEAN
                           /\ Shape[t].timeout \in
                                 [1 .. Shape[t].pre + 1 + Shape[t].post -> Timeouts]

\* queue names (package mq)
QUEUE_DEFAULT   == <<"default">>
QUEUE_STARTED   == <<"started">>
QUEUE_COMPLETED == <<"completed">>
QUEUE_ERROR     == <<"error">>
Exclusive(w)    == <<"x-", w>>            \* QUEUE_EXCLUSIVE_PREFIX + w.id
WorkerQueues      == {QUEUE_DEFAULT} \cup {Exclusive(w) : w \in Workers}
CoordinatorQueues == {QUEUE_STARTED, QUEUE_COMPLETED, QUEUE_ERROR}

Slots      == Workers \X (0 .. Concurrency)
QueueOf(s) == IF s[2] = 0 THEN Exclusive(s[1]) ELSE QUEUE_DEFAULT

\* What travels on a task queue: the fields of task.Task the handlers read.
TaskMsg == [id : Tasks, state : TaskStates, node : Workers \cup {Nil}]
NoTask  == [id |-> Nil, state |-> Pending, node |-> Nil]

VARIABLES
    queues,       \* broker: the queues workers consume, as sequences of messages
    published,    \* broker: the bag of what workers published for the coordinator
    tasks,        \* w.tasks: per worker, task id -> slot whose cancel it holds
    subscribed,   \* the slots whose SubscribeForTasks succeeded
    pc,           \* per slot: the next step of its handler
    cur,          \* per slot: t, the task the handler was given
    step,         \* per slot: which of pre..., main, post... doRunTask is at
    ctx,          \* per slot: the context of its runTask: "none", "live", "cancelled"
    err,          \* per slot: whether the handler is returning an error
    sent,         \* per task: Scheduled messages the coordinator has published
    cancels,      \* per task: Cancelled messages the coordinator has published
    redelivered   \* redeliveries so far

workerVars == <<tasks, subscribed, pc, cur, step, ctx, err>>
brokerVars == <<queues, published>>
boundVars  == <<sent, cancels, redelivered>>
vars       == <<workerVars, brokerVars, boundVars>>

-----------------------------------------------------------------------------
(* Helpers *)

Steps(t) == Shape[t].pre + 1 + Shape[t].post

\* PublishTask on a queue workers consume, and on one the coordinator does.
Publish(q, m) == queues' = [queues EXCEPT ![q] = Append(@, m)]
Report(q, m)  == published' = published (+) SetToBag({[queue |-> q, task |-> m]})

\* How many reports of task t the coordinator was sent on queue q.
Count(q, t) ==
    MapThenSumSet(LAMBDA e : CopiesIn(e, published),
                  {e \in BagToSet(published) : e.queue = q /\ e.task.id = t})

\* The handler of slot s is at pc value from and goes to pc value to.
Goto(s, from, to) == pc[s] = from /\ pc' = [pc EXCEPT ![s] = to]

\* The pc values of a runTask that still has a container to run or a
\* report to publish.
LivePcs == {"started", "prepare", "step", "run", "failed", "done"}

-----------------------------------------------------------------------------
(* Initial states *)

\* What Start leaves of a worker's subscriptions: it subscribes the
\* exclusive queue first and the shared queue after, and returns at the
\* first SubscribeForTasks that fails, so the first n of them are there.
Subscriptions(w, n) == {<<w, i>> : i \in {j \in 0 .. Concurrency : j < n}}

\* NewWorker's empty map, idle subscribers, empty queues.
InitHandlers ==
    /\ queues      = [q \in WorkerQueues |-> <<>>]
    /\ published   = EmptyBag
    /\ tasks       = [w \in Workers |-> [t \in {} |-> 0]]
    /\ pc          = [s \in Slots |-> "idle"]
    /\ cur         = [s \in Slots |-> NoTask]
    /\ step        = [s \in Slots |-> 0]
    /\ ctx         = [s \in Slots |-> "none"]
    /\ err         = [s \in Slots |-> FALSE]
    /\ sent        = [t \in Tasks |-> 0]
    /\ cancels     = [t \in Tasks |-> 0]
    /\ redelivered = 0

Init ==
    /\ InitHandlers
    /\ \E n \in [Workers -> 0 .. Concurrency + 1] :
          subscribed = UNION {Subscriptions(w, n[w]) : w \in Workers}

-----------------------------------------------------------------------------
(* handleTask: cancelTask *)

cancelCallsNothing(w, id) == UNCHANGED <<tasks, ctx>>
\* cancelTask under w.mu, for a task id the map knows: call the cancel
\* function and drop the entry.
cancelKnown(w, id) ==
    /\ ctx' = [ctx EXCEPT ![<<w, tasks[w][id]>>] = "cancelled"]
    /\ tasks' = [tasks EXCEPT ![w] = Restrict(@, DOMAIN @ \ {id})]

cancelTask(s, m) ==
    /\ m.state = Cancelled
    /\ \/ m.id \in DOMAIN tasks[s[1]] /\ cancelKnown(s[1], m.id)
       \/ m.id \notin DOMAIN tasks[s[1]] /\ UNCHANGED <<tasks, ctx>>
    /\ queues' = [queues EXCEPT ![QueueOf(s)] = Tail(@)]
    /\ UNCHANGED <<pc, cur, step, err, redelivered>>

\* handleTask's default case: the handler returns an error, and the broker
\* drops the message or delivers it again.
rejectTask(s, m) ==
    /\ m.state \notin {Scheduled, Cancelled}
    /\ \/ /\ queues' = [queues EXCEPT ![QueueOf(s)] = Tail(@)]
          /\ UNCHANGED redelivered
       \/ /\ redelivered < MaxRedeliveries
          /\ queues' = [queues EXCEPT ![QueueOf(s)] = Append(Tail(@), m)]
          /\ redelivered' = redelivered + 1
    /\ UNCHANGED <<tasks, ctx, pc, cur, step, err>>

-----------------------------------------------------------------------------
(* handleTask: runTask *)

\* w.tasks[t.ID] = runningTask{cancel}, under w.mu.
register(s, id) ==
    tasks' = [tasks EXCEPT ![s[1]] = (id :> s[2]) @@ @]

\* The start of runTask: a fresh context, its cancel function in the map.
runTask(s, m) ==
    /\ m.state = Scheduled
    /\ register(s, m.id)
    /\ queues' = [queues EXCEPT ![QueueOf(s)] = Tail(@)]
    /\ ctx'  = [ctx EXCEPT ![s] = "live"]
    /\ cur'  = [cur EXCEPT ![s] = m]
    /\ step' = [step EXCEPT ![s] = 1]
    /\ pc'   = [pc EXCEPT ![s] = "started"]
    /\ UNCHANGED <<err, redelivered>>

\* A subscribed, idle slot takes the head of its queue.
handleTask(s) ==
    /\ pc[s] = "idle"
    /\ s \in subscribed
    /\ queues[QueueOf(s)] # <<>>
    /\ LET m == Head(queues[QueueOf(s)])
       IN  runTask(s, m) \/ cancelTask(s, m) \/ rejectTask(s, m)
    /\ UNCHANGED <<subscribed, published, sent, cancels>>

\* A step of runTask that returns an error to the broker; the deferred
\* function has still to run.
ReturnsError(s, from) ==
    /\ Goto(s, from, "exit")
    /\ err' = [err EXCEPT ![s] = TRUE]

startedUnpublishedGoesOn(s) == Goto(s, "started", "prepare") /\ UNCHANGED <<err, published>>
\* The publish on started failed: runTask returns its error.
startedUnpublished(s) == ReturnsError(s, "started") /\ UNCHANGED published

\* t.State = Running, t.NodeID = w.id, publish on started; a failed publish
\* ends the handler.
runTaskPublishStarted(s) ==
    LET t == [cur[s] EXCEPT !.state = Running, !.node = s[1]]
    IN  /\ cur' = [cur EXCEPT ![s] = t]
        /\ \/ Goto(s, "started", "prepare") /\ Report(QUEUE_STARTED, t)
                                            /\ UNCHANGED err
           \/ startedUnpublished(s)
        /\ UNCHANGED <<tasks, subscribed, step, ctx, queues, boundVars>>

\* Default limits, then one temporary directory per volume: a directory
\* that cannot be made ends the handler with nothing published.
runTaskPrepare(s) ==
    /\ pc[s] = "prepare"
    /\ \/ Goto(s, "prepare", "step") /\ UNCHANGED err
       \/ Shape[cur[s].id].volumes /\ ReturnsError(s, "prepare")
    /\ UNCHANGED <<tasks, subscribed, cur, step, ctx, brokerVars, boundVars>>

\* t.Timeout of the pre-task, task or post-task that doRunTask is given.
Timeout(s) == Shape[cur[s].id].timeout[step[s]]

\* time.ParseDuration(v) returns no error.
Parses(v) == v \in DOMAIN Seconds

\* doRunTask up to runtime.Run, for the pre-task, task or post-task that
\* step counts: the run directory or the run script may fail, and a timeout
\* that does not parse does.
doRunTaskBegin(s) ==
    /\ pc[s] = "step"
    /\ \/ (Timeout(s) = "" \/ Parses(Timeout(s))) /\ Goto(s, "step", "run")
       \/ Goto(s, "step", "failed")
    /\ UNCHANGED <<tasks, subscribed, cur, step, ctx, err, brokerVars, boundVars>>

afterStepDone(s) == pc' = [pc EXCEPT ![s] = "done"] /\ UNCHANGED step
afterStepOnward(s) ==
    step' = [step EXCEPT ![s] = @ + 1] /\ pc' = [pc EXCEPT ![s] = "step"]
\* What follows a doRunTask that returned nil: the next pre-task, task or
\* post-task, or the report of completion after the last one.
afterStep(s) ==
    \/ /\ step[s] < Steps(cur[s].id)
       /\ step' = [step EXCEPT ![s] = @ + 1]
       /\ pc' = [pc EXCEPT ![s] = "step"]
    \/ /\ step[s] = Steps(cur[s].id)
       /\ pc' = [pc EXCEPT ![s] = "done"]
       /\ UNCHANGED step

ExpiredIfNegative(s) == Parses(Timeout(s)) /\ Seconds[Timeout(s)] < 0
\* context.WithTimeout(ctx, dur) is done from the start when dur <= 0.
Expired(s) == Parses(Timeout(s)) /\ Seconds[Timeout(s)] <= 0

\* Runtime.Run honours its context: it returns nil only while the context
\* it was given has neither been cancelled nor passed its deadline.
RunSucceeds(s) == ctx[s] # "cancelled" /\ ~Expired(s)

\* runtime.Run returns, and the output file is read: nil, or an error
\* (the container failed, the context was cancelled or timed out, the
\* output could not be read).
doRunTaskEnd(s) ==
    /\ pc[s] = "run"
    /\ \/ RunSucceeds(s) /\ afterStep(s)
       \/ pc' = [pc EXCEPT ![s] = "failed"] /\ UNCHANGED step
    /\ UNCHANGED <<tasks, subscribed, cur, ctx, err, brokerVars, boundVars>>

\* The last step of runTask: set the state, publish the report on q, return
\* nil, or the publish's error.
report(s, from, state, q) ==
    LET t == [cur[s] EXCEPT !.state = state]
    IN  /\ cur' = [cur EXCEPT ![s] = t]
        /\ \/ Goto(s, from, "exit") /\ Report(q, t) /\ UNCHANGED err
           \/ ReturnsError(s, from) /\ UNCHANGED published
        /\ UNCHANGED <<tasks, subscribed, step, ctx, queues, boundVars>>

runTaskPublishFailed(s) ==
    pc[s] = "failed" /\ report(s, "failed", Failed, QUEUE_ERROR)

\* Every step returned nil: t.State = Completed, on completed.
runTaskPublishCompleted(s) ==
    pc[s] = "done" /\ report(s, "done", Completed, QUEUE_COMPLETED)

unregisterNothing(s) == UNCHANGED tasks
\* The deferred delete(w.tasks, t.ID), under w.mu.
unregister(s) ==
    tasks' = [tasks EXCEPT ![s[1]] = Restrict(@, DOMAIN @ \ {cur[s].id})]

\* runTask returns: the deferred function runs, and when the handler
\* returned an error the broker may deliver the message again.
runTaskDeferred(s) ==
    /\ Goto(s, "exit", "idle")
    /\ unregister(s)
    /\ \/ UNCHANGED <<queues, redelivered>>
       \/ /\ err[s] /\ redelivered < MaxRedeliveries
          /\ Publish(QueueOf(s), [cur[s] EXCEPT !.state = Scheduled, !.node = Nil])
          /\ redelivered' = redelivered + 1
    /\ cur'  = [cur EXCEPT ![s] = NoTask]
    /\ step' = [step EXCEPT ![s] = 0]
    /\ ctx'  = [ctx EXCEPT ![s] = "none"]
    /\ err'  = [err EXCEPT ![s] = FALSE]
    /\ UNCHANGED <<subscribed, published, sent, cancels>>

\* t.Timeout != "" for what the slot is running and has still to run.
HasTimeout(s) ==
    cur[s] # NoTask /\ \A i \in step[s] .. Steps(cur[s].id) : Shape[cur[s].id].timeout[i] # ""

ReturnsOnTimeoutOnly(s) == HasTimeout(s)
\* runtime.Run is given rctx, which ends when the task's context is
\* cancelled and, if the task has a timeout, when that passes: these are
\* the runs that are sure to return.
RunMustReturn(s) == ctx[s] = "cancelled" \/ HasTimeout(s)

-----------------------------------------------------------------------------
(* The coordinator's side of the queues *)

\* The coordinator publishes task t, Scheduled, on queue q.
Schedules(q, t) ==
    /\ Publish(q, [id |-> t, state |-> Scheduled, node |-> Nil])
    /\ sent' = [sent EXCEPT ![t] = @ + 1]
    /\ UNCHANGED <<workerVars, published, cancels, redelivered>>

\* A task is scheduled for the first time, on the shared queue or on the
\* exclusive queue of the worker it is assigned to.
Dispatch(t)  == sent[t] = 0 /\ Schedules(QUEUE_DEFAULT, t)
Direct(w, t) == DirectDispatch /\ sent[t] = 0 /\ Schedules(Exclusive(w), t)

\* A task whose every attempt so far was reported Failed is scheduled
\* again, under the same id.
Retry(t) ==
    /\ sent[t] \in 1 .. MaxRetries
    /\ Count(QUEUE_ERROR, t) >= sent[t]
    /\ Schedules(QUEUE_DEFAULT, t)

\* A task that some worker reported started is cancelled on that worker's
\* exclusive queue.
Cancel(t) ==
    /\ cancels[t] < MaxCancels
    /\ \E e \in BagToSet(published) :
        /\ e.queue = QUEUE_STARTED /\ e.task.id = t
        /\ Publish(Exclusive(e.task.node), [e.task EXCEPT !.state = Cancelled])
    /\ cancels' = [cancels EXCEPT ![t] = @ + 1]
    /\ UNCHANGED <<workerVars, published, sent, redelivered>>

\* A message in a state no worker should see reaches an exclusive queue
\* (one of each state at a time).
Misroute(w, t) ==
    /\ \E st \in StrayStates :
        /\ \A m \in Range(queues[Exclusive(w)]) : m.state # st
        /\ Publish(Exclusive(w), [id |-> t, state |-> st, node |-> Nil])
    /\ UNCHANGED <<workerVars, published, boundVars>>

-----------------------------------------------------------------------------
(* Specification *)

SlotNext(s) ==
    \/ handleTask(s)
    \/ runTaskPublishStarted(s)
    \/ runTaskPrepare(s)
    \/ doRunTaskBegin(s)
    \/ doRunTaskEnd(s)
    \/ runTaskPublishFailed(s)
    \/ runTaskPublishCompleted(s)
    \/ runTaskDeferred(s)

WorkerNext == \E s \in Slots : SlotNext(s)

CoordinatorNext ==
    \/ \E t \in Tasks : Dispatch(t) \/ Retry(t) \/ Cancel(t)
    \/ \E w \in Workers, t \in Tasks : Direct(w, t) \/ Misroute(w, t)

Next == WorkerNext \/ CoordinatorNext

Spec == Init /\ [][Next]_vars

\* The goroutines of a worker are scheduled fairly, and the broker delivers
\* to an idle subscriber and answers a publish.  runtime.Run is only sure to
\* return when its context ends.  Nothing is assumed of the coordinator.
Fairness ==
    /\ \A s \in Slots :
        /\ WF_vars(handleTask(s))
        /\ WF_vars(runTaskPublishStarted(s))
        /\ WF_vars(runTaskPrepare(s))
        /\ WF_vars(doRunTaskBegin(s))
        /\ WF_vars(pc[s] = "run" /\ RunMustReturn(s) /\ doRunTaskEnd(s))
        /\ WF_vars(runTaskPublishFailed(s))
        /\ WF_vars(runTaskPublishCompleted(s))
        /\ WF_vars(runTaskDeferred(s))

FairSpec == Spec /\ Fairness

-----------------------------------------------------------------------------
(* Properties *)

TypeOK ==
    /\ queues \in [WorkerQueues -> Seq(TaskMsg)]
    /\ IsABag(published)
    /\ BagToSet(published) \subseteq [queue : CoordinatorQueues, task : TaskMsg]
    /\ \A w \in Workers : /\ DOMAIN tasks[w] \subseteq Tasks
                          /\ Range(tasks[w]) \subseteq 0 .. Concurrency
    /\ subscribed \subseteq Slots
    /\ pc \in [Slots -> LivePcs \cup {"idle", "exit"}]
    /\ cur \in [Slots -> TaskMsg \cup {NoTask}]
    /\ \A s \in Slots :
        step[s] \in IF cur[s] = NoTask THEN {0} ELSE 1 .. Steps(cur[s].id)
    /\ ctx \in [Slots -> {"none", "live", "cancelled"}]
    /\ err \in [Slots -> BOOLEAN]
    /\ sent \in [Tasks -> 0 .. MaxRetries + 1]
    /\ cancels \in [Tasks -> 0 .. MaxCancels]
    /\ redelivered \in 0 .. MaxRedeliveries

\* Every entry of w.tasks holds the cancel function of a runTask that is
\* still on its way and whose context is still live: runTask's deferred
\* delete and cancelTask's delete between them leave no entry behind, so
\* the map cannot grow with the tasks a worker has seen, and cancelTask
\* never calls the cancel function of a run that is over.
RegistryHoldsLiveRuns ==
    \A w \in Workers : \A t \in DOMAIN tasks[w] :
        LET s == <<w, tasks[w][t]>>
        IN  pc[s] \in LivePcs \cup {"exit"} /\ cur[s].id = t /\ ctx[s] = "live"

\* A runTask that has a container to run or a report to publish, and whose
\* context was not cancelled, is the one w.tasks names for its task id: a
\* Cancelled message that cancelTask handles now stops it.  This is what
\* makes cancelTask's "unknown task, nothing to cancel" harmless.
LiveRunIsCancellable ==
    \A s \in Slots :
        pc[s] \in LivePcs /\ ctx[s] = "live"
            => cur[s].id \in DOMAIN tasks[s[1]] /\ tasks[s[1]][cur[s].id] = s[2]

\* A task is reported Completed only by a run whose pre-tasks, task and
\* post-tasks all ran: runTask reaches its publish on completed past every
\* doRunTask, never from the middle of the list.
CompletedRanEveryStep ==
    [][\A s \in Slots :
          pc'[s] = "exit" /\ ~err'[s] /\ cur'[s].state = Completed
              => step[s] = Steps(cur[s].id)]_vars

\* A task is reported Completed only if each of its pre-tasks, the task and
\* its post-tasks had no timeout or a positive one.  doRunTask hands a
\* timeout that is zero or negative to context.WithTimeout as it is, and
\* returns the error of one that does not parse, so a task that carries
\* such a timeout, which validateDuration lets pass when it parses, fails
\* on every attempt and spends every retry.
CompletedMetEveryDeadline ==
    \A e \in BagToSet(published) :
        e.queue = QUEUE_COMPLETED =>
            \A v \in Range(Shape[e.task.id].timeout) :
                v = "" \/ (Parses(v) /\ Seconds[v] > 0)

\* Spec 4.I: "The worker does not publish a completed on an explicit
\* cancel": no runTask whose context cancelTask has cancelled publishes
\* its task as Completed.
NoCompletedAfterCancel ==
    [][\A s \in Slots :
          pc[s] = "done" /\ ctx[s] = "cancelled" => published' = published]_vars

\* Spec 8.5, cancellation closure: a cancellation on its way to a run with
\* a live context is handled, or the run ends first.  cancelTask is run by
\* the one subscriber of the exclusive queue, so this is about that
\* subscriber being free to take the message.
CancelReachesRun ==
    \A s \in Slots :
        (/\ ctx[s] = "live"
         /\ \E m \in Range(queues[Exclusive(s[1])]) :
               m.state = Cancelled /\ m.id = cur[s].id)
            ~> (ctx[s] # "live")

\* A run whose context is cancelled, or whose task has a timeout, comes to
\* an end: the slot returns to its queue.  (A task with neither may run for
\* ever; that is the container's business.)
BoundedRunEnds ==
    \A s \in Slots :
        (pc[s] # "idle" /\ (ctx[s] = "cancelled" \/ HasTimeout(s))) ~> (pc[s] = "idle")

=============================================================================
