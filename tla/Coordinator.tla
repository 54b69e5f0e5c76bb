---------------------------- MODULE Coordinator ----------------------------
(***************************************************************************)
(* The coordinator's event loop (specification 4.F) driving one job of     *)
(* NTasks leaf tasks, composed with the workers as WorkerContract          *)
(* describes them.                                                         *)
(*                                                                         *)
(* The handlers are not in the repository: they are written from the       *)
(* specification and the tests under src/internal/coordinator.  A handler  *)
(* is one transaction on the datastore (job, task) and predicates its      *)
(* writes on the state it finds.  The broker delivers at least once: a     *)
(* message is handled and acked, or handled and, the ack lost, handled     *)
(* again; the queues are bags, so messages overtake each other within a    *)
(* queue and between queues.  The workers take Scheduled messages whatever *)
(* has become of the job, open and close attempts as the contract allows,  *)
(* and handle cancellations as cancelTask does: through w.tasks, which     *)
(* holds one cancel function per task id.                                  *)
(***************************************************************************)
EXTENDS Integers, Sequences, FiniteSets, Bags, Functions

CONSTANTS
    Workers,
    Concurrency,      \* the subscribers of each worker on the work queue
    NTasks,           \* the length of the job's task list
    RetryLimit,       \* retry.limit of every task
    MaxFaults,        \* bound: lost acks, redeliveries to workers and handler
                      \*   errors, in total
    Nil

ASSUME {Concurrency, NTasks, RetryLimit, MaxFaults} \subseteq Nat

Tasks    == 1 .. NTasks
Active   == {"PENDING", "SCHEDULED", "RUNNING"}
Terminal == {"COMPLETED", "FAILED", "CANCELLED"}

VARIABLES
    jobs,         \* the queue jobs: the messages of the submitted job on it
    job,          \* datastore: [state, position]
    task,         \* datastore: the task rows the planner made, by position
    published,    \* the queue pending, a bag of messages
    scheduled,    \* the shared work queue: a bag of task ids
    cancelq,      \* the cancellations on the exclusive queues: a bag of
                  \*   <<task, worker>>
    reports,      \* the workers' reports not yet acked: WorkerContract
    open,         \* attempts open per task and worker: WorkerContract
    registry,     \* registry[t][w]: what w.tasks of worker w names under t
    stopping,     \* stopping[t][w]: open attempts whose context is cancelled
    returning,    \* returning[t][w]: runs that reported their end and have
                  \*   not yet run their deferred delete
    faults        \* lost acks, redeliveries and handler errors so far

W == INSTANCE WorkerContract

store      == <<job, task>>
workerVars == <<open, registry, stopping, returning>>
vars == <<jobs, store, published, scheduled, cancelq, reports, workerVars, faults>>

One(x) == SetToBag({x})
PendingMsg(t) == [queue |-> <<"pending">>, task |-> W!Attempt(t, Nil, "PENDING")]

\* The messages of queue q that wait for the coordinator.
Inbox(q) == {m \in BagToSet(reports (+) published) : m.queue = <<q>>}

Init ==
    /\ jobs = 1
    /\ job = [state |-> "PENDING", position |-> 1]
    /\ task = <<>>
    /\ published = EmptyBag /\ scheduled = EmptyBag
    /\ cancelq = EmptyBag
    /\ registry = [t \in Tasks |-> [w \in Workers |-> "none"]]
    /\ stopping = [t \in Tasks |-> [w \in Workers |-> 0]]
    /\ returning = stopping
    /\ faults = 0
    /\ W!Init

-----------------------------------------------------------------------------
(* The handlers *)

\* UPDATE task SET state = to WHERE id = t AND state IN from.
Move(t, from, to) ==
    task' = IF task[t].state \in from THEN [task EXCEPT ![t].state = to] ELSE task

\* The planner, for leaf tasks (4.E, rules 1, 2 and 4): past the last task
\* the job is Completed; else the task at p is persisted Pending and
\* published on pending.
Plan(state, p, rows) ==
    IF p > NTasks
    THEN /\ job' = [state |-> "COMPLETED", position |-> p]
         /\ task' = rows /\ UNCHANGED published
    ELSE /\ job' = [state |-> state, position |-> p]
         /\ task' = Append(rows, [state |-> "PENDING", attempts |-> 0, node |-> Nil])
         /\ published' = published (+) One(PendingMsg(p))

\* The job message is handled and acked, or handled and, the ack lost,
\* handled again: only a job found Pending is planned.
onJob ==
    /\ jobs > 0
    /\ \/ jobs' = jobs - 1 /\ UNCHANGED faults
       \/ faults < MaxFaults /\ faults' = faults + 1 /\ UNCHANGED jobs
    /\ \/ job.state = "PENDING" /\ Plan("SCHEDULED", 1, task)
       \/ job.state # "PENDING" /\ UNCHANGED <<store, published>>
    /\ UNCHANGED <<scheduled, cancelq, reports, workerVars>>

\* onPending dispatches a task that has not ended, of a job that goes on.
Dispatchable(t) == job.state \in Active /\ task[t].state \in Active

onPending(t) ==
    /\ \/ /\ Dispatchable(t)
          /\ Move(t, Active, "SCHEDULED")
          /\ scheduled' = scheduled (+) One(t)
       \/ /\ ~Dispatchable(t)
          /\ Move(t, Active, "CANCELLED")
          /\ UNCHANGED scheduled
    /\ UNCHANGED <<jobs, job, cancelq>>

\* The job of the task reported started has ended: its worker is sent a
\* cancellation, the task is left as it is.
cancelReporter(t, w) == cancelq' = cancelq (+) One(<<t, w>>)

onStarted(t, w) ==
    /\ \/ /\ job.state \in Terminal
          /\ cancelReporter(t, w)
          /\ UNCHANGED store
       \/ /\ job.state \notin Terminal
          /\ task' = IF task[t].state \in Active
                     THEN [task EXCEPT ![t].state = "RUNNING", ![t].node = w]
                     ELSE task
          /\ job' = [job EXCEPT !.state = IF @ = "SCHEDULED" THEN "RUNNING" ELSE @]
          /\ UNCHANGED cancelq
    /\ UNCHANGED <<jobs, published, scheduled>>

SettledIfCompleted(t) == task[t].state = "COMPLETED"
SettledUnlessCompleted(t) == task[t].state \in Terminal \ {"COMPLETED"}
\* A report for a task that has reached a terminal state is a replay or
\* comes too late: the handler has nothing to do.
Settled(t) == task[t].state \in Terminal

onCompleted(t) ==
    /\ \/ Settled(t) /\ UNCHANGED <<store, published>>
       \/ /\ ~Settled(t) /\ job.state \in Terminal
          /\ Move(t, Active, "CANCELLED")
          /\ UNCHANGED <<job, published>>
       \/ /\ ~Settled(t) /\ job.state \notin Terminal
          /\ Plan(job.state, job.position + 1, [task EXCEPT ![t].state = "COMPLETED"])
    /\ UNCHANGED <<jobs, scheduled, cancelq>>

\* The task may be tried again: attempts counts the retries made.
CanRetry(t) == task[t].attempts < RetryLimit

\* Task t has failed, and queue holds what waits on pending: the task is
\* retried, or it fails and its job with it.
Fails(t, queue) ==
    /\ \/ Settled(t) /\ UNCHANGED store /\ published' = queue
       \/ /\ ~Settled(t) /\ CanRetry(t)
          /\ task' = [task EXCEPT ![t].state = "SCHEDULED", ![t].attempts = @ + 1]
          /\ published' = queue (+) One(PendingMsg(t))
          /\ UNCHANGED job
       \/ /\ ~Settled(t) /\ ~CanRetry(t)
          /\ Move(t, Active, "FAILED")
          /\ job' = [job EXCEPT !.state = IF @ \in Active THEN "FAILED" ELSE @]
          /\ published' = queue
    /\ UNCHANGED <<jobs, scheduled, cancelq>>

onFailed(t) == Fails(t, published)

\* 4.G: the handler of a task message, or a middleware before it, returns
\* an error.  The handler is one transaction and has changed nothing; the
\* wrapper fails the task in its place and returns nil, so that m is acked.
taskHandler(m) ==
    /\ faults < MaxFaults /\ faults' = faults + 1
    /\ reports' = reports (-) One(m)
    /\ Fails(m.task.id, published (-) One(m))
    /\ UNCHANGED workerVars

\* 4.G: onJob, or a middleware before it, returns an error.  The wrapper
\* fails the job, in whatever state its message finds it (the test has it
\* Running), and returns nil.
jobHandler ==
    /\ jobs > 0 /\ jobs' = jobs - 1
    /\ faults < MaxFaults /\ faults' = faults + 1
    /\ job' = [job EXCEPT !.state = IF @ \in Active THEN "FAILED" ELSE @]
    /\ UNCHANGED <<task, published, scheduled, cancelq, reports, workerVars>>

\* The tasks of the job that run, with the node that runs them.
RunningOn == {<<t, task[t].node>> : t \in {u \in DOMAIN task : task[u].state = "RUNNING"}}

\* PUT /jobs/:id/cancel.
cancelJob ==
    /\ job.state \in Active
    /\ job' = [job EXCEPT !.state = "CANCELLED"]
    /\ task' = [t \in DOMAIN task |->
                  [task[t] EXCEPT !.state =
                      IF @ \in {"PENDING", "SCHEDULED"} THEN "CANCELLED" ELSE @]]
    /\ cancelq' = cancelq (+) SetToBag(RunningOn)
    /\ UNCHANGED <<jobs, published, scheduled, reports, workerVars, faults>>

\* The broker hands message m of queue q to its handler: the handler's
\* return acks it, or the ack is lost and m stays to be delivered again.
Delivered(m, q, other) ==
    /\ \/ q' = q (-) One(m) /\ UNCHANGED faults
       \/ faults < MaxFaults /\ faults' = faults + 1 /\ UNCHANGED q
    /\ UNCHANGED <<other, workerVars>>

Reported(m) == Delivered(m, reports, <<>>)

pending ==
    \E m \in Inbox("pending") : Delivered(m, published, reports) /\ onPending(m.task.id)
started   == \E m \in Inbox("started") : Reported(m) /\ onStarted(m.task.id, m.task.node)
completed == \E m \in Inbox("completed") : Reported(m) /\ onCompleted(m.task.id)
error     == \E m \in Inbox("error") : Reported(m) /\ onFailed(m.task.id)
refused   == \E m \in Inbox("pending") \cup Inbox("started") \cup Inbox("completed") :
                taskHandler(m)

-----------------------------------------------------------------------------
(* The workers *)

Names(t, w, what) == registry' = [registry EXCEPT ![t][w] = what]

\* The subscribers of w that are inside handleTask.
Busy(w) == SumFunction([t \in Tasks |-> open[t][w] + returning[t][w]])

\* A subscriber of w that is idle is handed a Scheduled message.
Handed(t, w) == BagIn(t, scheduled) /\ Busy(w) < Concurrency

\* runTask puts its cancel function into w.tasks, over whatever is there,
\* and reports started.
Takes(t, w) ==
    /\ Handed(t, w)
    /\ scheduled' = scheduled (-) One(t)
    /\ W!Opens(t, w)
    /\ Names(t, w, "live")
    /\ UNCHANGED <<jobs, store, published, cancelq, stopping, returning, faults>>

\* The publish on started fails: runTask returns the error, its deferred
\* delete empties the entry it wrote, and the message is delivered again.
Balks(t, w) ==
    /\ Handed(t, w)
    /\ faults < MaxFaults /\ faults' = faults + 1
    /\ Names(t, w, "none")
    /\ UNCHANGED <<jobs, store, published, scheduled, cancelq, reports, open,
                   stopping, returning>>

\* The open attempts of t on w that run under a live context.
Live(t, w) == open[t][w] - stopping[t][w]

\* An attempt whose context is cancelled comes to its end.
Stopped(t, w) ==
    /\ stopping[t][w] > 0
    /\ stopping' = [stopping EXCEPT ![t][w] = @ - 1]

\* One of the open attempts of t on w comes to its end: one whose context
\* is cancelled, the one w.tasks names, or one it names no more.
LeavesKeepsContext(t, w) ==
    \/ stopping[t][w] > 0 /\ UNCHANGED <<registry, stopping>>
    \/ Live(t, w) > 0 /\ UNCHANGED <<registry, stopping>>
Leaves(t, w) ==
    \/ Stopped(t, w) /\ UNCHANGED registry
    \/ registry[t][w] = "live" /\ Names(t, w, "done") /\ UNCHANGED stopping
    \/ /\ Live(t, w) > IF registry[t][w] = "live" THEN 1 ELSE 0
       /\ UNCHANGED <<registry, stopping>>

EndsGoesOn(t, w) ==
    /\ open[t][w] > 0
    /\ reports' = reports (+) W!ReportOf(<<"error">>, t, w, "FAILED")
    /\ UNCHANGED <<jobs, store, published, scheduled, cancelq, workerVars, faults>>
\* runTask publishes its terminal report; its deferred delete is yet to run.
Ends(t, w) ==
    /\ W!Closes(t, w)
    /\ Leaves(t, w)
    /\ returning' = [returning EXCEPT ![t][w] = @ + 1]
    /\ UNCHANGED <<jobs, store, published, scheduled, cancelq, faults>>

\* runTask returns: the deferred function deletes w.tasks[t.ID], whichever
\* run put it there.
Returns(t, w) ==
    /\ returning[t][w] > 0
    /\ returning' = [returning EXCEPT ![t][w] = @ - 1]
    /\ Names(t, w, "none")
    /\ UNCHANGED <<jobs, store, published, scheduled, cancelq, reports, open,
                   stopping, faults>>

\* The publish of the terminal report fails: runTask returns the error, its
\* deferred delete runs, and the broker delivers the message again.
GivesUp(t, w) ==
    /\ faults < MaxFaults /\ faults' = faults + 1
    /\ W!GivesUp(t, w)
    /\ Stopped(t, w) \/ (Live(t, w) > 0 /\ UNCHANGED stopping)
    /\ Names(t, w, "none")
    /\ scheduled' = scheduled (+) One(t)
    /\ UNCHANGED <<jobs, store, published, cancelq, returning>>

CancelledCallsNothing(t, w) ==
    /\ BagIn(<<t, w>>, cancelq)
    /\ cancelq' = cancelq (-) One(<<t, w>>)
    /\ UNCHANGED <<jobs, store, published, scheduled, reports, workerVars, faults>>
\* cancelTask: the cancel function w.tasks holds under the id is called and
\* the entry deleted; an unknown task is nothing to cancel.  Cancelling the
\* context of a run that has ended does nothing.
Cancelled(t, w) ==
    /\ BagIn(<<t, w>>, cancelq)
    /\ cancelq' = cancelq (-) One(<<t, w>>)
    /\ stopping' = [stopping EXCEPT ![t][w] = IF registry[t][w] = "live" THEN @ + 1 ELSE @]
    /\ Names(t, w, "none")
    /\ UNCHANGED <<jobs, store, published, scheduled, reports, open, returning, faults>>

-----------------------------------------------------------------------------
(* Specification *)

CoordinatorNext ==
    \/ onJob \/ cancelJob \/ pending \/ started \/ completed \/ error
    \/ jobHandler \/ refused

WorkerNext ==
    \E t \in Tasks, w \in Workers :
        \/ Takes(t, w) \/ Balks(t, w) \/ Ends(t, w) \/ Returns(t, w)
        \/ GivesUp(t, w) \/ Cancelled(t, w)

Next == CoordinatorNext \/ WorkerNext

Spec == Init /\ [][Next]_vars

\* An attempt whose context is cancelled ends, with a report or with the
\* error of a publish that the cancelled context made fail.
Halts(t, w) == Stopped(t, w) /\ (Ends(t, w) \/ GivesUp(t, w))

\* The coordinator's consumers keep consuming, some worker takes a
\* Scheduled message, and a function that returns runs what it deferred; a
\* run is only sure to end once its context is cancelled (Worker:
\* CancelReachesRun, BoundedRunEnds).  Nobody has to cancel the job, and no
\* delivery has to fail or to be duplicated.
Fairness ==
    /\ WF_vars(onJob) /\ WF_vars(pending) /\ WF_vars(started)
    /\ WF_vars(completed) /\ WF_vars(error)
    /\ \A t \in Tasks :
        /\ WF_vars(\E w \in Workers : Takes(t, w))
        /\ \A w \in Workers :
            /\ WF_vars(Cancelled(t, w)) /\ WF_vars(Returns(t, w))
            /\ WF_vars(Halts(t, w))

FairSpec == Spec /\ Fairness

-----------------------------------------------------------------------------
(* Properties *)

TypeOK ==
    /\ jobs \in 0 .. 1
    /\ job \in [state : Active \cup Terminal, position : 1 .. NTasks + 1]
    /\ task \in Seq([state : Active \cup Terminal, attempts : 0 .. RetryLimit,
                     node : Workers \cup {Nil}])
    /\ BagToSet(published) \subseteq {PendingMsg(t) : t \in Tasks}
    /\ BagToSet(scheduled) \subseteq Tasks
    /\ BagToSet(cancelq) \subseteq Tasks \X Workers
    /\ registry \in [Tasks -> [Workers -> {"none", "live", "done"}]]
    /\ {stopping, returning} \subseteq [Tasks -> [Workers -> Nat]]
    /\ \A t \in Tasks, w \in Workers :
          /\ Live(t, w) >= IF registry[t][w] = "live" THEN 1 ELSE 0
          /\ registry[t][w] = "done" => returning[t][w] > 0
    /\ BagToSet(reports) \subseteq
          [queue : {<<"started">>, <<"completed">>, <<"error">>},
           task : [id : Tasks, state : Active \cup Terminal, node : Workers]]
    /\ faults \in 0 .. MaxFaults

\* Specification 3 and 8.1: terminal states are absorbing.  Once a task or
\* the job is Completed, Failed or Cancelled, no report that is replayed,
\* that comes late from another attempt or that was overtaken, and no
\* cancellation, changes it.
TerminalStatesAbsorb ==
    [][/\ job.state \in Terminal => job' = job
       /\ \A t \in DOMAIN task : task[t].state \in Terminal => task'[t] = task[t]]_vars

\* Specification 3, 8.2 and 8.4: the job's position counts its completed
\* tasks.  The tasks before the position are exactly the Completed ones,
\* and there is a row for every position up to the current one and no
\* other: a Completed report advances the job once however often it is
\* delivered and however many attempts report it.
PositionCountsCompletions ==
    /\ \A t \in DOMAIN task : t < job.position <=> task[t].state = "COMPLETED"
    /\ task = <<>> \/ DOMAIN task = {t \in Tasks : t <= job.position}
    /\ job.state = "COMPLETED" <=> job.position > NTasks

\* One attempt at a time.  A task is put on a work queue when it is planned
\* and when onFailed retries it, and onFailed hears of a failure only from
\* an attempt that has closed: the attempts at one task follow each other,
\* and two of them are open together only where the broker delivered a
\* message twice or a handler error failed a task that was running (each is
\* counted in faults).  A worker that went on running after it reported the task
\* Failed (runTask returns after each publish on error), or a retry that
\* was dispatched on anything but a report, would run a task twice over.
AttemptsOverlapOnlyByFault ==
    \A t \in Tasks : SumFunction(open[t]) <= 1 + faults

\* Task t has a run that no cancellation reaches: the row of t names
\* another node than the one that runs it, or w.tasks of that node names
\* another run of t or none.
OutOfReach(t) ==
    \E w \in Workers :
        /\ open[t][w] > 0
        /\ \/ task[t].node # w
           \/ Live(t, w) > IF registry[t][w] = "live" THEN 1 ELSE 0

\* Specification 8.5, cancellation closure, as far as cancelTask can keep
\* it.  Once the job is cancelled, every task of it comes to rest in a
\* terminal state, except a task that is left with a run out of reach.  It
\* takes cancelJob's message to the node of a Running row, onStarted's
\* message to the worker that took a Scheduled message after the job had
\* ended (handleTask does not know), cancelTask calling the function it
\* finds, the failed report of the stopped run, and onFailed and onPending
\* not reviving the task.
CancelledJobQuiescesWithinReach ==
    job.state = "CANCELLED"
        ~> [](\A t \in DOMAIN task : task[t].state \in Terminal \/ OutOfReach(t))

\* Specification 8.5, cancellation closure: cancelling a job results in
\* every task of it reaching a terminal state.
CancelledJobQuiesces ==
    job.state = "CANCELLED" ~> \A t \in DOMAIN task : task[t].state \in Terminal

=============================================================================
