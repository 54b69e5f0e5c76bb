----------------------------- MODULE WorkerNode -----------------------------
(***************************************************************************)
(* A whole worker process: the life cycle of WorkerLifecycle and the task  *)
(* handlers of Worker over the same subscriptions.  Start makes the        *)
(* subscriptions the handlers run on; Stop and the handlers share nothing  *)
(* but the process, which is what this module is about.                    *)
(***************************************************************************)
EXTENDS Naturals, Bags

CONSTANTS Workers, Tasks, Concurrency, Shape, DirectDispatch, StrayStates,
          MaxRetries, MaxCancels, MaxRedeliveries, Nil

VARIABLES
    phase, conc, subscribed, stop, hb, heartbeats,          \* WorkerLifecycle
    queues, published, tasks, pc, cur, step, ctx, err,      \* Worker
    sent, cancels, redelivered

L == INSTANCE WorkerLifecycle
H == INSTANCE Worker

lifecycleOnly == <<phase, conc, stop, hb, heartbeats>>
handlersOnly  == <<queues, published, tasks, pc, cur, step, ctx, err,
                   sent, cancels, redelivered>>
vars == <<lifecycleOnly, subscribed, handlersOnly>>

Init == L!Init /\ H!InitHandlers

\* A step of the life cycle, of a handler, or of the coordinator's stub.
Next ==
    \/ L!Next /\ UNCHANGED handlersOnly
    \/ H!Next /\ UNCHANGED lifecycleOnly

Spec == Init /\ [][Next]_vars

-----------------------------------------------------------------------------
(* Properties *)

TypeOK == L!TypeOK /\ H!TypeOK

\* Heartbeats are published only by a worker whose every subscription was
\* made: Start starts the heartbeat goroutine last, after the exclusive
\* queue and each of the shared subscriptions succeeded, so a node the
\* coordinator knows of can be handed tasks and cancellations.
HeartbeatingWorkerListens == L!HeartbeatingWorkerListens

\* A worker that reported a task started consumes its exclusive queue: Start
\* subscribes x-<id> before any shared queue, and returns at the first
\* subscription that fails, so a worker that can be handed a task at all,
\* be it while Start is still subscribing, can be handed its cancellation,
\* which the coordinator publishes on the exclusive queue of the node the
\* started report names.
StartedWorkerHearsCancel ==
    \A e \in BagToSet(published) :
        e.queue = H!QUEUE_STARTED => <<e.task.node, 0>> \in subscribed

=============================================================================
