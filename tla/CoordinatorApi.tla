--------------------------- MODULE CoordinatorApi ---------------------------
(***************************************************************************)
(* The coordinator's HTTP API of src/coordinator/api.go: the server's life *)
(* (start, shutdown), createTask, the one handler that writes, and the     *)
(* handlers that read.                                                     *)
(*                                                                         *)
(* Every request is served by a goroutine of its own, so createTask is a   *)
(* sequence of steps per request: bind and check the body, save the task,  *)
(* publish it on the pending queue, answer.  The datastore and the broker  *)
(* are shared by all requests and by the consumer of the pending queue,    *)
(* the coordinator's onPending, which here only takes a task off the queue *)
(* and marks it Scheduled.                                                 *)
(***************************************************************************)
EXTENDS Naturals, Sequences, FiniteSets, Functions, TLC

CONSTANTS
    Requests    \* the POST /task requests; a request's task gets its uuid

Pending   == "PENDING"
Scheduled == "SCHEDULED"

\* What a body can be: unparsable, or a task whose image is empty, blank
\* or a name.
Bodies == {"malformed", "noimage", "blankimage", "image"}

\* strings.TrimSpace(t.Image) == "".
MissingImage(body) == body \in {"noimage", "blankimage"}

VARIABLES
    server,    \* "new", "starting", "listening", "closing", "closed", "fatal"
    ds,        \* the datastore: task id -> state
    pending,   \* the queue QUEUE_PENDING, a sequence of task ids
    lost,      \* tasks taken off the queue that the datastore did not know
    pc,        \* per request: "idle", "save", "publish", "done"; "read"
               \* once a GET was answered
    code       \* per request: the HTTP status answered, 0 before that

vars == <<server, ds, pending, lost, pc, code>>

Init ==
    /\ server  = "new"
    /\ ds      = [t \in {} |-> Pending]
    /\ pending = <<>>
    /\ lost    = {}
    /\ pc      = [r \in Requests |-> "idle"]
    /\ code    = [r \in Requests |-> 0]

InFlight == {r \in Requests : pc[r] \in {"save", "publish"}}

\* c.AbortWithError(status, err) or c.JSON(status, ...), then return.
Answer(r, status) ==
    /\ pc' = [pc EXCEPT ![r] = "done"]
    /\ code' = [code EXCEPT ![r] = status]

-----------------------------------------------------------------------------
(* The server *)

\* start returns at once; the goroutine it leaves behind has yet to listen.
start ==
    /\ server = "new"
    /\ server' = "starting"
    /\ UNCHANGED <<ds, pending, lost, pc, code>>

\* ListenAndServe in start's goroutine: it listens, or log.Fatal ends the
\* process.
listenAndServe ==
    /\ server = "starting"
    /\ server' \in {"listening", "fatal"}
    /\ UNCHANGED <<ds, pending, lost, pc, code>>

\* shutdown: no new requests; Shutdown returns when those in flight are done.
shutdown ==
    /\ \/ server \in {"starting", "listening"} /\ server' = "closing"
       \/ server = "closing" /\ InFlight = {} /\ server' = "closed"
    /\ UNCHANGED <<ds, pending, lost, pc, code>>

-----------------------------------------------------------------------------
(* createTask *)

\* BindJSON and the check of the image: 400 and return, or go on with a
\* task in state Pending under a new id.
createTaskBind(r) ==
    /\ server = "listening"
    /\ pc[r] = "idle"
    /\ \E body \in Bodies :
        \/ /\ body = "malformed" \/ MissingImage(body)
           /\ Answer(r, 400)
        \/ /\ body # "malformed" /\ ~MissingImage(body)
           /\ pc' = [pc EXCEPT ![r] = "save"]
           /\ UNCHANGED code
    /\ UNCHANGED <<server, ds, pending, lost>>

saveFailedAnswersOK(r) == Answer(r, 200)
saveFailedUnanswered(r) == pc' = [pc EXCEPT ![r] = "done"] /\ UNCHANGED code
saveFailedGoesOn(r) == pc' = [pc EXCEPT ![r] = "publish"] /\ UNCHANGED code
\* The datastore refused the task: 500 and return.
saveFailed(r) == Answer(r, 500)

\* s.ds.Save.
createTaskSave(r) ==
    /\ pc[r] = "save"
    /\ \/ /\ ds' = (r :> Pending) @@ ds
          /\ pc' = [pc EXCEPT ![r] = "publish"]
          /\ UNCHANGED code
       \/ saveFailed(r) /\ UNCHANGED ds
    /\ UNCHANGED <<server, pending, lost>>

publishFailedAnswersOK(r) == Answer(r, 200)
\* The broker refused the task: 400 and return.
publishFailed(r) == Answer(r, 400)

\* s.broker.Publish on QUEUE_PENDING, and the answer.
createTaskPublish(r) ==
    /\ pc[r] = "publish"
    /\ \/ pending' = Append(pending, r) /\ Answer(r, 200)
       \/ publishFailed(r) /\ UNCHANGED pending
    /\ UNCHANGED <<server, ds, lost>>

-----------------------------------------------------------------------------
(* The handlers that read *)

\* A GET is answered in one step: c.JSON or c.AbortWithError.
Reply(r, status) ==
    /\ server = "listening" /\ pc[r] = "idle"
    /\ pc' = [pc EXCEPT ![r] = "read"]
    /\ code' = [code EXCEPT ![r] = status]
    /\ UNCHANGED <<server, ds, pending, lost>>

status(r) == Reply(r, 200)

\* s.broker.Queues answers or fails.
listQueues(r) == Reply(r, 200) \/ Reply(r, 400)

\* s.ds.GetByID: every error is answered 404, an unknown id like a
\* datastore that failed.
getTask(r) == (\E id \in DOMAIN ds : Reply(r, 200)) \/ Reply(r, 404)

-----------------------------------------------------------------------------
(* The consumer of the pending queue *)

\* onPending loads the task it was handed and marks it Scheduled; a task
\* the datastore does not know cannot be scheduled.
onPending ==
    /\ pending # <<>>
    /\ LET t == Head(pending)
       IN  /\ ds' = [x \in DOMAIN ds |-> IF x = t THEN Scheduled ELSE ds[x]]
           /\ lost' = lost \cup ({t} \ DOMAIN ds)
    /\ pending' = Tail(pending)
    /\ UNCHANGED <<server, pc, code>>

-----------------------------------------------------------------------------
(* Specification *)

Next ==
    \/ start
    \/ listenAndServe
    \/ shutdown
    \/ \E r \in Requests : createTaskBind(r) \/ createTaskSave(r) \/ createTaskPublish(r)
    \/ \E r \in Requests : status(r) \/ listQueues(r) \/ getTask(r)
    \/ onPending

Spec == Init /\ [][Next]_vars

\* The calls of a handler return: Save and Publish answer or fail.  The
\* consumer of the pending queue is subscribed and is handed what is on it.
\* Nobody has to send a request, and the server need not be started.
Fairness ==
    /\ \A r \in Requests : WF_vars(createTaskSave(r)) /\ WF_vars(createTaskPublish(r))
    /\ WF_vars(onPending)

FairSpec == Spec /\ Fairness

-----------------------------------------------------------------------------
(* Properties *)

TypeOK ==
    /\ server \in {"new", "starting", "listening", "closing", "closed", "fatal"}
    /\ DOMAIN ds \subseteq Requests
    /\ Range(ds) \subseteq {Pending, Scheduled}
    /\ pending \in Seq(Requests)
    /\ lost \subseteq Requests
    /\ pc \in [Requests -> {"idle", "save", "publish", "done", "read"}]
    /\ \A r \in Requests :
          code[r] \in CASE pc[r] = "done" -> {200, 400, 500}
                        [] pc[r] = "read" -> {200, 400, 404}
                        [] OTHER -> {0}

\* The consumer of the pending queue never meets a task it cannot load:
\* createTask saves before it publishes and publishes only what it saved,
\* whatever other requests and the consumer do in between.
NoTaskLost == lost = {}

\* A client that was answered 200 has had its task published: it is on
\* the pending queue or the consumer has taken it.  createTask answers 200
\* only past a Publish that succeeded.
AcceptedTaskWasPublished ==
    \A r \in Requests :
        pc[r] = "done" /\ code[r] = 200 =>
            \/ r \in Range(pending) \cup lost
            \/ r \in DOMAIN ds /\ ds[r] = Scheduled

\* A client that was answered 200 by createTask will see its task
\* scheduled: the task was saved before it was published, so that the
\* consumer, which takes the queue in order behind the tasks of other
\* requests, finds it in the datastore, whatever the server does meanwhile.
AcceptedTaskIsScheduled ==
    \A r \in Requests :
        (pc[r] = "done" /\ code[r] = 200) ~> (r \in DOMAIN ds /\ ds[r] = Scheduled)

\* POST /task persists the task Pending and publishes it: a task createTask
\* left in the datastore in state Pending is on the pending queue.
SavedTaskIsQueued ==
    \A r \in DOMAIN ds :
        pc[r] = "done" /\ ds[r] = Pending => r \in Range(pending)

=============================================================================
