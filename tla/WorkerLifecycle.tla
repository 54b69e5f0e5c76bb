--------------------------- MODULE WorkerLifecycle ---------------------------
(***************************************************************************)
(* The life of a worker process in src/worker/worker.go: NewWorker, Start, *)
(* Stop and the sendHeartbeats goroutine that Start launches.              *)
(*                                                                         *)
(* Start subscribes handleTask to the worker's exclusive queue and then to *)
(* the shared queue, once per unit of concurrency; a slot <<w, i>> is one  *)
(* of these subscriptions, i = 0 the exclusive one.  What the subscribed   *)
(* handlers do is the subject of module Worker.  Stop only raises w.stop,  *)
(* which nothing but the heartbeat loop reads, and reads without           *)
(* synchronisation: nothing is promised of when the loop leaves.           *)
(***************************************************************************)
EXTENDS Naturals, FiniteSets

CONSTANTS
    Workers,       \* worker processes
    Concurrency    \* cfg.Queues[default] when the configuration names queues

ASSUME Concurrency \in Nat \ {0}

NodeStatus   == {"UP", "DOWN"}            \* node.UP, node.Down
Exclusive(w) == <<"x-", w>>               \* QUEUE_EXCLUSIVE_PREFIX + w.id
Slots        == Workers \X (0 .. Concurrency)

VARIABLES
    phase,        \* per worker: "none", "refused" (NewWorker returned an error),
                  \*   "new", "starting" (inside Start), "started", "failed"
                  \*   (Start returned an error)
    conc,         \* per worker: w.queues[default]
    subscribed,   \* the slots whose SubscribeForTasks succeeded
    stop,         \* w.stop
    hb,           \* per worker: where its sendHeartbeats goroutine is
    heartbeats    \* broker: the node records published as heartbeats

vars == <<phase, conc, subscribed, stop, hb, heartbeats>>

Init ==
    /\ phase      = [w \in Workers |-> "none"]
    /\ conc       = [w \in Workers |-> 0]
    /\ subscribed = {}
    /\ stop       = [w \in Workers |-> FALSE]
    /\ hb         = [w \in Workers |-> "idle"]
    /\ heartbeats = {}

queuesAsGiven(n) == n
\* len(cfg.Queues) == 0: the default queue, with one subscriber.
defaultQueues(n) == IF n = 0 THEN 1 ELSE n

\* NewWorker: a configuration without queues gets the default queue with one
\* subscriber; one without a broker or a runtime is refused.
NewWorker(w) ==
    /\ phase[w] = "none"
    /\ \E cfg \in [queues : {0, Concurrency}, broker : BOOLEAN, runtime : BOOLEAN] :
        \/ /\ cfg.broker /\ cfg.runtime
           /\ phase' = [phase EXCEPT ![w] = "new"]
           /\ conc' = [conc EXCEPT ![w] = defaultQueues(cfg.queues)]
        \/ /\ ~(cfg.broker /\ cfg.runtime)
           /\ phase' = [phase EXCEPT ![w] = "refused"]
           /\ UNCHANGED conc
    /\ UNCHANGED <<subscribed, stop, hb, heartbeats>>

\* The subscriptions worker w has made.
Made(w) == Cardinality({s \in subscribed : s[1] = w})

subscribesSharedFirst(w, n) == <<w, conc[w] - n>>
\* The slot of the next SubscribeForTasks of Start when n were made: the
\* exclusive queue first, the shared queue after.
subscribes(w, n) == <<w, n>>

startsHeartbeatsAnyway(w, n) == hb' = [hb EXCEPT ![w] = "check"]
\* go w.sendHeartbeats(), the last statement of Start: reached when all
\* conc[w] + 1 subscriptions succeeded.
startsHeartbeats(w, n) ==
    \/ n = conc[w] + 1 /\ hb' = [hb EXCEPT ![w] = "check"]
    \/ n <= conc[w] /\ UNCHANGED hb

\* Start begins with the worker's API, whose failure makes it return.
Start(w) ==
    /\ phase[w] = "new"
    /\ \E to \in {"starting", "failed"} : phase' = [phase EXCEPT ![w] = to]
    /\ UNCHANGED <<conc, subscribed, stop, hb, heartbeats>>

\* Start subscribes the exclusive queue, then the shared queue conc[w]
\* times, and after the last starts the heartbeats.  The first subscription
\* that fails makes Start return its error, and the earlier ones stay and
\* are handed messages, as they are while Start is still subscribing.
Subscribe(w) ==
    /\ phase[w] = "starting"
    /\ \/ /\ subscribed' = subscribed \cup {subscribes(w, Made(w))}
          /\ startsHeartbeats(w, Made(w) + 1)
          /\ phase' = [phase EXCEPT ![w] = IF Made(w) = conc[w] THEN "started" ELSE @]
       \/ /\ phase' = [phase EXCEPT ![w] = "failed"]
          /\ UNCHANGED <<subscribed, hb>>
    /\ UNCHANGED <<conc, stop, heartbeats>>

\* Stop raises the flag and shuts the API down.  It neither unsubscribes
\* nor touches the running tasks.
Stop(w) ==
    /\ phase[w] \notin {"none", "refused"}
    /\ ~stop[w]
    /\ stop' = [stop EXCEPT ![w] = TRUE]
    /\ UNCHANGED <<phase, conc, subscribed, hb, heartbeats>>

\* The loop condition of sendHeartbeats: !w.stop.  Stop writes w.stop and
\* the loop reads it with no lock, channel or atomic between them: a read
\* after the write may still return the flag as it was.
Loops(w) == {~stop[w], TRUE}

\* The head of the loop: leave it when the flag is seen up.
heartbeatCheck(w) ==
    /\ hb[w] = "check"
    /\ \E loops \in Loops(w) : hb' = [hb EXCEPT ![w] = IF loops THEN "beat" ELSE "exited"]
    /\ UNCHANGED <<phase, conc, subscribed, stop, heartbeats>>

\* The body of the loop: the status is the health check's verdict, a failed
\* publish is logged and forgotten, and the loop sleeps and starts over.
heartbeatBeat(w) ==
    /\ hb[w] = "beat"
    /\ \E status \in NodeStatus :
        \/ heartbeats' = heartbeats \cup
              {[id |-> w, queue |-> Exclusive(w), status |-> status]}
        \/ UNCHANGED heartbeats
    /\ hb' = [hb EXCEPT ![w] = "check"]
    /\ UNCHANGED <<phase, conc, subscribed, stop>>

Next ==
    \E w \in Workers :
        \/ NewWorker(w)
        \/ Start(w)
        \/ Subscribe(w)
        \/ Stop(w)
        \/ heartbeatCheck(w)
        \/ heartbeatBeat(w)

Spec == Init /\ [][Next]_vars

-----------------------------------------------------------------------------
(* Properties *)

TypeOK ==
    /\ phase \in [Workers -> {"none", "refused", "new", "starting", "started", "failed"}]
    /\ \A w \in Workers :
        conc[w] \in IF phase[w] \in {"none", "refused"} THEN {0} ELSE 1 .. Concurrency
    /\ subscribed \subseteq Slots
    /\ stop \in [Workers -> BOOLEAN]
    /\ hb \in [Workers -> {"idle", "check", "beat", "exited"}]
    /\ heartbeats \subseteq [id : Workers, queue : {Exclusive(w) : w \in Workers},
                             status : NodeStatus]

\* A worker the coordinator learns of through a heartbeat consumes the
\* queue the heartbeat names: Start launches sendHeartbeats only after
\* every SubscribeForTasks succeeded, so a cancellation published on
\* x-<id> of a known node has a subscriber, and so has the work the node
\* was configured for.
HeartbeatingWorkerListens ==
    \A n \in heartbeats : \A i \in 0 .. conc[n.id] : <<n.id, i>> \in subscribed

=============================================================================
