-------------------------- MODULE WorkerRefinement --------------------------
(***************************************************************************)
(* The worker of module Worker implements WorkerContract.                  *)
(*                                                                         *)
(* The reports of the contract are what the worker published.  An attempt  *)
(* is open from the successful publish on started until runTask publishes  *)
(* its terminal report or returns an error, which in terms of the handler  *)
(* is: the slot is past "started" and not yet at "exit".                   *)
(***************************************************************************)
EXTENDS Worker

OpenPcs == {"prepare", "step", "run", "failed", "done"}

\* The attempts at task t that worker w has open.
OpenAttempts ==
    [t \in Tasks |-> [w \in Workers |->
        Cardinality({s \in Slots : s[1] = w /\ pc[s] \in OpenPcs /\ cur[s].id = t})]]

Contract == INSTANCE WorkerContract WITH reports <- published, open <- OpenAttempts

\* Every step of the worker, whatever the interleaving of its handlers with
\* each other and with cancellations, retries and redeliveries, is a step
\* of the contract or leaves reports and open attempts as they are: runTask
\* publishes on started before anything else is visible of the run, and
\* publishes at most one terminal report, in the state and on the queue
\* that belong together, under the node id of the started report.
ImplementsContract == Contract!Spec

=============================================================================
