----------------------------- MODULE MCWorkerNode -----------------------------
(* WorkerNode instantiated for TLC. *)
EXTENDS WorkerNode

CONSTANTS t1, t2, w1, w2

\* No pre- or post-tasks, volumes or timeouts.
MCBare == [t \in Tasks |-> [pre |-> 0, post |-> 0, volumes |-> FALSE, timeout |-> <<"">>]]

=============================================================================
