------------------------------ MODULE MCWorker ------------------------------
(***************************************************************************)
(* Worker and its refinement instantiated for TLC: the task shapes the     *)
(* configurations choose from.                                             *)
(***************************************************************************)
EXTENDS WorkerRefinement

CONSTANTS t1, t2, w1, w2

\* t1 has a pre-task without a timeout, a task and a post-task with one,
\* and a volume.
MCFull == [pre |-> 1, post |-> 1, volumes |-> TRUE, timeout |-> <<"", "5s", "5s">>]

\* A task without pre- and post-tasks and volumes, with timeout v.
MCBareWith(v) == [pre |-> 0, post |-> 0, volumes |-> FALSE, timeout |-> <<v>>]

\* Beside t1: a task whose deadline has passed when it is set, one whose
\* timeout does not parse, and one that has none.
MCShape     == (t1 :> MCFull) @@ (t2 :> MCBareWith("0s"))
MCShapeLive == (t1 :> MCFull) @@ (t2 :> MCBareWith("soon"))

\* Every task is bare: what the runs about the registry need.
MCBare == [t \in Tasks |-> MCBareWith("")]

=============================================================================
