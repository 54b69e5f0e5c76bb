--------------------------- MODULE WorkerContract ---------------------------
(***************************************************************************)
(* What the workers promise the coordinator, as the coordinator sees it on *)
(* the queues started, completed and error.                                *)
(*                                                                         *)
(* An attempt is one run of a task by a worker.  It opens with exactly one *)
(* report on started that names the worker, and it closes at most once:    *)
(* with a Completed report on completed, with a Failed report on error, or *)
(* silently, when the worker gave up with an error of its own.  A report   *)
(* is never taken back, and a terminal report always belongs to an attempt *)
(* that is open.  The coordinator's handlers are written against this, not *)
(* against the worker's code.                                              *)
(***************************************************************************)
EXTENDS Naturals, Bags

CONSTANTS Workers, Tasks

VARIABLES
    reports,   \* the bag of reports: [queue, task : [id, state, node]]
    open       \* open[t][w]: attempts at task t that worker w has open

contractVars == <<reports, open>>

Attempt(t, w, state) == [id |-> t, state |-> state, node |-> w]
ReportOf(q, t, w, state) == SetToBag({[queue |-> q, task |-> Attempt(t, w, state)]})

Init ==
    /\ reports = EmptyBag
    /\ open = [t \in Tasks |-> [w \in Workers |-> 0]]

\* Worker w reports that it started task t.
Opens(t, w) ==
    /\ reports' = reports (+) ReportOf(<<"started">>, t, w, "RUNNING")
    /\ open' = [open EXCEPT ![t][w] = @ + 1]

\* Worker w reports the end of an attempt it has open.
Closes(t, w) ==
    /\ open[t][w] > 0
    /\ \/ reports' = reports (+) ReportOf(<<"completed">>, t, w, "COMPLETED")
       \/ reports' = reports (+) ReportOf(<<"error">>, t, w, "FAILED")
    /\ open' = [open EXCEPT ![t][w] = @ - 1]

\* Worker w gives an attempt up without a report.
GivesUp(t, w) ==
    /\ open[t][w] > 0
    /\ open' = [open EXCEPT ![t][w] = @ - 1]
    /\ UNCHANGED reports

Next == \E t \in Tasks, w \in Workers : Opens(t, w) \/ Closes(t, w) \/ GivesUp(t, w)

Spec == Init /\ [][Next]_contractVars

=============================================================================
