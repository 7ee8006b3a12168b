----------------------------- MODULE TaskMachine -----------------------------
(***************************************************************************)
(* The life of a task: created once, started, finished, or given up before *)
(* it has run.  Each change is one step, and a finished task stays what it *)
(* is.  This is what TaskStateValidator promises                           *)
(* (a2a_adapter/src/task_manager_wrapper.cpp).                             *)
(***************************************************************************)
CONSTANTS TaskIds, None

VARIABLE phase   \* None, or the state of the task

Init == phase = [i \in TaskIds |-> None]

Move(i, from, to) == phase[i] = from /\ phase' = [phase EXCEPT ![i] = to]

Create(i) == Move(i, None, "Submitted")

Start(i) == Move(i, "Submitted", "Running")

GiveUp(i) == \E to \in {"Canceled", "Rejected"} : Move(i, "Submitted", to)

Finish(i) == \E to \in {"Completed", "Failed", "Canceled"} : Move(i, "Running", to)

Next == \E i \in TaskIds : Create(i) \/ Start(i) \/ GiveUp(i) \/ Finish(i)

Spec == Init /\ [][Next]_phase

=============================================================================
