----------------------------- MODULE TaskStates -----------------------------
(***************************************************************************)
(* The state machine of a single task: enum TaskState and its methods in   *)
(* core/task_types.rs.  A task identifier that has not been handed out     *)
(* yet is in the pseudo-state "Unborn".                                    *)
(***************************************************************************)

TaskState == {"Submitted", "Working", "InputRequired", "AuthRequired",
              "Completed", "Failed", "Canceled", "Rejected"}

\* TaskState::is_terminal
Terminal == {"Completed", "Failed", "Canceled", "Rejected"}

Live == TaskState \ Terminal

\* TaskState::is_interrupted
Interrupted == {"InputRequired", "AuthRequired"}

\* TaskState::can_transition_to
CanTransition(from, to) ==
  \/ from = "Submitted"    /\ to \in {"Working", "Rejected", "Canceled"}
  \/ from = "Working"      /\ to \in {"Completed", "Failed", "Canceled"} \cup Interrupted
  \/ from \in Interrupted  /\ to \in {"Working", "Canceled", "Failed"}

\* Mutants of HaltState: the wrong terminal state, and no split on Submitted.
HaltByCancel(s) == "Canceled"
HaltByFailing(s) == "Failed"

(***************************************************************************)
(* The terminal state the watchdog gives to a task it finds in state s:    *)
(* one that was not started is rejected, one that was is failed.           *)
(***************************************************************************)
HaltState(s) == IF s = "Submitted" THEN "Rejected" ELSE "Failed"

=============================================================================
