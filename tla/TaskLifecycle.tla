--------------------------- MODULE TaskLifecycle ----------------------------
(***************************************************************************)
(* What the nexus promises to whoever holds a task id, without agents,     *)
(* locks or watchdog: a task is opened once, with an assignee, a context   *)
(* and a deadline that never change; it moves only along the transitions   *)
(* documented at enum TaskState; it gains artifacts one at a time and only *)
(* while it is live; and once terminal it is frozen.  One step may move    *)
(* several tasks, each by one of these moves.                              *)
(***************************************************************************)
EXTENDS Naturals, TaskStates

CONSTANT TaskIds

VARIABLE ledger

Opens(old, new) ==
  /\ old.state = "Unborn"
  /\ new.state = "Submitted"
  /\ new.artifacts = 0

Advances(old, new) ==
  /\ CanTransition(old.state, new.state)
  /\ new = [old EXCEPT !.state = new.state]

Gains(old, new) ==
  /\ old.state \in Live
  /\ new = [old EXCEPT !.artifacts = @ + 1]

Init == \A t \in TaskIds : ledger[t].state = "Unborn"

Next ==
  \A t \in TaskIds :
    \/ ledger'[t] = ledger[t]
    \/ Opens(ledger[t], ledger'[t])
    \/ Advances(ledger[t], ledger'[t])
    \/ Gains(ledger[t], ledger'[t])

Spec == Init /\ [][Next]_ledger

=============================================================================
