-------------------------------- MODULE Bus ---------------------------------
(***************************************************************************)
(* The event bus as its publishers see it (core/bus.rs): publish never     *)
(* blocks and never fails, so all that a step leaves behind is the set of  *)
(* events it published.  "published" holds the events of the last step.    *)
(* A publisher holds the write lock of its manager, and a step publishes   *)
(* at most one event per agent or task, so a set loses nothing.            *)
(* TaskManager::publish sends each task event to the global bus and to the *)
(* task channel: both carry the same task events.                          *)
(***************************************************************************)

VARIABLE published

Publish(events) == published' = events

Silent == Publish({})

AgentEvent(kind, a) == [type |-> kind, agent |-> a]

TaskCreated(t) == [type |-> "TaskCreated", task |-> t]

StatusChanged(t, from, to) ==
  [type |-> "TaskStatusChanged", task |-> t, old |-> from, new |-> to]

\* Artifacts are numbered in the order in which a task gains them.
ArtifactAdded(t, n) == [type |-> "TaskArtifactAdded", task |-> t, artifact |-> n]

=============================================================================
