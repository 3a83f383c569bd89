---------------------------- MODULE TaskEvents -----------------------------
(***************************************************************************)
(* The task manager and the channel its events go through, for the modules *)
(* of those who subscribe to it.  Under the lock of the task manager a     *)
(* change is made and its event sent (core/task_manager.rs, core/bus.rs).  *)
(* Whom a task is assigned to is the business of Nexus.                    *)
(***************************************************************************)
EXTENDS TaskManager, Broadcast

CONSTANT MaxEvents        \* bound: events on the bus

ASSUME EventsAssumption == MaxEvents \in Nat

eventVars == <<tasks, contextIndex, published, log>>

TaskEventsInit ==
  /\ TaskInit
  /\ published = {}
  /\ BroadcastInit

Announced ==
  /\ Len(log) < MaxEvents
  /\ \E e \in published' : Send(e)

Create(t) ==
  /\ \E c \in Contexts : CreateTask(t, c, NoAgent, NoDeadline)
  /\ Announced

ChangeTask(t) ==
  /\ \/ \E new \in TaskState : UpdateStatus(t, new)
     \/ AddArtifact(t)
  /\ Announced

\* An event that is about no task.
OtherEvent ==
  /\ Len(log) < MaxEvents
  /\ Send([type |-> "NewMessage"])
  /\ Silent
  /\ UNCHANGED <<tasks, contextIndex>>

SomethingHappens == OtherEvent \/ \E t \in TaskIds : Create(t) \/ ChangeTask(t)

NothingHappens == Silent /\ UNCHANGED <<tasks, contextIndex, log>>

IsTaskEvent(e) == e.type # "NewMessage"

IsAbout(e, t) == IsTaskEvent(e) /\ e.task = t

=============================================================================
