---------------------------- MODULE TaskManager -----------------------------
(***************************************************************************)
(* TaskManager (core/task_manager.rs): the tasks and the index of the      *)
(* tasks of each context.  Tasks are never removed.                        *)
(*                                                                         *)
(* Message and artifact payloads, the history and the metadata of a task   *)
(* are data that no step reads; of the artifacts the number is kept,       *)
(* because whether one may be added depends on the state of the task.      *)
(*                                                                         *)
(* Every operator with a primed variable is one method of the code, run    *)
(* under the write lock of the manager.  A call that returns an error      *)
(* changes nothing, so it is a step that is not enabled.                   *)
(***************************************************************************)
EXTENDS Naturals, Sequences, FiniteSets, Identifiers, TaskStates, Bus

CONSTANTS Contexts,      \* context ids
          NoDeadline,    \* Option::None of a deadline
          MaxArtifacts   \* bound: artifacts added to one task

ASSUME TaskAssumption ==
  /\ NoDeadline \notin Nat
  /\ MaxArtifacts \in Nat

VARIABLES tasks,         \* HashMap<TaskId, Task>
          contextIndex   \* HashMap<ContextId, Vec<TaskId>>

Deadline == Nat \cup {NoDeadline}

\* An id that has not been handed out has no entry in the map.
NoTask == [state |-> "Unborn"]

Task == [state     : TaskState,
         context   : Contexts,
         assignee  : AgentRef,
         deadline  : Deadline,
         artifacts : Nat]

StateOf(t) == tasks[t].state

Born == {t \in TaskIds : StateOf(t) # "Unborn"}

LiveTasks == {t \in TaskIds : StateOf(t) \in Live}

TaskTypeOK ==
  /\ tasks \in [TaskIds -> Task \cup {NoTask}]
  /\ contextIndex \in [Contexts -> Seq(TaskIds)]

TaskInit ==
  /\ tasks = [t \in TaskIds |-> NoTask]
  /\ contextIndex = [c \in Contexts |-> <<>>]

-----------------------------------------------------------------------------
(* Methods of TaskManager *)

CreateTask(t, c, a, d) ==
  /\ StateOf(t) = "Unborn"
  /\ tasks' = [tasks EXCEPT ![t] = [state |-> "Submitted", context |-> c,
                                    assignee |-> a, deadline |-> d, artifacts |-> 0]]
  /\ contextIndex' = [contextIndex EXCEPT ![c] = Append(@, t)]
  /\ Publish({TaskCreated(t)})

\* Mutant: only the terminal check, without can_transition_to.
UpdateStatusesUnchecked(target) ==
  LET allowed == DOMAIN target \cap LiveTasks
  IN  /\ tasks' = [t \in TaskIds |->
                     IF t \in allowed
                     THEN [tasks[t] EXCEPT !.state = target[t]]
                     ELSE tasks[t]]
      /\ Publish({StatusChanged(t, StateOf(t), target[t]) : t \in allowed})
      /\ UNCHANGED contextIndex

(***************************************************************************)
(* update_status for every task of DOMAIN target under one write lock.     *)
(* The calls that are not allowed return an error that the caller logs,    *)
(* and the others take effect.                                             *)
(***************************************************************************)
UpdateStatuses(target) ==
  LET allowed == {t \in DOMAIN target : CanTransition(StateOf(t), target[t])}
  IN  /\ tasks' = [t \in TaskIds |->
                     IF t \in allowed
                     THEN [tasks[t] EXCEPT !.state = target[t]]
                     ELSE tasks[t]]
      /\ Publish({StatusChanged(t, StateOf(t), target[t]) : t \in allowed})
      /\ UNCHANGED contextIndex

UpdateStatus(t, new) ==
  /\ CanTransition(StateOf(t), new)
  /\ UpdateStatuses([u \in {t} |-> new])

Cancel(t) == UpdateStatus(t, "Canceled")

AddArtifact(t) ==
  /\ StateOf(t) \in Live
  /\ tasks[t].artifacts < MaxArtifacts
  /\ tasks' = [tasks EXCEPT ![t].artifacts = @ + 1]
  /\ Publish({ArtifactAdded(t, tasks[t].artifacts + 1)})
  /\ UNCHANGED contextIndex

\* Mutant: restore fills the task map only.
RestoreTasksUnindexed(saved) ==
  /\ tasks' = saved
  /\ contextIndex' = [c \in Contexts |-> <<>>]

\* The lists that have each task of S once.
Listings(S) ==
  {list \in [1 .. Cardinality(S) -> S] :
     /\ {list[i] : i \in DOMAIN list} = S
     /\ \A i, j \in DOMAIN list : list[i] = list[j] => i = j}

(***************************************************************************)
(* restore: the saved tasks, whose list comes in the order of a HashMap,   *)
(* and the index rebuilt from that list.  No event is published.           *)
(***************************************************************************)
RestoreTasks(saved) ==
  LET held(c)  == {t \in TaskIds : saved[t].state # "Unborn" /\ saved[t].context = c}
      listings == UNION {Listings(held(c)) : c \in Contexts}
  IN  /\ tasks' = saved
      /\ contextIndex' \in {index \in [Contexts -> listings] :
                              \A c \in Contexts : index[c] \in Listings(held(c))}

-----------------------------------------------------------------------------
(* Properties *)

(***************************************************************************)
(* The index lists each task once, under the context the task carries, so  *)
(* list_filtered by context finds through the index exactly the tasks a    *)
(* scan of the map would find (task_manager.rs: create_task_with_deadline, *)
(* restore and list_filtered).                                             *)
(***************************************************************************)
ContextIndexExact ==
  /\ \A c \in Contexts :
       {contextIndex[c][i] : i \in DOMAIN contextIndex[c]} =
       {t \in Born : tasks[t].context = c}
  /\ \A c \in Contexts : \A i, j \in DOMAIN contextIndex[c] :
       contextIndex[c][i] = contextIndex[c][j] => i = j

=============================================================================
