---------------------------- MODULE NexusProofs -----------------------------
(***************************************************************************)
(* Proofs about Nexus, and about ToolInvoker on top of it, for every set   *)
(* of agents, tasks, names, tags, contexts, handlers and tools, every      *)
(* timeout and every bound on the clock.                                   *)
(***************************************************************************)
EXTENDS ToolInvoker, TLAPS

-----------------------------------------------------------------------------
(* Facts about the state machine of a task *)

(***************************************************************************)
(* A transition starts in a live state and stays inside TaskState          *)
(* (can_transition_to).                                                    *)
(***************************************************************************)
LEMMA TransitionStates ==
  ASSUME NEW from, NEW to, CanTransition(from, to)
  PROVE  from \in Live /\ to \in TaskState
  BY DEF CanTransition, Live, TaskState, Terminal, Interrupted

(***************************************************************************)
(* The state the watchdog picks is terminal, and a task that still is in   *)
(* the state it was picked for accepts it (watchdog.rs against             *)
(* can_transition_to).                                                     *)
(***************************************************************************)
LEMMA HaltIsAllowed ==
  ASSUME NEW s \in Live
  PROVE  /\ HaltState(s) \in {"Rejected", "Failed"}
         /\ HaltState(s) \in Terminal
         /\ CanTransition(s, HaltState(s))
  BY DEF Live, TaskState, Terminal, CanTransition, Interrupted, HaltState

-----------------------------------------------------------------------------
(* Type correctness, operation by operation *)

(***************************************************************************)
(* The methods of AgentRegistry keep the types of its maps.                *)
(***************************************************************************)
LEMMA RegistryMethodsType ==
  ASSUME RegistryTypeOK, NEW a \in AgentIds, NEW now \in Nat,
         Register(a, now) \/ Heartbeat(a, now) \/ Deregister(a)
  PROVE  RegistryTypeOK'
<1> USE RegistryAssumption DEF RegistryTypeOK, AgentInfo, AgentStatus, AgentRef
<1>1. CASE Register(a, now)
  BY <1>1 DEF Register
<1>2. CASE Heartbeat(a, now)
  BY <1>2 DEF Heartbeat
<1>3. CASE Deregister(a)
  BY <1>3 DEF Deregister
<1> QED
  BY <1>1, <1>2, <1>3

(***************************************************************************)
(* So does mark_disconnected, for any set of agents.                       *)
(***************************************************************************)
LEMMA MarkDisconnectedType ==
  ASSUME RegistryTypeOK, NEW S, MarkDisconnected(S)
  PROVE  RegistryTypeOK'
  BY DEF MarkDisconnected, RegistryTypeOK, AgentInfo, AgentStatus

(***************************************************************************)
(* create_task keeps the types of the task map and of the context index.   *)
(***************************************************************************)
LEMMA CreateTaskType ==
  ASSUME TaskTypeOK, NEW t \in TaskIds, NEW c \in Contexts,
         NEW a \in AgentRef, NEW d \in Deadline, CreateTask(t, c, a, d)
  PROVE  TaskTypeOK'
<1>1. tasks' \in [TaskIds -> Task \cup {NoTask}]
  BY DEF CreateTask, TaskTypeOK, Task, TaskState
<1>2. Append(contextIndex[c], t) \in Seq(TaskIds)
  BY DEF TaskTypeOK
<1>3. contextIndex' \in [Contexts -> Seq(TaskIds)]
  BY <1>2 DEF CreateTask, TaskTypeOK
<1> QED
  BY <1>1, <1>3 DEF TaskTypeOK

(***************************************************************************)
(* update_status keeps them, whatever states it is asked for.              *)
(***************************************************************************)
LEMMA UpdateStatusesType ==
  ASSUME TaskTypeOK, NEW target, UpdateStatuses(target)
  PROVE  TaskTypeOK'
<1>1. ASSUME NEW t \in TaskIds
      PROVE  tasks'[t] \in Task \cup {NoTask}
  <2>1. CASE t \in DOMAIN target /\ CanTransition(StateOf(t), target[t])
    <3>1. StateOf(t) \in Live /\ target[t] \in TaskState
      BY <2>1, TransitionStates
    <3>2. tasks[t] \in Task
      BY <3>1 DEF TaskTypeOK, NoTask, StateOf, Live, TaskState
    <3>3. tasks'[t] = [tasks[t] EXCEPT !.state = target[t]]
      BY <2>1 DEF UpdateStatuses
    <3> QED
      BY <3>1, <3>2, <3>3 DEF Task
  <2>2. CASE ~(t \in DOMAIN target /\ CanTransition(StateOf(t), target[t]))
    BY <2>2 DEF UpdateStatuses, TaskTypeOK
  <2> QED
    BY <2>1, <2>2
<1>2. tasks' = [t \in TaskIds |-> tasks'[t]]
  BY DEF UpdateStatuses
<1> QED
  BY <1>1, <1>2 DEF UpdateStatuses, TaskTypeOK

(***************************************************************************)
(* add_artifact keeps them.                                                *)
(***************************************************************************)
LEMMA AddArtifactType ==
  ASSUME TaskTypeOK, NEW t \in TaskIds, AddArtifact(t)
  PROVE  TaskTypeOK'
<1>1. tasks[t] \in Task
  BY DEF AddArtifact, TaskTypeOK, NoTask, StateOf, Live, TaskState
<1>2. [tasks[t] EXCEPT !.artifacts = @ + 1] \in Task
  BY <1>1 DEF Task
<1> QED
  BY <1>2 DEF AddArtifact, TaskTypeOK

-----------------------------------------------------------------------------
(* The type invariant of the nexus *)

(***************************************************************************)
(* The daemon starts well typed.                                           *)
(***************************************************************************)
LEMMA InitType == Init => TypeOK
<1> SUFFICES ASSUME Init PROVE TypeOK
  OBVIOUS
<1> USE DEF Init
<1>1. RegistryTypeOK
  BY IdAssumption DEF RegistryInit, RegistryTypeOK, AgentInfo, AgentStatus, AgentRef
<1>2. TaskTypeOK
  BY DEF TaskInit, TaskTypeOK
<1>3. /\ DOMAIN expired \subseteq TaskIds
      /\ expired \in [DOMAIN expired -> {"Rejected", "Failed"}]
  BY DEF NoneExpired
<1> QED
  BY <1>1, <1>2, <1>3 DEF TypeOK, SweepPhase

(***************************************************************************)
(* Every step keeps it.                                                    *)
(***************************************************************************)
LEMMA StepType == TypeOK /\ [Next]_vars => TypeOK'
<1> SUFFICES ASSUME TypeOK, [Next]_vars PROVE TypeOK'
  OBVIOUS
<1> DEFINE RegistrySame == UNCHANGED <<agents, nameIndex>>
           TasksSame    == UNCHANGED <<tasks, contextIndex>>
           HandlersSame == UNCHANGED <<clock, request, late>>
           SweepSame    == UNCHANGED sweepVars
           SweepType    == /\ phase \in SweepPhase
                           /\ sweepNow \in Nat
                           /\ stale \subseteq AgentIds
                           /\ DOMAIN expired \subseteq TaskIds
                           /\ expired \in [DOMAIN expired -> {"Rejected", "Failed"}]
           HandlersType == /\ clock \in Nat
                           /\ request \in [Requests -> Resolved \cup {Idle}]
                           /\ late \subseteq TaskIds
<1>0. RegistryTypeOK /\ TaskTypeOK /\ SweepType /\ HandlersType
  BY DEF TypeOK
<1>a. RegistrySame => RegistryTypeOK'
  BY <1>0 DEF RegistryTypeOK
<1>b. TasksSame => TaskTypeOK'
  BY <1>0 DEF TaskTypeOK
<1>c. SweepSame => SweepType'
  BY <1>0 DEF sweepVars
<1>d. HandlersSame => HandlersType'
  BY <1>0
<1>e. RegistryTypeOK' /\ TaskTypeOK' /\ SweepType' /\ HandlersType' => TypeOK'
  BY DEF TypeOK
<1> HIDE DEF SweepType, HandlersType
<1>1. CASE Tick
  <2>1. HandlersType'
    BY <1>0, <1>1 DEF Tick, HandlersType
  <2> QED
    BY <1>a, <1>b, <1>c, <1>e, <1>1, <2>1 DEF Tick
<1>2. CASE AgentNext
  <2>1. PICK a \in AgentIds : RegisterAgent(a) \/ AgentHeartbeat(a) \/ DeregisterAgent(a)
    BY <1>2 DEF AgentNext
  <2>2. clock \in Nat
    BY <1>0 DEF HandlersType
  <2>3. RegistryTypeOK'
    BY <1>0, <2>1, <2>2, RegistryMethodsType
       DEF RegisterAgent, AgentHeartbeat, DeregisterAgent
  <2> QED
    BY <1>b, <1>c, <1>d, <1>e, <2>1, <2>3
       DEF RegisterAgent, AgentHeartbeat, DeregisterAgent, RegistryStep
<1>3. ASSUME NEW r \in Requests, NEW a \in AgentRef, NEW c \in Contexts,
             NEW d \in Deadlines \cup {NoDeadline}, Resolve(r, a, c, d)
      PROVE  TypeOK'
  <2>1. d \in Deadline
    BY NexusAssumption DEF Deadline
  <2>2. [at |-> "resolved", context |-> c, assignee |-> a, deadline |-> d] \in Resolved
    BY <2>1 DEF Resolved
  <2>3. HandlersType'
    BY <1>0, <1>3, <2>2 DEF Resolve, HandlersType
  <2> QED
    BY <1>a, <1>b, <1>c, <1>e, <1>3, <2>3 DEF Resolve
<1>4. CASE RequestNext
  <2>1. ASSUME NEW r \in Requests, NEW c \in Contexts, NEW d \in Deadlines \cup {NoDeadline},
               NEW a \in AgentIds, SubmitPinned(r, a, c, d)
        PROVE  TypeOK'
    BY <1>3, <2>1 DEF SubmitPinned, AgentRef
  <2>2. ASSUME NEW r \in Requests, NEW c \in Contexts, NEW d \in Deadlines \cup {NoDeadline},
               NEW required \in SUBSET Tags, SubmitRouted(r, required, c, d)
        PROVE  TypeOK'
    <3>1. SelectAgent(required) \subseteq AgentRef
      BY DEF SelectAgent, Eligible, Connected, AgentRef
    <3> QED
      BY <1>3, <2>2, <3>1 DEF SubmitRouted
  <2>3. ASSUME NEW r \in Requests, NEW t \in TaskIds, FinishSubmit(r, t)
        PROVE  TypeOK'
    <3>1. request[r] \in Resolved
      BY <1>0, <2>3 DEF FinishSubmit, HandlersType
    <3>2. TaskTypeOK'
      BY <1>0, <2>3, <3>1, CreateTaskType DEF FinishSubmit, Resolved
    <3>3. HandlersType'
      BY <1>0, <2>3 DEF FinishSubmit, HandlersType
    <3> QED
      BY <1>a, <1>c, <1>e, <2>3, <3>2, <3>3 DEF FinishSubmit
  <2>4. ASSUME NEW t \in TaskIds, NEW new \in TaskState,
               UpdateTask(t, new) \/ CancelTask(t)
        PROVE  TypeOK'
    <3>1. TaskTypeOK'
      BY <1>0, <2>4, UpdateStatusesType DEF UpdateTask, CancelTask, Cancel, UpdateStatus
    <3> QED
      BY <1>a, <1>c, <1>d, <1>e, <2>4, <3>1 DEF UpdateTask, CancelTask, TaskStep
  <2>5. ASSUME NEW t \in TaskIds, AddTaskArtifact(t)
        PROVE  TypeOK'
    <3>1. TaskTypeOK'
      BY <1>0, <2>5, AddArtifactType DEF AddTaskArtifact
    <3> QED
      BY <1>a, <1>c, <1>d, <1>e, <2>5, <3>1 DEF AddTaskArtifact, TaskStep
  <2>6. "Canceled" \in TaskState
    BY DEF TaskState
  <2> QED
    BY <1>4, <2>1, <2>2, <2>3, <2>4, <2>5, <2>6 DEF RequestNext
<1>5. CASE WakeWatchdog \/ ScanAgents
  <2>1. SweepType'
    BY <1>0, <1>5 DEF WakeWatchdog, ScanAgents, SweepType, SweepPhase, HandlersType, Connected
  <2> QED
    BY <1>a, <1>b, <1>d, <1>e, <1>5, <2>1 DEF WakeWatchdog, ScanAgents, Scans
<1>6. CASE FlipStale
  <2>1. RegistryTypeOK'
    BY <1>0, <1>6, MarkDisconnectedType DEF FlipStale
  <2>2. SweepType'
    BY <1>0, <1>6 DEF FlipStale, SweepType, SweepPhase
  <2> QED
    BY <1>b, <1>d, <1>e, <1>6, <2>1, <2>2 DEF FlipStale
<1>7. ASSUME NEW a \in AgentIds, FailTasksOf(a) PROVE TypeOK'
  <2>1. TaskTypeOK'
    BY <1>0, <1>7, UpdateStatusesType DEF FailTasksOf
  <2>2. SweepType'
    BY <1>0, <1>7 DEF FailTasksOf, SweepType, SweepPhase
  <2> QED
    BY <1>a, <1>d, <1>e, <1>7, <2>1, <2>2 DEF FailTasksOf
<1>8. CASE ScanDeadlines
  <2>1. \A t \in LiveTasks : HaltState(StateOf(t)) \in {"Rejected", "Failed"}
    BY HaltIsAllowed DEF LiveTasks
  <2>2. SweepType'
    BY <1>0, <1>8, <2>1 DEF ScanDeadlines, SweepType, SweepPhase, LiveTasks
  <2> QED
    BY <1>a, <1>b, <1>d, <1>e, <1>8, <2>2 DEF ScanDeadlines, Scans
<1>9. CASE ExpireTasks
  <2>1. TaskTypeOK'
    BY <1>0, <1>9, UpdateStatusesType DEF ExpireTasks
  <2>2. SweepType'
    BY <1>0, <1>9 DEF ExpireTasks, SweepType, SweepPhase, NoneExpired
  <2> QED
    BY <1>a, <1>d, <1>e, <1>9, <2>1, <2>2 DEF ExpireTasks
<1>10. CASE UNCHANGED vars
  BY <1>a, <1>b, <1>c, <1>d, <1>e, <1>10 DEF vars
<1> QED
  BY <1>1, <1>2, <1>4, <1>5, <1>6, <1>7, <1>8, <1>9, <1>10 DEF Next, WatchdogNext

(***************************************************************************)
(* In every reachable state the maps, the locals of the handlers and those *)
(* of the sweep hold values of their types.                                *)
(***************************************************************************)
THEOREM TypeCorrect == Spec => []TypeOK
<1> QED
  BY InitType, StepType, PTL DEF Spec

-----------------------------------------------------------------------------
(* The name index *)

(***************************************************************************)
(* No agent is registered at the start, and no name is taken.              *)
(***************************************************************************)
LEMMA InitNameIndex == Init => NameIndexExact
  BY DEF Init, RegistryInit, NameIndexExact, Registered

(***************************************************************************)
(* A step that leaves the registration of every agent alone leaves the     *)
(* index exact.                                                            *)
(***************************************************************************)
LEMMA SameRegistrations ==
  ASSUME NameIndexExact, Registered' = Registered, nameIndex' = nameIndex
  PROVE  NameIndexExact'
  BY DEF NameIndexExact

(***************************************************************************)
(* Every step keeps the index exact.                                       *)
(***************************************************************************)
LEMMA StepNameIndex == TypeOK /\ NameIndexExact /\ [Next]_vars => NameIndexExact'
<1> SUFFICES ASSUME TypeOK, NameIndexExact, [Next]_vars PROVE NameIndexExact'
  OBVIOUS
<1> USE IdAssumption, RegistryAssumption
<1>0. RegistryTypeOK
  BY DEF TypeOK
<1>1. ASSUME NEW a \in AgentIds, RegisterAgent(a) PROVE NameIndexExact'
  <2>1. Registered' = Registered \cup {a}
    BY <1>0, <1>1 DEF RegisterAgent, Register, Registered, RegistryTypeOK
  <2>2. a \notin Registered
    BY <1>1 DEF RegisterAgent, Register, Registered
  <2>3. nameIndex' = [nameIndex EXCEPT ![NameOf[a]] = a] /\ nameIndex[NameOf[a]] = NoAgent
    BY <1>1 DEF RegisterAgent, Register
  <2> QED
    BY <1>0, <2>1, <2>2, <2>3 DEF NameIndexExact, RegistryTypeOK, Registered
<1>2. ASSUME NEW a \in AgentIds, AgentHeartbeat(a) PROVE NameIndexExact'
  <2>1. Registered' = Registered /\ nameIndex' = nameIndex
    BY <1>0, <1>2 DEF AgentHeartbeat, Heartbeat, Registered, RegistryTypeOK
  <2> QED
    BY <2>1, SameRegistrations
<1>3. ASSUME NEW a \in AgentIds, DeregisterAgent(a) PROVE NameIndexExact'
  <2>1. Registered' = Registered \ {a}
    BY <1>0, <1>3 DEF DeregisterAgent, Deregister, Registered, RegistryTypeOK
  <2>2. nameIndex' = [nameIndex EXCEPT ![NameOf[a]] = NoAgent] /\ a \in Registered
    BY <1>3 DEF DeregisterAgent, Deregister
  <2> QED
    BY <1>0, <2>1, <2>2 DEF NameIndexExact, RegistryTypeOK, Registered
<1>4. CASE FlipStale
  <2>1. Registered' = Registered /\ nameIndex' = nameIndex
    BY <1>0, <1>4 DEF FlipStale, MarkDisconnected, Registered, RegistryTypeOK, AgentInfo, Connected
  <2> QED
    BY <2>1, SameRegistrations
<1>5. CASE UNCHANGED <<agents, nameIndex>>
  <2>1. Registered' = Registered /\ nameIndex' = nameIndex
    BY <1>5 DEF Registered
  <2> QED
    BY <2>1, SameRegistrations
<1>6. CASE AgentNext
  BY <1>1, <1>2, <1>3, <1>6 DEF AgentNext
<1>7. CASE RequestNext
  BY <1>5, <1>7 DEF RequestNext, SubmitPinned, SubmitRouted, Resolve, FinishSubmit,
                    UpdateTask, CancelTask, AddTaskArtifact, TaskStep
<1>8. CASE WatchdogNext
  BY <1>4, <1>5, <1>8 DEF WatchdogNext, WakeWatchdog, ScanAgents, Scans, FailTasksOf,
                          ScanDeadlines, ExpireTasks
<1>9. CASE Tick \/ UNCHANGED vars
  BY <1>5, <1>9 DEF Tick, vars
<1> QED
  BY <1>6, <1>7, <1>8, <1>9 DEF Next

(***************************************************************************)
(* Names are unique among registered agents, and the index finds exactly   *)
(* them, in every reachable state.                                         *)
(***************************************************************************)
THEOREM NameIndexCorrect == Spec => []NameIndexExact
<1>1. Init => TypeOK /\ NameIndexExact
  BY InitType, InitNameIndex
<1>2. TypeOK /\ NameIndexExact /\ [Next]_vars => TypeOK' /\ NameIndexExact'
  BY StepType, StepNameIndex
<1> QED
  BY <1>1, <1>2, PTL DEF Spec

-----------------------------------------------------------------------------
(* The watchdog against submissions, heartbeats and deregistrations *)

(***************************************************************************)
(* Nothing is stale or left behind when the daemon starts.                 *)
(***************************************************************************)
LEMMA InitSweep == Init => SweepInvariant
  BY DEF Init, TaskInit, NoTask, SweepInvariant, NoWorkLeftBehind, StaleAgentsWereSilent,
         OrphanedWork, LiveTasks, StateOf, Live, TaskState

(***************************************************************************)
(* A step that adds no orphaned work, forgets no late task and leaves the  *)
(* sweep where it is leaves no work behind.                                *)
(***************************************************************************)
LEMMA FewerOrphans ==
  ASSUME NoWorkLeftBehind,
         \A t \in OrphanedWork' : t \in OrphanedWork /\ tasks'[t].assignee = tasks[t].assignee,
         late \subseteq late', phase' = phase, stale' = stale
  PROVE  NoWorkLeftBehind'
  BY DEF NoWorkLeftBehind

(***************************************************************************)
(* update_status neither creates a task nor gives one to another agent,    *)
(* and never revives one.                                                  *)
(***************************************************************************)
LEMMA UpdateStatusesTasks ==
  ASSUME TaskTypeOK, NEW target, UpdateStatuses(target)
  PROVE  \A t \in LiveTasks' : t \in LiveTasks /\ tasks'[t].assignee = tasks[t].assignee
<1> SUFFICES ASSUME NEW t \in TaskIds, t \in LiveTasks'
             PROVE  t \in LiveTasks /\ tasks'[t].assignee = tasks[t].assignee
  BY DEF LiveTasks
<1>1. CASE t \in DOMAIN target /\ CanTransition(StateOf(t), target[t])
  <2>1. StateOf(t) \in Live
    BY <1>1, TransitionStates
  <2>2. tasks'[t] = [tasks[t] EXCEPT !.state = target[t]]
    BY <1>1 DEF UpdateStatuses
  <2>3. tasks[t] \in Task
    BY <2>1 DEF TaskTypeOK, NoTask, StateOf, Live, TaskState
  <2> QED
    BY <2>1, <2>2, <2>3 DEF LiveTasks, Task
<1>2. CASE ~(t \in DOMAIN target /\ CanTransition(StateOf(t), target[t]))
  BY <1>2 DEF UpdateStatuses, LiveTasks, StateOf
<1> QED
  BY <1>1, <1>2

(***************************************************************************)
(* Phase 3 leaves no live task to the agent it treats: the target state of *)
(* each is one the task accepts.                                           *)
(***************************************************************************)
LEMMA FailTasksOfAgent ==
  ASSUME TypeOK, NEW a \in AgentIds, FailTasksOf(a)
  PROVE  \A t \in LiveTasks' : tasks'[t].assignee # a
<1> SUFFICES ASSUME NEW t \in LiveTasks', tasks'[t].assignee = a PROVE FALSE
  OBVIOUS
<1> DEFINE inFlight == {u \in LiveTasks : tasks[u].assignee = a}
           target   == [u \in inFlight |-> HaltState(StateOf(u))]
<1>1. UpdateStatuses(target)
  BY DEF FailTasksOf
<1>2. t \in inFlight
  BY <1>1, UpdateStatusesTasks DEF TypeOK
<1>3. StateOf(t) \in Live /\ t \in TaskIds
  BY <1>2 DEF LiveTasks
<1>4. CanTransition(StateOf(t), target[t]) /\ target[t] \in Terminal
  BY <1>2, <1>3, HaltIsAllowed
<1>5. tasks'[t] = [tasks[t] EXCEPT !.state = target[t]]
  BY <1>1, <1>2, <1>3, <1>4 DEF UpdateStatuses
<1>6. tasks[t] \in Task
  BY <1>3 DEF TypeOK, TaskTypeOK, NoTask, StateOf, Live, TaskState
<1>7. tasks'[t].state \in Terminal
  BY <1>4, <1>5, <1>6 DEF Task
<1> QED
  BY <1>7 DEF LiveTasks, StateOf, Live

(***************************************************************************)
(* The steps of agents: a registration, a heartbeat and a deregistration   *)
(* only take agents out of Disconnected, and an agent that connects does   *)
(* so with a heartbeat of now.                                             *)
(***************************************************************************)
LEMMA AgentSteps ==
  ASSUME TypeOK, SweepInvariant, AgentNext
  PROVE  SweepInvariant'
<1>1. PICK a \in AgentIds : RegisterAgent(a) \/ AgentHeartbeat(a) \/ DeregisterAgent(a)
  BY DEF AgentNext
<1>2. /\ UNCHANGED <<tasks, late, clock, phase, sweepNow, stale>>
      /\ Disconnected' \subseteq Disconnected
      /\ \A b \in Connected' : \/ b \in Connected /\ agents'[b] = agents[b]
                              \/ agents'[b].heartbeat = clock
  BY <1>1 DEF RegisterAgent, AgentHeartbeat, DeregisterAgent, RegistryStep, Register, Heartbeat,
              Deregister, sweepVars, Connected, Disconnected, TypeOK, RegistryTypeOK
<1>3. NoWorkLeftBehind'
  BY <1>2, FewerOrphans DEF SweepInvariant, OrphanedWork, LiveTasks, StateOf
<1>4. StaleAgentsWereSilent'
  BY <1>2 DEF SweepInvariant, StaleAgentsWereSilent, TypeOK
<1> QED
  BY <1>2, <1>3, <1>4 DEF SweepInvariant

(***************************************************************************)
(* The steps of requests: a task created for a disconnected agent is late, *)
(* and no other step adds orphaned work.                                   *)
(***************************************************************************)
LEMMA RequestSteps ==
  ASSUME TypeOK, SweepInvariant, RequestNext
  PROVE  SweepInvariant'
<1>1. UNCHANGED <<agents, clock, phase, sweepNow, stale>> /\ late \subseteq late'
  BY DEF RequestNext, SubmitPinned, SubmitRouted, Resolve, FinishSubmit, UpdateTask, CancelTask,
         AddTaskArtifact, TaskStep, sweepVars
<1>2. ASSUME NEW r \in Requests, NEW t \in TaskIds, FinishSubmit(r, t)
      PROVE  NoWorkLeftBehind'
  <2>1. /\ tasks'[t].assignee = request[r].assignee
        /\ \A u \in TaskIds \ {t} : tasks'[u] = tasks[u]
        /\ request[r].assignee \in Disconnected => t \in late'
    BY <1>2, IdAssumption
       DEF FinishSubmit, CreateTask, TypeOK, TaskTypeOK, Disconnected, Connected
  <2>2. ASSUME NEW u \in OrphanedWork', u # t
        PROVE  u \in OrphanedWork /\ tasks'[u].assignee = tasks[u].assignee
    BY <1>1, <2>1, <2>2 DEF OrphanedWork, LiveTasks, StateOf, Disconnected
  <2>3. t \in OrphanedWork' => t \in late'
    BY <1>1, <2>1 DEF OrphanedWork, Disconnected
  <2> QED
    BY <1>1, <2>2, <2>3 DEF SweepInvariant, NoWorkLeftBehind
<1>3. ASSUME NEW t \in TaskIds, NEW new, UpdateStatus(t, new)
      PROVE  NoWorkLeftBehind'
  <2>1. \A u \in LiveTasks' : u \in LiveTasks /\ tasks'[u].assignee = tasks[u].assignee
    BY <1>3, UpdateStatusesTasks DEF UpdateStatus, TypeOK
  <2> QED
    BY <1>1, <2>1, FewerOrphans DEF OrphanedWork, Disconnected, SweepInvariant
<1>4. ASSUME NEW t \in TaskIds, AddTaskArtifact(t)
      PROVE  NoWorkLeftBehind'
  <2>1. tasks[t] \in Task
    BY <1>4 DEF AddTaskArtifact, AddArtifact, TypeOK, TaskTypeOK, NoTask, StateOf, Live, TaskState
  <2>2. \A u \in TaskIds : tasks'[u].state = tasks[u].state /\ tasks'[u].assignee = tasks[u].assignee
    BY <1>4, <2>1 DEF AddTaskArtifact, AddArtifact, TypeOK, TaskTypeOK, Task
  <2> QED
    BY <1>1, <2>2, FewerOrphans DEF OrphanedWork, LiveTasks, StateOf, Disconnected, SweepInvariant
<1>5. ASSUME UNCHANGED tasks
      PROVE  NoWorkLeftBehind'
  BY <1>1, <1>5, FewerOrphans DEF OrphanedWork, LiveTasks, StateOf, Disconnected, SweepInvariant
<1>6. NoWorkLeftBehind'
  BY <1>2, <1>3, <1>4, <1>5
     DEF RequestNext, SubmitPinned, SubmitRouted, Resolve, UpdateTask, CancelTask, Cancel
<1>7. StaleAgentsWereSilent'
  BY <1>1 DEF SweepInvariant, StaleAgentsWereSilent, Connected
<1> QED
  BY <1>1, <1>6, <1>7 DEF SweepInvariant

(***************************************************************************)
(* The steps of the watchdog.                                              *)
(***************************************************************************)
LEMMA WatchdogSteps ==
  ASSUME TypeOK, SweepInvariant, WatchdogNext
  PROVE  SweepInvariant'
<1>0. TaskTypeOK /\ RegistryTypeOK
  BY DEF TypeOK
<1>1. CASE WakeWatchdog
  <2>1. stale = {} /\ \A t \in OrphanedWork : t \in late
    BY <1>1 DEF WakeWatchdog, SweepInvariant, NoWorkLeftBehind
  <2>2. OrphanedWork' = OrphanedWork
    BY <1>1 DEF WakeWatchdog, Scans, OrphanedWork, LiveTasks, StateOf, Disconnected
  <2> QED
    BY <1>1, <2>1, <2>2
       DEF WakeWatchdog, Scans, SweepInvariant, NoWorkLeftBehind, StaleAgentsWereSilent, TypeOK
<1>2. CASE ScanAgents
  <2>1. \A t \in OrphanedWork : t \in late
    BY <1>2 DEF ScanAgents, SweepInvariant, NoWorkLeftBehind
  <2>2. OrphanedWork' = OrphanedWork
    BY <1>2 DEF ScanAgents, Scans, OrphanedWork, LiveTasks, StateOf, Disconnected
  <2> QED
    BY <1>2, <2>1, <2>2
       DEF ScanAgents, Scans, SweepInvariant, NoWorkLeftBehind, StaleAgentsWereSilent
<1>3. CASE FlipStale
  <2>1. /\ Disconnected' \subseteq Disconnected \cup stale
        /\ stale \cap Connected' = {}
    BY <1>0, <1>3
       DEF FlipStale, MarkDisconnected, Disconnected, Connected, RegistryTypeOK, AgentInfo
  <2>2. \A t \in OrphanedWork' : t \in OrphanedWork \/ tasks[t].assignee \in stale
    BY <1>3, <2>1 DEF FlipStale, OrphanedWork, LiveTasks, StateOf
  <2>3. \A t \in OrphanedWork : t \in late
    BY <1>3 DEF FlipStale, SweepInvariant, NoWorkLeftBehind
  <2> QED
    BY <1>3, <2>1, <2>2, <2>3 DEF FlipStale, SweepInvariant, NoWorkLeftBehind, StaleAgentsWereSilent
<1>4. ASSUME NEW a \in AgentIds, FailTasksOf(a) PROVE SweepInvariant'
  <2>1. \A t \in LiveTasks' : /\ t \in LiveTasks
                             /\ tasks'[t].assignee = tasks[t].assignee
                             /\ tasks'[t].assignee # a
    BY <1>0, <1>4, UpdateStatusesTasks, FailTasksOfAgent DEF FailTasksOf
  <2>2. \A t \in OrphanedWork' : /\ t \in OrphanedWork
                                /\ tasks'[t].assignee = tasks[t].assignee
                                /\ tasks'[t].assignee # a
    BY <1>4, <2>1 DEF FailTasksOf, OrphanedWork, Disconnected
  <2>3. NoWorkLeftBehind'
    BY <1>4, <2>2 DEF FailTasksOf, SweepInvariant, NoWorkLeftBehind
  <2>4. StaleAgentsWereSilent'
    BY <1>4 DEF FailTasksOf, SweepInvariant, StaleAgentsWereSilent, Connected
  <2> QED
    BY <1>4, <2>3, <2>4 DEF FailTasksOf, SweepInvariant
<1>5. CASE ScanDeadlines
  <2>1. stale = {} /\ \A t \in OrphanedWork : t \in late
    BY <1>5 DEF ScanDeadlines, SweepInvariant, NoWorkLeftBehind
  <2>2. OrphanedWork' = OrphanedWork
    BY <1>5 DEF ScanDeadlines, Scans, OrphanedWork, LiveTasks, StateOf, Disconnected
  <2> QED
    BY <1>5, <2>1, <2>2
       DEF ScanDeadlines, Scans, SweepInvariant, NoWorkLeftBehind, StaleAgentsWereSilent, TypeOK
<1>6. CASE ExpireTasks
  <2>1. stale = {} /\ \A t \in OrphanedWork : t \in late
    BY <1>6 DEF ExpireTasks, SweepInvariant, NoWorkLeftBehind
  <2>2. \A t \in OrphanedWork' : t \in OrphanedWork
    BY <1>0, <1>6, UpdateStatusesTasks DEF ExpireTasks, OrphanedWork, Disconnected
  <2> QED
    BY <1>6, <2>1, <2>2 DEF ExpireTasks, SweepInvariant, NoWorkLeftBehind, StaleAgentsWereSilent
<1> QED
  BY <1>1, <1>2, <1>3, <1>4, <1>5, <1>6 DEF WatchdogNext

(***************************************************************************)
(* Every step keeps the invariant of the sweep.                            *)
(***************************************************************************)
LEMMA StepSweep == TypeOK /\ SweepInvariant /\ [Next]_vars => SweepInvariant'
<1> SUFFICES ASSUME TypeOK, SweepInvariant, [Next]_vars PROVE SweepInvariant'
  OBVIOUS
<1>1. CASE Tick \/ UNCHANGED vars
  <2>1. /\ UNCHANGED <<agents, tasks, late, phase, sweepNow, stale>>
        /\ clock' \in {clock, clock + 1}
    BY <1>1 DEF Tick, vars, sweepVars
  <2>2. NoWorkLeftBehind'
    BY <2>1, FewerOrphans DEF OrphanedWork, LiveTasks, StateOf, Disconnected, SweepInvariant
  <2> QED
    BY <2>1, <2>2 DEF SweepInvariant, StaleAgentsWereSilent, Connected, TypeOK
<1> QED
  BY <1>1, AgentSteps, RequestSteps, WatchdogSteps DEF Next

(***************************************************************************)
(* For every number of agents, tasks and handlers: a live task of a        *)
(* disconnected agent is about to be halted, or was created by a           *)
(* submission that lost the race against the watchdog.                     *)
(***************************************************************************)
THEOREM NoWorkIsLeftBehind == Spec => []NoWorkLeftBehind
<1>1. Init => TypeOK /\ SweepInvariant
  BY InitType, InitSweep
<1>2. TypeOK /\ SweepInvariant /\ [Next]_vars => TypeOK' /\ SweepInvariant'
  BY StepType, StepSweep
<1>3. SweepInvariant => NoWorkLeftBehind
  BY DEF SweepInvariant
<1> QED
  BY <1>1, <1>2, <1>3, PTL DEF Spec

(***************************************************************************)
(* A sweep holds against a connected agent only a silence it has seen, or  *)
(* the agent has come back while the sweep runs.                           *)
(***************************************************************************)
THEOREM SweepsWrongOnlyReturningAgents == Spec => []StaleAgentsWereSilent
<1>1. Init => TypeOK /\ SweepInvariant
  BY InitType, InitSweep
<1>2. TypeOK /\ SweepInvariant /\ [Next]_vars => TypeOK' /\ SweepInvariant'
  BY StepType, StepSweep
<1>3. SweepInvariant => StaleAgentsWereSilent
  BY DEF SweepInvariant
<1> QED
  BY <1>1, <1>2, <1>3, PTL DEF Spec

-----------------------------------------------------------------------------
(* The nexus implements TaskLifecycle *)

(***************************************************************************)
(* The definitions that the abstract specification and the nexus share.    *)
(***************************************************************************)
LEMMA SameStateMachine ==
  /\ Lifecycle!Live = Live
  /\ \A from, to : Lifecycle!CanTransition(from, to) <=> CanTransition(from, to)
  BY DEF Lifecycle!Live, Live, Lifecycle!TaskState, TaskState, Lifecycle!Terminal, Terminal,
         Lifecycle!CanTransition, CanTransition, Lifecycle!Interrupted, Interrupted

(***************************************************************************)
(* Initial states map to initial states: no task exists.                   *)
(***************************************************************************)
LEMMA InitLifecycle == Init => Lifecycle!Init
  BY DEF Init, TaskInit, NoTask, Lifecycle!Init

(***************************************************************************)
(* Every critical section that writes the task map makes, for each task,   *)
(* a move of the abstract specification or none.                           *)
(***************************************************************************)
LEMMA UpdateStatusesIsLifecycle ==
  ASSUME NEW target, UpdateStatuses(target)
  PROVE  Lifecycle!Next
<1> SUFFICES ASSUME NEW t \in TaskIds
             PROVE  tasks'[t] = tasks[t] \/ Lifecycle!Advances(tasks[t], tasks'[t])
  BY DEF Lifecycle!Next
<1>1. CASE t \in DOMAIN target /\ CanTransition(StateOf(t), target[t])
  <2>1. tasks'[t] = [tasks[t] EXCEPT !.state = target[t]]
    BY <1>1 DEF UpdateStatuses
  <2> QED
    BY <1>1, <2>1, SameStateMachine DEF Lifecycle!Advances, StateOf
<1>2. CASE ~(t \in DOMAIN target /\ CanTransition(StateOf(t), target[t]))
  BY <1>2 DEF UpdateStatuses
<1> QED
  BY <1>1, <1>2

(***************************************************************************)
(* Every step of the nexus is a step or a stutter of TaskLifecycle.        *)
(***************************************************************************)
LEMMA StepLifecycle == TypeOK /\ [Next]_vars => [Lifecycle!Next]_tasks
<1> SUFFICES ASSUME TypeOK, [Next]_vars PROVE [Lifecycle!Next]_tasks
  OBVIOUS
<1>0. tasks \in [TaskIds -> Task \cup {NoTask}]
  BY DEF TypeOK, TaskTypeOK
<1>1. ASSUME NEW r \in Requests, NEW t \in TaskIds, FinishSubmit(r, t)
      PROVE  Lifecycle!Next
  <2>1. /\ StateOf(t) = "Unborn"
        /\ tasks' = [tasks EXCEPT ![t] =
             [state |-> "Submitted", context |-> request[r].context,
              assignee |-> request[r].assignee, deadline |-> request[r].deadline,
              artifacts |-> 0]]
    BY <1>1 DEF FinishSubmit, CreateTask
  <2> QED
    BY <1>0, <2>1 DEF Lifecycle!Next, Lifecycle!Opens, StateOf
<1>2. ASSUME NEW t \in TaskIds, AddTaskArtifact(t)
      PROVE  Lifecycle!Next
  <2>1. StateOf(t) \in Live /\ tasks' = [tasks EXCEPT ![t].artifacts = @ + 1]
    BY <1>2 DEF AddTaskArtifact, AddArtifact
  <2> QED
    BY <1>0, <2>1, SameStateMachine DEF Lifecycle!Next, Lifecycle!Gains, StateOf
<1>3. ASSUME NEW t, NEW new, UpdateTask(t, new) \/ CancelTask(t)
      PROVE  Lifecycle!Next
  BY <1>3, UpdateStatusesIsLifecycle DEF UpdateTask, CancelTask, Cancel, UpdateStatus
<1>4. CASE RequestNext
  BY <1>1, <1>2, <1>3, <1>4 DEF RequestNext, SubmitPinned, SubmitRouted, Resolve
<1>5. CASE WatchdogNext
  BY <1>5, UpdateStatusesIsLifecycle
     DEF WatchdogNext, WakeWatchdog, ScanAgents, Scans, FlipStale, FailTasksOf, ScanDeadlines,
         ExpireTasks
<1>6. CASE AgentNext
  BY <1>6 DEF AgentNext, RegisterAgent, AgentHeartbeat, DeregisterAgent, RegistryStep
<1>7. CASE Tick \/ UNCHANGED vars
  BY <1>7 DEF Tick, vars
<1> QED
  BY <1>4, <1>5, <1>6, <1>7 DEF Next

(***************************************************************************)
(* Refinement: with the task map as its ledger, the nexus implements       *)
(* TaskLifecycle.  In particular no interleaving of callers and sweeps     *)
(* revives a terminal task or changes who it is assigned to.               *)
(***************************************************************************)
THEOREM NexusImplementsTaskLifecycle == Spec => TasksLiveTheirLifecycle
<1>1. TypeOK /\ [Next]_vars => TypeOK'
  BY StepType
<1> QED
  BY <1>1, InitType, InitLifecycle, StepLifecycle, PTL
     DEF Spec, TasksLiveTheirLifecycle, Lifecycle!Spec

-----------------------------------------------------------------------------
(* Events *)

\* The two halves of Changes, one for each manager.
AgentChanges ==
  {AgentEvent("AgentRegistered", a) :
     a \in {b \in Registered' : agents[b].status = "Unregistered"}}
  \cup {AgentEvent("AgentReconnected", a) : a \in Disconnected \cap Connected'}
  \cup {AgentEvent("AgentDisconnected", a) : a \in Connected \cap Disconnected'}
  \cup {AgentEvent("AgentDeregistered", a) : a \in Registered \ Registered'}

TaskChanges ==
  {TaskCreated(t) : t \in Born' \ Born}
  \cup {StatusChanged(t, StateOf(t), StateOf(t)') :
          t \in {u \in Born : StateOf(u)' # StateOf(u)}}
  \cup {ArtifactAdded(t, tasks'[t].artifacts) :
          t \in {u \in Born : tasks'[u].artifacts # tasks[u].artifacts}}

(***************************************************************************)
(* Nothing else counts as a change.                                        *)
(***************************************************************************)
LEMMA ChangesAreTwofold == Changes = AgentChanges \cup TaskChanges
  BY DEF Changes, AgentChanges, TaskChanges

(***************************************************************************)
(* A manager that is left alone has nothing to tell.                       *)
(***************************************************************************)
LEMMA QuietAgents ==
  ASSUME agents' = agents
  PROVE  AgentChanges = {}
<1>1. Registered' = Registered /\ Connected' = Connected /\ Disconnected' = Disconnected
  BY DEF Registered, Connected, Disconnected
<1>2. {b \in Registered' : agents[b].status = "Unregistered"} = {}
  BY <1>1 DEF Registered
<1>3. Disconnected \cap Connected' = {} /\ Connected \cap Disconnected' = {}
  BY <1>1 DEF Connected, Disconnected
<1> QED
  BY <1>1, <1>2, <1>3 DEF AgentChanges

(***************************************************************************)
(* The same of the task manager.                                           *)
(***************************************************************************)
LEMMA QuietTasks ==
  ASSUME tasks' = tasks
  PROVE  TaskChanges = {}
<1>1. Born' = Born /\ \A t : StateOf(t)' = StateOf(t)
  BY DEF Born, StateOf
<1> QED
  BY <1>1 DEF TaskChanges

(***************************************************************************)
(* The methods of the registry publish what they change (registry.rs).     *)
(***************************************************************************)
LEMMA RegistryTells ==
  ASSUME RegistryTypeOK, NEW a \in AgentIds, NEW now \in Nat,
         Register(a, now) \/ Heartbeat(a, now) \/ Deregister(a)
  PROVE  published' = AgentChanges
<1> DEFINE new  == {b \in Registered' : agents[b].status = "Unregistered"}
           back == Disconnected \cap Connected'
           lost == Connected \cap Disconnected'
           gone == Registered \ Registered'
<1> USE DEF RegistryTypeOK, Registered, Connected, Disconnected
<1>1. CASE Register(a, now)
  <2>1. agents[a].status = "Unregistered" /\ agents'[a].status = "Connected"
        /\ \A b \in AgentIds \ {a} : agents'[b] = agents[b]
    BY <1>1 DEF Register
  <2>2. new = {a} /\ back = {} /\ lost = {} /\ gone = {}
    BY <2>1
  <2> QED
    BY <1>1, <2>2 DEF Register, Publish, AgentChanges
<1>2. CASE Heartbeat(a, now)
  <2>1. agents[a].status \in {"Connected", "Disconnected"} /\ agents'[a].status = "Connected"
        /\ \A b \in AgentIds \ {a} : agents'[b] = agents[b]
    BY <1>2 DEF Heartbeat
  <2>2. new = {} /\ back = {a} \cap Disconnected /\ lost = {} /\ gone = {}
    BY <2>1
  <2> QED
    BY <1>2, <2>2 DEF Heartbeat, Publish, AgentChanges
<1>3. CASE Deregister(a)
  <2>1. agents[a].status \in {"Connected", "Disconnected"} /\ agents'[a].status = "Deregistered"
        /\ \A b \in AgentIds \ {a} : agents'[b] = agents[b]
    BY <1>3 DEF Deregister
  <2>2. new = {} /\ back = {} /\ lost = {} /\ gone = {a}
    BY <2>1
  <2> QED
    BY <1>3, <2>2 DEF Deregister, Publish, AgentChanges
<1> QED
  BY <1>1, <1>2, <1>3

(***************************************************************************)
(* So does mark_disconnected: once for each agent that was connected.      *)
(***************************************************************************)
LEMMA FlipTells ==
  ASSUME RegistryTypeOK, NEW S, MarkDisconnected(S)
  PROVE  published' = AgentChanges
<1> DEFINE new  == {b \in Registered' : agents[b].status = "Unregistered"}
           back == Disconnected \cap Connected'
           lost == Connected \cap Disconnected'
           gone == Registered \ Registered'
<1> USE DEF RegistryTypeOK, Registered, Connected, Disconnected
<1>1. \A b \in S \cap Connected : agents'[b].status = "Disconnected"
  BY DEF MarkDisconnected, AgentInfo
<1>2. \A b \in AgentIds \ (S \cap Connected) : agents'[b] = agents[b]
  BY DEF MarkDisconnected
<1>3. new = {} /\ back = {} /\ lost = S \cap Connected /\ gone = {}
  BY <1>1, <1>2
<1> QED
  BY <1>3 DEF MarkDisconnected, Publish, AgentChanges

(***************************************************************************)
(* create_task tells of the task it creates.                               *)
(***************************************************************************)
LEMMA CreateTells ==
  ASSUME TaskTypeOK, NEW t \in TaskIds, NEW c, NEW a, NEW d, CreateTask(t, c, a, d)
  PROVE  published' = TaskChanges
<1>1. tasks[t].state = "Unborn" /\ tasks'[t].state = "Submitted"
      /\ \A u \in TaskIds \ {t} : tasks'[u] = tasks[u]
  BY DEF CreateTask, StateOf, TaskTypeOK
<1>2. Born' \ Born = {t} /\ t \notin Born
  BY <1>1 DEF Born, StateOf
<1>3. {u \in Born : StateOf(u)' # StateOf(u)} = {}
  BY <1>1 DEF Born, StateOf
<1>4. {u \in Born : tasks'[u].artifacts # tasks[u].artifacts} = {}
  BY <1>1 DEF Born, StateOf
<1> QED
  BY <1>2, <1>3, <1>4 DEF CreateTask, Publish, TaskChanges

(***************************************************************************)
(* No transition leads where it began (can_transition_to).                 *)
(***************************************************************************)
LEMMA TransitionsMove ==
  ASSUME NEW from, NEW to, CanTransition(from, to)
  PROVE  from # to
  BY DEF CanTransition, Interrupted

(***************************************************************************)
(* update_status tells of each task that has moved, and of no other.       *)
(***************************************************************************)
LEMMA UpdateTells ==
  ASSUME TaskTypeOK, NEW target, DOMAIN target \subseteq TaskIds, UpdateStatuses(target)
  PROVE  published' = TaskChanges
<1> DEFINE allowed == {t \in DOMAIN target : CanTransition(StateOf(t), target[t])}
           moved   == {u \in Born : StateOf(u)' # StateOf(u)}
<1>1. ASSUME NEW t \in allowed
      PROVE  /\ t \in Born /\ t \in Born' /\ StateOf(t)' = target[t] /\ StateOf(t)' # StateOf(t)
             /\ tasks'[t].artifacts = tasks[t].artifacts
  <2>1. CanTransition(StateOf(t), target[t]) /\ t \in TaskIds
    OBVIOUS
  <2>2. StateOf(t) \in Live /\ target[t] \in TaskState
    BY <2>1, TransitionStates
  <2>3. tasks[t] \in Task
    BY <2>1, <2>2 DEF TaskTypeOK, NoTask, StateOf, Live, TaskState
  <2>4. tasks'[t] = [tasks[t] EXCEPT !.state = target[t]]
    BY <2>1 DEF UpdateStatuses
  <2>5. tasks'[t].state = target[t] /\ tasks'[t].artifacts = tasks[t].artifacts
    BY <2>3, <2>4 DEF Task
  <2>6. StateOf(t) # "Unborn" /\ target[t] # "Unborn"
    BY <2>2 DEF Live, TaskState
  <2> QED
    BY <2>1, <2>5, <2>6, TransitionsMove DEF Born, StateOf
<1>2. \A t \in TaskIds \ allowed : tasks'[t] = tasks[t]
  BY DEF UpdateStatuses
<1> HIDE DEF allowed
<1>3. moved = allowed
  BY <1>1, <1>2 DEF Born, StateOf
<1>4. Born' \ Born = {}
  BY <1>1, <1>2 DEF Born, StateOf
<1>5. {u \in Born : tasks'[u].artifacts # tasks[u].artifacts} = {}
  BY <1>1, <1>2 DEF Born
<1>6. published' = {StatusChanged(t, StateOf(t), target[t]) : t \in allowed}
  BY DEF UpdateStatuses, Publish, allowed
<1>7. published' = {StatusChanged(t, StateOf(t), StateOf(t)') : t \in moved}
  BY <1>1, <1>3, <1>6
<1> QED
  BY <1>4, <1>5, <1>7 DEF TaskChanges

(***************************************************************************)
(* add_artifact tells of the artifact it adds.                             *)
(***************************************************************************)
LEMMA ArtifactTells ==
  ASSUME TaskTypeOK, NEW t \in TaskIds, AddArtifact(t)
  PROVE  published' = TaskChanges
<1>1. tasks[t] \in Task /\ t \in Born
  BY DEF AddArtifact, TaskTypeOK, NoTask, StateOf, Live, TaskState, Born
<1>2. /\ tasks'[t].state = tasks[t].state
      /\ tasks'[t].artifacts = tasks[t].artifacts + 1 /\ tasks[t].artifacts \in Nat
      /\ \A u \in TaskIds \ {t} : tasks'[u] = tasks[u]
  BY <1>1 DEF AddArtifact, TaskTypeOK, Task
<1>3. Born' = Born /\ {u \in Born : StateOf(u)' # StateOf(u)} = {}
  BY <1>2 DEF Born, StateOf
<1>4. {u \in Born : tasks'[u].artifacts # tasks[u].artifacts} = {t}
  BY <1>1, <1>2 DEF Born
<1> QED
  BY <1>2, <1>3, <1>4 DEF AddArtifact, Publish, TaskChanges

(***************************************************************************)
(* Every step of the nexus tells all it changes.                           *)
(***************************************************************************)
LEMMA StepTells ==
  ASSUME TypeOK, Next
  PROVE  published' = Changes
<1>0. RegistryTypeOK /\ TaskTypeOK /\ clock \in Nat
  BY DEF TypeOK
<1>1. CASE AgentNext
  <2>1. PICK a \in AgentIds : RegisterAgent(a) \/ AgentHeartbeat(a) \/ DeregisterAgent(a)
    BY <1>1 DEF AgentNext
  <2>2. published' = AgentChanges
    BY <1>0, <2>1, RegistryTells DEF RegisterAgent, AgentHeartbeat, DeregisterAgent
  <2>3. tasks' = tasks
    BY <2>1 DEF RegisterAgent, AgentHeartbeat, DeregisterAgent, RegistryStep
  <2> QED
    BY <2>2, <2>3, QuietTasks, ChangesAreTwofold
<1>2. ASSUME published' = TaskChanges, agents' = agents
      PROVE  published' = Changes
  BY <1>2, QuietAgents, ChangesAreTwofold
<1>3. ASSUME published' = {}, agents' = agents, tasks' = tasks
      PROVE  published' = Changes
  BY <1>3, QuietAgents, QuietTasks, ChangesAreTwofold
<1>4. ASSUME NEW r \in Requests, NEW t \in TaskIds, FinishSubmit(r, t)
      PROVE  published' = TaskChanges /\ agents' = agents
  BY <1>0, <1>4, CreateTells DEF FinishSubmit
<1>5. ASSUME NEW t \in TaskIds, NEW new, UpdateStatus(t, new)
      PROVE  published' = TaskChanges
  BY <1>0, <1>5, UpdateTells DEF UpdateStatus
<1>6. CASE RequestNext
  <2>1. CASE \E r \in Requests, t \in TaskIds : FinishSubmit(r, t)
    BY <1>2, <1>4, <2>1
  <2>2. CASE \E t \in TaskIds, new \in TaskState : UpdateTask(t, new)
    BY <1>2, <1>5, <2>2 DEF UpdateTask, TaskStep
  <2>3. CASE \E t \in TaskIds : CancelTask(t)
    BY <1>2, <1>5, <2>3 DEF CancelTask, Cancel, TaskStep
  <2>4. CASE \E t \in TaskIds : AddTaskArtifact(t)
    BY <1>0, <1>2, <2>4, ArtifactTells DEF AddTaskArtifact, TaskStep
  <2>5. CASE \E r \in Requests, c \in Contexts, d \in Deadlines \cup {NoDeadline} :
               \/ \E a \in AgentIds : SubmitPinned(r, a, c, d)
               \/ \E required \in SUBSET Tags : SubmitRouted(r, required, c, d)
    BY <1>3, <2>5 DEF SubmitPinned, SubmitRouted, Resolve, Silent, Publish
  <2> QED
    BY <1>6, <2>1, <2>2, <2>3, <2>4, <2>5 DEF RequestNext
<1>7. CASE WatchdogNext
  <2>1. CASE WakeWatchdog \/ ScanAgents \/ ScanDeadlines
    BY <1>3, <2>1 DEF WakeWatchdog, ScanAgents, ScanDeadlines, Scans, Silent, Publish
  <2>2. CASE FlipStale
    <3>1. published' = AgentChanges
      BY <1>0, <2>2, FlipTells DEF FlipStale
    <3>2. tasks' = tasks
      BY <2>2 DEF FlipStale
    <3> QED
      BY <3>1, <3>2, QuietTasks, ChangesAreTwofold
  <2>3. ASSUME NEW a \in AgentIds, FailTasksOf(a)
        PROVE  published' = Changes
    <3> DEFINE inFlight == {t \in LiveTasks : tasks[t].assignee = a}
               target   == [t \in inFlight |-> HaltState(StateOf(t))]
    <3>1. UpdateStatuses(target) /\ agents' = agents
      BY <2>3 DEF FailTasksOf
    <3>2. DOMAIN target \subseteq TaskIds
      BY DEF LiveTasks
    <3> HIDE DEF target
    <3>3. published' = TaskChanges
      BY <1>0, <3>1, <3>2, UpdateTells
    <3> QED
      BY <1>2, <3>1, <3>3
  <2>4. CASE ExpireTasks
    <3>1. published' = TaskChanges
      BY <1>0, <2>4, UpdateTells DEF ExpireTasks, TypeOK
    <3> QED
      BY <1>2, <2>4, <3>1 DEF ExpireTasks
  <2> QED
    BY <1>7, <2>1, <2>2, <2>3, <2>4 DEF WatchdogNext
<1>8. CASE Tick
  BY <1>3, <1>8 DEF Tick, Silent, Publish
<1> QED
  BY <1>1, <1>6, <1>7, <1>8 DEF Next

(***************************************************************************)
(* A subscriber that misses no event can mirror the nexus: for every       *)
(* number of agents, tasks and handlers, each step publishes exactly its   *)
(* changes, with the true old and new states (the publish calls of         *)
(* registry.rs and task_manager.rs).                                       *)
(***************************************************************************)
THEOREM EventsAreTheChanges == Spec => EventsTellAllChanges
<1>1. TypeOK /\ [Next]_vars => [published' = Changes]_vars
  BY StepTells
<1> QED
  BY <1>1, TypeCorrect, PTL DEF Spec, EventsTellAllChanges

-----------------------------------------------------------------------------
(* The index of contexts *)

(***************************************************************************)
(* A new task goes to the end of the list of its context, and was on no    *)
(* list before (create_task_with_deadline).                                *)
(***************************************************************************)
LEMMA CreateTaskIndex ==
  ASSUME TaskTypeOK, ContextIndexExact, NEW t \in TaskIds, NEW c \in Contexts, NEW a, NEW d,
         CreateTask(t, c, a, d)
  PROVE  ContextIndexExact'
<1> DEFINE list == contextIndex[c]
           n    == Len(list)
<1>1. list \in Seq(TaskIds) /\ n \in Nat /\ DOMAIN list = 1..n
  BY DEF TaskTypeOK
<1>2. /\ contextIndex'[c] = Append(list, t)
      /\ \A e \in Contexts \ {c} : contextIndex'[e] = contextIndex[e]
      /\ tasks[t].state = "Unborn" /\ tasks'[t].state = "Submitted" /\ tasks'[t].context = c
      /\ \A u \in TaskIds \ {t} : tasks'[u] = tasks[u]
  BY DEF CreateTask, TaskTypeOK, StateOf
<1>3. Len(Append(list, t)) = n + 1 /\ Append(list, t) \in Seq(TaskIds)
  BY <1>1
<1>4. DOMAIN contextIndex'[c] = 1..(n + 1)
  BY <1>1, <1>2, <1>3
<1>5. contextIndex'[c][n + 1] = t /\ \A i \in 1..n : contextIndex'[c][i] = list[i]
  BY <1>1, <1>2
<1>6. \A i : i \in 1..(n + 1) <=> i \in 1..n \/ i = n + 1
  BY <1>1
<1>7. Born' = Born \cup {t} /\ t \notin Born
  BY <1>2 DEF Born, StateOf
<1>8. \A i \in 1..n : list[i] \in Born
  BY <1>1 DEF ContextIndexExact
<1>9. ASSUME NEW e \in Contexts
      PROVE  {contextIndex'[e][i] : i \in DOMAIN contextIndex'[e]} =
             {u \in Born' : tasks'[u].context = e}
  <2>1. {contextIndex[e][i] : i \in DOMAIN contextIndex[e]} = {u \in Born : tasks[u].context = e}
    BY DEF ContextIndexExact
  <2>2. \A u \in Born : tasks'[u] = tasks[u]
    BY <1>2, <1>7 DEF Born
  <2>3. CASE e = c
    <3>1. {contextIndex'[c][i] : i \in 1..(n + 1)} = {list[i] : i \in 1..n} \cup {t}
      BY <1>5, <1>6
    <3>2. {u \in Born' : tasks'[u].context = c} = {u \in Born : tasks[u].context = c} \cup {t}
      BY <1>2, <1>7, <2>2
    <3>3. {contextIndex'[c][i] : i \in DOMAIN contextIndex'[c]} = {contextIndex'[c][i] : i \in 1..(n + 1)}
      BY <1>4
    <3>4. {list[i] : i \in 1..n} = {u \in Born : tasks[u].context = c}
      BY <1>1, <2>1, <2>3
    <3>5. {contextIndex'[c][i] : i \in 1..(n + 1)} = {u \in Born' : tasks'[u].context = c}
      BY <3>1, <3>2, <3>4, Zenon
    <3>6. {contextIndex'[c][i] : i \in DOMAIN contextIndex'[c]} = {u \in Born' : tasks'[u].context = c}
      BY <3>3, <3>5, Zenon
    <3> QED
      BY <2>3, <3>6, Zenon
  <2>4. CASE e # c
    <3>1. {u \in Born' : tasks'[u].context = e} = {u \in Born : tasks[u].context = e}
      BY <1>2, <1>7, <2>2, <2>4
    <3> QED
      BY <1>2, <2>1, <2>4, <3>1
  <2> QED
    BY <2>3, <2>4
<1>10. ASSUME NEW e \in Contexts, NEW i \in DOMAIN contextIndex'[e], NEW j \in DOMAIN contextIndex'[e],
              contextIndex'[e][i] = contextIndex'[e][j]
       PROVE  i = j
  <2>1. CASE e = c
    <3>1. \A k, l \in 1..n : list[k] = list[l] => k = l
      BY <1>1 DEF ContextIndexExact
    <3>2. i \in 1..(n + 1) /\ j \in 1..(n + 1) /\ contextIndex'[c][i] = contextIndex'[c][j]
      BY <1>4, <1>10, <2>1
    <3>3. CASE i = n + 1 /\ j \in 1..n
      BY <1>5, <1>7, <1>8, <3>2, <3>3
    <3>4. CASE i \in 1..n /\ j = n + 1
      BY <1>5, <1>7, <1>8, <3>2, <3>4
    <3>5. CASE i \in 1..n /\ j \in 1..n
      BY <1>5, <3>1, <3>2, <3>5
    <3> QED
      BY <1>6, <3>2, <3>3, <3>4, <3>5
  <2>2. CASE e # c
    BY <1>2, <1>10, <2>2 DEF ContextIndexExact
  <2> QED
    BY <2>1, <2>2
<1> QED
  BY <1>9, <1>10 DEF ContextIndexExact

(***************************************************************************)
(* A step that brings no task into the world and moves none to another     *)
(* context leaves the index exact.                                         *)
(***************************************************************************)
LEMMA SameContexts ==
  ASSUME ContextIndexExact, contextIndex' = contextIndex, Born' = Born,
         \A t \in Born : tasks'[t].context = tasks[t].context
  PROVE  ContextIndexExact'
<1>1. \A c : {t \in Born' : tasks'[t].context = c} = {t \in Born : tasks[t].context = c}
  OBVIOUS
<1> QED
  BY <1>1 DEF ContextIndexExact

(***************************************************************************)
(* update_status is such a step ...                                        *)
(***************************************************************************)
LEMMA UpdateKeepsContexts ==
  ASSUME TaskTypeOK, NEW target, DOMAIN target \subseteq TaskIds, UpdateStatuses(target)
  PROVE  /\ contextIndex' = contextIndex /\ Born' = Born
         /\ \A t \in Born : /\ tasks'[t].context = tasks[t].context
                            /\ tasks'[t].assignee = tasks[t].assignee
<1> SUFFICES ASSUME NEW t \in TaskIds
             PROVE  /\ t \in Born' <=> t \in Born
                    /\ t \in Born => /\ tasks'[t].context = tasks[t].context
                                     /\ tasks'[t].assignee = tasks[t].assignee
  BY DEF UpdateStatuses, Born
<1>1. CASE t \in DOMAIN target /\ CanTransition(StateOf(t), target[t])
  <2>1. StateOf(t) \in Live /\ target[t] \in TaskState
    BY <1>1, TransitionStates
  <2>2. tasks[t] \in Task
    BY <2>1 DEF TaskTypeOK, NoTask, StateOf, Live, TaskState
  <2>3. tasks'[t] = [tasks[t] EXCEPT !.state = target[t]]
    BY <1>1 DEF UpdateStatuses
  <2>4. /\ tasks'[t].state = target[t] /\ tasks'[t].context = tasks[t].context
        /\ tasks'[t].assignee = tasks[t].assignee
    BY <2>2, <2>3 DEF Task
  <2> QED
    BY <2>1, <2>4 DEF Born, StateOf, Live, TaskState
<1>2. CASE ~(t \in DOMAIN target /\ CanTransition(StateOf(t), target[t]))
  BY <1>2 DEF UpdateStatuses, Born, StateOf
<1> QED
  BY <1>1, <1>2

(***************************************************************************)
(* ... and so is add_artifact.                                             *)
(***************************************************************************)
LEMMA ArtifactKeepsContexts ==
  ASSUME TaskTypeOK, NEW t \in TaskIds, AddArtifact(t)
  PROVE  /\ contextIndex' = contextIndex /\ Born' = Born
         /\ \A u \in Born : /\ tasks'[u].context = tasks[u].context
                            /\ tasks'[u].assignee = tasks[u].assignee
<1>1. tasks[t] \in Task
  BY DEF AddArtifact, TaskTypeOK, NoTask, StateOf, Live, TaskState
<1>2. /\ tasks'[t].state = tasks[t].state /\ tasks'[t].context = tasks[t].context
      /\ tasks'[t].assignee = tasks[t].assignee
      /\ \A u \in TaskIds \ {t} : tasks'[u] = tasks[u]
  BY <1>1 DEF AddArtifact, TaskTypeOK, Task
<1> QED
  BY <1>2 DEF AddArtifact, Born, StateOf

(***************************************************************************)
(* What a step of the nexus does to the task map: it creates one task, or  *)
(* leaves who is born, where and for whom.                                 *)
(***************************************************************************)
LEMMA StepsOfTasks ==
  ASSUME TypeOK, Next
  PROVE  \/ \E r \in Requests, t \in TaskIds : FinishSubmit(r, t)
         \/ /\ contextIndex' = contextIndex /\ Born' = Born
            /\ \A u \in Born : /\ tasks'[u].context = tasks[u].context
                               /\ tasks'[u].assignee = tasks[u].assignee
<1> DEFINE Kept == /\ contextIndex' = contextIndex /\ Born' = Born
                   /\ \A u \in Born : /\ tasks'[u].context = tasks[u].context
                                      /\ tasks'[u].assignee = tasks[u].assignee
<1>0. TaskTypeOK
  BY DEF TypeOK
<1>1. ASSUME UNCHANGED <<tasks, contextIndex>>
      PROVE  Kept
  BY <1>1 DEF Born, StateOf
<1>2. ASSUME NEW t \in TaskIds, NEW new, UpdateStatus(t, new)
      PROVE  Kept
  BY <1>0, <1>2, UpdateKeepsContexts DEF UpdateStatus
<1>3. ASSUME NEW t \in TaskIds, AddTaskArtifact(t)
      PROVE  Kept
  BY <1>0, <1>3, ArtifactKeepsContexts DEF AddTaskArtifact
<1>4. ASSUME NEW a \in AgentIds, FailTasksOf(a)
      PROVE  Kept
  <2> DEFINE inFlight == {t \in LiveTasks : tasks[t].assignee = a}
             target   == [t \in inFlight |-> HaltState(StateOf(t))]
  <2>1. UpdateStatuses(target)
    BY <1>4 DEF FailTasksOf
  <2>2. DOMAIN target \subseteq TaskIds
    BY DEF LiveTasks
  <2> HIDE DEF target
  <2> QED
    BY <1>0, <2>1, <2>2, UpdateKeepsContexts
<1>5. CASE ExpireTasks
  BY <1>0, <1>5, UpdateKeepsContexts DEF ExpireTasks, TypeOK
<1> HIDE DEF Kept
<1>6. CASE RequestNext
  BY <1>1, <1>2, <1>3, <1>6 DEF RequestNext, SubmitPinned, SubmitRouted, Resolve, UpdateTask,
     CancelTask, Cancel, Kept
<1>7. CASE WatchdogNext
  BY <1>1, <1>4, <1>5, <1>7 DEF WatchdogNext, WakeWatchdog, ScanAgents, FlipStale, ScanDeadlines,
     Scans, Kept
<1>8. CASE AgentNext \/ Tick
  BY <1>1, <1>8 DEF AgentNext, RegisterAgent, AgentHeartbeat, DeregisterAgent, RegistryStep, Tick,
     Kept
<1> QED
  BY <1>6, <1>7, <1>8 DEF Next, Kept

(***************************************************************************)
(* Every step keeps the index of contexts exact.                           *)
(***************************************************************************)
LEMMA StepContextIndex == TypeOK /\ ContextIndexExact /\ [Next]_vars => ContextIndexExact'
<1> SUFFICES ASSUME TypeOK, ContextIndexExact, [Next]_vars PROVE ContextIndexExact'
  OBVIOUS
<1>1. CASE UNCHANGED vars
  BY <1>1 DEF ContextIndexExact, Born, StateOf, vars
<1>2. ASSUME NEW r \in Requests, NEW t \in TaskIds, FinishSubmit(r, t)
      PROVE  ContextIndexExact'
  <2>1. request[r] \in Resolved
    BY <1>2 DEF FinishSubmit, TypeOK
  <2>2. request[r].context \in Contexts
    BY <2>1 DEF Resolved
  <2> QED
    BY <1>2, <2>2, CreateTaskIndex DEF FinishSubmit, TypeOK
<1> QED
  BY <1>1, <1>2, StepsOfTasks, SameContexts

(***************************************************************************)
(* The index of contexts lists each task once and under its own context,   *)
(* in every reachable state (task_manager.rs).                             *)
(***************************************************************************)
THEOREM ContextIndexCorrect == Spec => []ContextIndexExact
<1>1. Init => TypeOK /\ ContextIndexExact
  <2>1. Init => ContextIndexExact
    BY DEF Init, TaskInit, NoTask, ContextIndexExact, Born, StateOf
  <2> QED
    BY <2>1, InitType
<1>2. TypeOK /\ ContextIndexExact /\ [Next]_vars => TypeOK' /\ ContextIndexExact'
  BY StepType, StepContextIndex
<1> QED
  BY <1>1, <1>2, PTL DEF Spec

-----------------------------------------------------------------------------
(* Calls of tools: the inductive invariant *)

\* The tool a call has found is as it was found, or withdrawn.
FoundOrGone ==
  \A r \in Requests : invocation[r] # Idle =>
    \/ tools[invocation[r].tool] = Gone
    \/ tools[invocation[r].tool] =
         [name |-> invocation[r].name, provider |-> invocation[r].provider]

\* The submission of a call is for the provider of its tool.
SubmitsToProvider ==
  \A r \in Requests : invocation[r] # Idle /\ request[r] # Idle =>
    request[r].assignee = invocation[r].provider

InvokerInvariant ==
  /\ InvokerTypeOK
  /\ SweepInvariant
  /\ ToolIndexExact
  /\ FoundOrGone
  /\ SubmitsToProvider

(***************************************************************************)
(* The nexus makes a step of its own, or nothing of it changes.            *)
(***************************************************************************)
LEMMA NexusStep ==
  ASSUME InvokerNext
  PROVE  Next \/ NexusSame
<1>1. ASSUME NEW r \in Requests, NEW c \in Contexts, SubmitToolTask(r, c)
      PROVE  RequestNext
  BY <1>1 DEF SubmitToolTask, SubmitPinned, Connected, RequestNext
<1>2. ASSUME OtherRequest
      PROVE  RequestNext
  BY <1>2 DEF OtherRequest, RequestNext
<1>3. ASSUME NEW r \in Requests, NEW t \in TaskIds, FinishCall(r, t)
      PROVE  RequestNext
  BY <1>3 DEF FinishCall, RequestNext
<1> QED
  BY <1>1, <1>2, <1>3 DEF InvokerNext, LookUp, RunBuiltin, CheckProvider, RefuseToolTask, OfferTool,
     WithdrawTool, ToolStep, Next

(***************************************************************************)
(* So what is proved of the nexus alone holds under calls of tools.        *)
(***************************************************************************)
LEMMA NexusUnderCalls ==
  ASSUME TypeOK, SweepInvariant, InvokerNext
  PROVE  TypeOK' /\ SweepInvariant'
<1>1. CASE Next
  BY <1>1, StepType, StepSweep
<1>2. CASE NexusSame
  BY <1>2 DEF NexusSame, sweepVars, TypeOK, RegistryTypeOK, TaskTypeOK, SweepInvariant,
     NoWorkLeftBehind, StaleAgentsWereSilent, OrphanedWork, LiveTasks, StateOf, Connected,
     Disconnected
<1> QED
  BY <1>1, <1>2, NexusStep

(***************************************************************************)
(* The registry of tools keeps its types and its index; a tool that was    *)
(* found stays as it is until it is withdrawn (tools.rs).                  *)
(***************************************************************************)
LEMMA ToolsStep ==
  ASSUME ToolTypeOK, ToolIndexExact, InvokerNext
  PROVE  /\ ToolTypeOK' /\ ToolIndexExact'
         /\ \A k \in Tools : tools'[k] = tools[k] \/ tools'[k] = Gone
         /\ \A k \in ToolIds : tools[k] = Gone => tools'[k] = Gone
<1>1. CASE UNCHANGED toolVars
  BY <1>1 DEF toolVars, ToolTypeOK, ToolIndexExact, Tools
<1>2. \A k \in ToolIds : k \in Tools <=> tools[k] \in ToolInfo
  BY DEF ToolTypeOK, Tools, ToolInfo, NoInfo, Gone
<1>3. ASSUME NEW k \in ToolIds, NEW n \in ToolNames, NEW p \in ToolProvider, RegisterTool(k, n, p)
      PROVE  /\ ToolTypeOK' /\ ToolIndexExact'
             /\ \A j \in Tools : tools'[j] = tools[j] \/ tools'[j] = Gone
             /\ \A j \in ToolIds : tools[j] = Gone => tools'[j] = Gone
  <2>1. /\ tools'[k] = [name |-> n, provider |-> p] /\ tools'[k] \in ToolInfo
        /\ \A j \in ToolIds \ {k} : tools'[j] = tools[j]
        /\ toolIndex'[n] = k /\ toolIndex[n] = NoTool
        /\ \A m \in ToolNames \ {n} : toolIndex'[m] = toolIndex[m]
        /\ tools[k] = NoInfo
    BY <1>3 DEF RegisterTool, ToolTypeOK, ToolInfo, FindByName
  <2>2. ToolTypeOK'
    BY <1>3, <2>1 DEF RegisterTool, ToolTypeOK
  <2>3. k \notin Tools /\ Tools' = Tools \cup {k} /\ NoInfo # Gone
    BY <2>1 DEF Tools, ToolInfo, NoInfo, Gone
  <2>4. \A j \in Tools : tools[j].name \in ToolNames /\ tools[j].name # n
    BY <1>2, <2>1, ToolAssumption DEF ToolIndexExact, ToolInfo, Tools
  <2>5. ToolIndexExact'
    BY <2>1, <2>3, <2>4, ToolAssumption DEF ToolIndexExact, Tools
  <2> QED
    BY <2>1, <2>2, <2>3, <2>5 DEF Tools
<1>4. ASSUME NEW k \in ToolIds, DeregisterTool(k)
      PROVE  /\ ToolTypeOK' /\ ToolIndexExact'
             /\ \A j \in Tools : tools'[j] = tools[j] \/ tools'[j] = Gone
             /\ \A j \in ToolIds : tools[j] = Gone => tools'[j] = Gone
  <2>1. /\ k \in Tools /\ tools[k].name \in ToolNames
        /\ tools'[k] = Gone /\ \A j \in ToolIds \ {k} : tools'[j] = tools[j]
        /\ toolIndex'[tools[k].name] = NoTool
        /\ \A m \in ToolNames \ {tools[k].name} : toolIndex'[m] = toolIndex[m]
    BY <1>2, <1>4 DEF DeregisterTool, ToolTypeOK, ToolInfo
  <2>2. ToolTypeOK'
    BY <1>4, <2>1 DEF DeregisterTool, ToolTypeOK
  <2>3. Tools' = Tools \ {k}
    BY <2>1 DEF Tools
  <2>4. \A j \in Tools \ {k} : tools[j].name # tools[k].name
    BY <2>1 DEF ToolIndexExact
  <2>5. \A j \in Tools : tools[j].name \in ToolNames
    BY <1>2 DEF Tools, ToolInfo
  <2>6. ToolIndexExact'
    BY <2>1, <2>3, <2>4, <2>5 DEF ToolIndexExact, Tools
  <2> QED
    BY <2>1, <2>2, <2>6 DEF Tools
<1> QED
  BY <1>1, <1>3, <1>4 DEF InvokerNext, OfferTool, WithdrawTool, LookUp, RunBuiltin, CheckProvider,
     SubmitToolTask, RefuseToolTask, FinishCall

(***************************************************************************)
(* What a step does to the call of handler r: it goes on as it was found,  *)
(* it ends, or it has just found its tool.                                 *)
(***************************************************************************)
LEMMA StepsOfCalls ==
  ASSUME InvokerTypeOK, InvokerNext, NEW r \in Requests
  PROVE  \/ invocation'[r] = Idle
         \/ /\ invocation[r] # Idle /\ invocation'[r] # Idle
            /\ invocation'[r].tool = invocation[r].tool
            /\ invocation'[r].name = invocation[r].name
            /\ invocation'[r].provider = invocation[r].provider
            /\ \/ request'[r] = request[r]
               \/ request'[r].assignee = invocation[r].provider
         \/ \E n \in ToolNames : LookUp(r, n)
<1> DEFINE Goes == \/ invocation'[r] = Idle
                   \/ /\ invocation[r] # Idle /\ invocation'[r] # Idle
                      /\ invocation'[r].tool = invocation[r].tool
                      /\ invocation'[r].name = invocation[r].name
                      /\ invocation'[r].provider = invocation[r].provider
                      /\ \/ request'[r] = request[r]
                         \/ request'[r].assignee = invocation[r].provider
<1>1. /\ invocation[r] = Idle \/ invocation[r] \in Found
      /\ invocation \in [Requests -> Found \cup {Idle}] /\ DOMAIN request = Requests
  BY DEF InvokerTypeOK, TypeOK
<1>2. ASSUME invocation'[r] = invocation[r], request'[r] = request[r]
      PROVE  Goes
  BY <1>2
<1>3. ASSUME NEW q \in Requests, CheckProvider(q)
      PROVE  Goes
  <2>1. CASE q = r /\ invocation[r].provider \in Connected
    <3>1. invocation[r] \in Found /\ invocation'[r] = [invocation[r] EXCEPT !.at = "checked"]
      BY <1>1, <1>3, <2>1 DEF CheckProvider
    <3> QED
      BY <1>3, <2>1, <3>1 DEF CheckProvider, NexusSame, Found, Idle
  <2>2. CASE ~(q = r /\ invocation[r].provider \in Connected)
    BY <1>1, <1>3, <2>2 DEF CheckProvider, NexusSame
  <2> QED
    BY <2>1, <2>2
<1>4. ASSUME NEW q \in Requests, NEW c \in Contexts, SubmitToolTask(q, c)
      PROVE  Goes
  BY <1>1, <1>4 DEF SubmitToolTask, SubmitPinned, Resolve
<1>5. ASSUME NEW q \in Requests, RunBuiltin(q) \/ RefuseToolTask(q)
      PROVE  Goes
  BY <1>1, <1>5 DEF RunBuiltin, RefuseToolTask, NexusSame
<1>6. ASSUME NEW q \in Requests, NEW t \in TaskIds, FinishCall(q, t)
      PROVE  Goes
  BY <1>1, <1>6 DEF FinishCall, FinishSubmit
<1>7. ASSUME NEW q \in Requests, NEW n \in ToolNames, LookUp(q, n), q # r
      PROVE  Goes
  BY <1>1, <1>7 DEF LookUp, NexusSame
<1>8. ASSUME OtherRequest, UNCHANGED <<toolVars, invocation, toolName>>
      PROVE  Goes
  <2>1. ASSUME NEW q \in Requests, invocation[q] = Idle, NEW a, NEW c, NEW d, Resolve(q, a, c, d)
        PROVE  Goes
    BY <1>1, <1>8, <2>1 DEF Resolve
  <2> QED
    BY <1>2, <1>8, <2>1 DEF OtherRequest, SubmitPinned, SubmitRouted, UpdateTask, CancelTask,
       AddTaskArtifact, TaskStep
<1>9. ASSUME Tick \/ AgentNext \/ WatchdogNext, UNCHANGED <<toolVars, invocation, toolName>>
      PROVE  Goes
  BY <1>2, <1>9 DEF Tick, AgentNext, RegisterAgent, AgentHeartbeat, DeregisterAgent, RegistryStep,
     WatchdogNext, WakeWatchdog, ScanAgents, Scans, FlipStale, FailTasksOf, ScanDeadlines,
     ExpireTasks
<1>10. ASSUME ToolStep
       PROVE  Goes
  BY <1>2, <1>10 DEF ToolStep, NexusSame
<1> HIDE DEF Goes
<1>11. Goes \/ \E n \in ToolNames : LookUp(r, n)
  BY <1>3, <1>4, <1>5, <1>6, <1>7, <1>8, <1>9, <1>10 DEF InvokerNext, OfferTool, WithdrawTool
<1> QED
  BY <1>11 DEF Goes

(***************************************************************************)
(* A call that finds its tool knows the tool as it is, and its handler has *)
(* no other request under way (the first lock of invoke).                  *)
(***************************************************************************)
LEMMA CallFinds ==
  ASSUME InvokerInvariant, NEW r \in Requests, NEW n \in ToolNames, LookUp(r, n)
  PROVE  /\ invocation'[r] \in Found /\ request'[r] = Idle
         /\ tools'[invocation'[r].tool] =
              [name |-> invocation'[r].name, provider |-> invocation'[r].provider]
<1> DEFINE k == FindByName(n)
<1>0. DOMAIN invocation = Requests /\ ToolTypeOK /\ ToolIndexExact
  BY DEF InvokerInvariant, InvokerTypeOK
<1>1. \A j \in ToolIds : j \in Tools <=> tools[j] \in ToolInfo
  BY <1>0 DEF ToolTypeOK, Tools, ToolInfo, NoInfo, Gone
<1>2. k \in Tools /\ tools[k].name = n
  BY <1>0 DEF LookUp, ToolIndexExact, FindByName
<1>3. k \in ToolIds /\ tools[k] \in ToolInfo
  BY <1>1, <1>2 DEF Tools
<1>4. tools[k] = [name |-> n, provider |-> tools[k].provider] /\ tools[k].provider \in ToolProvider
  BY <1>2, <1>3 DEF ToolInfo
<1>5. invocation'[r] = [at |-> "found", tool |-> k, name |-> n, provider |-> tools[k].provider]
  BY <1>0 DEF LookUp
<1>6. UNCHANGED <<tools, request>> /\ request[r] = Idle
  BY DEF LookUp, NexusSame, toolVars
<1> HIDE DEF k
<1> QED
  BY <1>3, <1>4, <1>5, <1>6 DEF Found

(***************************************************************************)
(* The locals of the calls and the names of their tools keep their types.  *)
(***************************************************************************)
LEMMA CallsType ==
  ASSUME InvokerInvariant, InvokerNext
  PROVE  /\ invocation' \in [Requests -> Found \cup {Idle}]
         /\ toolName' \in [TaskIds -> ToolNames \cup {NoToolName}]
<1>1. /\ invocation \in [Requests -> Found \cup {Idle}]
      /\ toolName \in [TaskIds -> ToolNames \cup {NoToolName}]
  BY DEF InvokerInvariant, InvokerTypeOK
<1>2. ASSUME NEW r \in Requests, NEW n \in ToolNames, LookUp(r, n)
      PROVE  invocation' \in [Requests -> Found \cup {Idle}] /\ toolName' = toolName
  <2>1. invocation'[r] \in Found
    BY <1>2, CallFinds
  <2> QED
    BY <1>1, <1>2, <2>1 DEF LookUp
<1>3. ASSUME NEW r \in Requests, CheckProvider(r)
      PROVE  invocation' \in [Requests -> Found \cup {Idle}] /\ toolName' = toolName
  <2>1. invocation[r] \in Found
    BY <1>1, <1>3 DEF CheckProvider
  <2>2. [invocation[r] EXCEPT !.at = "checked"] \in Found
    BY <2>1 DEF Found
  <2> QED
    BY <1>1, <1>3, <2>2 DEF CheckProvider
<1>4. ASSUME NEW r \in Requests, NEW t \in TaskIds, FinishCall(r, t)
      PROVE  /\ invocation' \in [Requests -> Found \cup {Idle}]
             /\ toolName' \in [TaskIds -> ToolNames \cup {NoToolName}]
  <2>1. invocation[r] # Idle => invocation[r].name \in ToolNames
    BY <1>1 DEF Found
  <2> QED
    BY <1>1, <1>4, <2>1 DEF FinishCall
<1>5. ASSUME NEW r \in Requests, RunBuiltin(r) \/ RefuseToolTask(r)
      PROVE  invocation' \in [Requests -> Found \cup {Idle}] /\ toolName' = toolName
  BY <1>1, <1>5 DEF RunBuiltin, RefuseToolTask
<1> QED
  BY <1>1, <1>2, <1>3, <1>4, <1>5 DEF InvokerNext, SubmitToolTask, OfferTool, WithdrawTool, ToolStep

(***************************************************************************)
(* A step keeps the invariant.                                             *)
(***************************************************************************)
LEMMA StepInvoker ==
  ASSUME InvokerInvariant, InvokerNext
  PROVE  InvokerInvariant'
<1>1. /\ TypeOK' /\ SweepInvariant' /\ ToolTypeOK' /\ ToolIndexExact'
      /\ \A k \in Tools : tools'[k] = tools[k] \/ tools'[k] = Gone
      /\ \A k \in ToolIds : tools[k] = Gone => tools'[k] = Gone
  BY NexusUnderCalls, ToolsStep DEF InvokerInvariant, InvokerTypeOK
<1>2. InvokerTypeOK'
  BY <1>1, CallsType DEF InvokerTypeOK
<1>3. \A r \in Requests : invocation[r] # Idle => invocation[r] \in Found
  BY DEF InvokerInvariant, InvokerTypeOK
<1>4. ASSUME NEW r \in Requests, invocation[r] # Idle
      PROVE  \/ tools'[invocation[r].tool] = Gone
             \/ tools'[invocation[r].tool] =
                  [name |-> invocation[r].name, provider |-> invocation[r].provider]
  <2> DEFINE k == invocation[r].tool
             info == [name |-> invocation[r].name, provider |-> invocation[r].provider]
  <2>1. k \in ToolIds /\ info \in ToolInfo
    BY <1>3, <1>4 DEF Found, ToolInfo
  <2>2. tools[k] = Gone \/ tools[k] = info
    BY <1>4 DEF InvokerInvariant, FoundOrGone
  <2>3. tools[k] = info => k \in Tools
    BY <2>1 DEF Tools, ToolInfo, NoInfo, Gone
  <2> HIDE DEF k, info
  <2>4. tools'[k] = Gone \/ tools'[k] = info
    BY <1>1, <2>1, <2>2, <2>3
  <2> QED
    BY <2>4 DEF k, info
<1>5. ASSUME NEW r \in Requests, invocation'[r] # Idle
      PROVE  /\ \/ tools'[invocation'[r].tool] = Gone
                \/ tools'[invocation'[r].tool] =
                     [name |-> invocation'[r].name, provider |-> invocation'[r].provider]
             /\ request'[r] # Idle => request'[r].assignee = invocation'[r].provider
  <2>1. CASE \E n \in ToolNames : LookUp(r, n)
    BY <2>1, CallFinds
  <2>2. CASE ~ \E n \in ToolNames : LookUp(r, n)
    <3>1. /\ invocation[r] # Idle
          /\ invocation'[r].tool = invocation[r].tool
          /\ invocation'[r].name = invocation[r].name
          /\ invocation'[r].provider = invocation[r].provider
          /\ request'[r] = request[r] \/ request'[r].assignee = invocation[r].provider
      BY <1>5, <2>2, StepsOfCalls DEF InvokerInvariant
    <3> QED
      BY <1>4, <3>1 DEF InvokerInvariant, SubmitsToProvider
  <2> QED
    BY <2>1, <2>2
<1>6. FoundOrGone' /\ SubmitsToProvider'
  BY <1>5 DEF FoundOrGone, SubmitsToProvider
<1> QED
  BY <1>1, <1>2, <1>6 DEF InvokerInvariant

(***************************************************************************)
(* The invariant holds in every reachable state.                           *)
(***************************************************************************)
LEMMA InvokerIsInvariant == InvokerSpec => []InvokerInvariant
<1>1. InvokerInit => InvokerInvariant
  <2> SUFFICES ASSUME InvokerInit PROVE InvokerInvariant
    OBVIOUS
  <2>1. TypeOK /\ SweepInvariant
    BY InitType, InitSweep DEF InvokerInit
  <2>2. InvokerTypeOK
    BY <2>1 DEF InvokerInit, ToolInit, InvokerTypeOK, ToolTypeOK
  <2>3. Tools = {}
    BY DEF InvokerInit, ToolInit, Tools
  <2>4. ToolIndexExact
    BY <2>3 DEF InvokerInit, ToolInit, ToolIndexExact
  <2>5. FoundOrGone /\ SubmitsToProvider
    BY DEF InvokerInit, FoundOrGone, SubmitsToProvider
  <2> QED
    BY <2>1, <2>2, <2>4, <2>5 DEF InvokerInvariant
<1>2. InvokerInvariant /\ [InvokerNext]_invokerVars => InvokerInvariant'
  <2> SUFFICES ASSUME InvokerInvariant, [InvokerNext]_invokerVars PROVE InvokerInvariant'
    OBVIOUS
  <2>1. CASE UNCHANGED invokerVars
    <3>1. TypeOK' /\ SweepInvariant'
      BY <2>1, StepType, StepSweep DEF invokerVars, InvokerInvariant, InvokerTypeOK
    <3>2. InvokerTypeOK'
      BY <2>1, <3>1 DEF invokerVars, toolVars, InvokerInvariant, InvokerTypeOK, ToolTypeOK
    <3>3. ToolIndexExact' /\ FoundOrGone' /\ SubmitsToProvider'
      BY <2>1 DEF invokerVars, vars, toolVars, InvokerInvariant, ToolIndexExact, Tools, FoundOrGone,
         SubmitsToProvider
    <3> QED
      BY <3>1, <3>2, <3>3 DEF InvokerInvariant
  <2> QED
    BY <2>1, StepInvoker
<1> QED
  BY <1>1, <1>2, PTL DEF InvokerSpec

-----------------------------------------------------------------------------
(* The theorems *)

(***************************************************************************)
(* Also while tools are called, the work of a lost agent is about to be    *)
(* halted or was created too late (tool_invoker.rs submits through the     *)
(* same facade).                                                           *)
(***************************************************************************)
THEOREM CallsLeaveNoWorkBehind == InvokerSpec => []NoWorkLeftBehind
<1>1. InvokerInvariant => NoWorkLeftBehind
  BY DEF InvokerInvariant, SweepInvariant
<1> QED
  BY <1>1, InvokerIsInvariant, PTL

(***************************************************************************)
(* The task of a call is for the agent that offers the tool at this        *)
(* moment, or the tool was withdrawn while the call ran (invoke).          *)
(***************************************************************************)
THEOREM CallsReachTheirProvider == InvokerSpec => ToolTasksReachTheirProvider
<1> DEFINE Reached ==
      \A t \in Born' \ Born, r \in Requests :
        invocation[r] # Idle /\ invocation'[r] = Idle /\ toolName'[t] # NoToolName =>
          \/ /\ FindByName(toolName'[t]) # NoTool
             /\ tools[FindByName(toolName'[t])].provider = tasks'[t].assignee
          \/ tools[invocation[r].tool] = Gone
<1>1. ASSUME InvokerInvariant, InvokerNext
      PROVE  Reached
  <2> SUFFICES ASSUME NEW t \in Born' \ Born, NEW r \in Requests,
                      invocation[r] # Idle, invocation'[r] = Idle,
                      tools[invocation[r].tool] # Gone
               PROVE  /\ FindByName(toolName'[t]) # NoTool
                      /\ tools[FindByName(toolName'[t])].provider = tasks'[t].assignee
    OBVIOUS
  <2>1. /\ TypeOK /\ ToolIndexExact
        /\ invocation \in [Requests -> Found \cup {Idle}] /\ DOMAIN toolName = TaskIds
    BY <1>1 DEF InvokerInvariant, InvokerTypeOK
  <2>2. PICK q \in Requests, u \in TaskIds : FinishCall(q, u)
    <3>1. invocation' # invocation /\ tasks' # tasks
      BY DEF Born, StateOf
    <3> QED
      BY <1>1, <3>1 DEF InvokerNext, LookUp, RunBuiltin, CheckProvider, SubmitToolTask,
         RefuseToolTask, OfferTool, WithdrawTool, ToolStep, NexusSame
  <2>3. q = r /\ u = t
    BY <2>1, <2>2 DEF FinishCall, FinishSubmit, CreateTask, Born, StateOf, TypeOK, TaskTypeOK
  <2>4. /\ toolName'[t] = invocation[r].name
        /\ request[r] # Idle /\ tasks'[t].assignee = request[r].assignee
    BY <2>1, <2>2, <2>3 DEF FinishCall, FinishSubmit, CreateTask, TypeOK, TaskTypeOK
  <2>5. request[r].assignee = invocation[r].provider
    BY <1>1, <2>4 DEF InvokerInvariant, SubmitsToProvider
  <2> DEFINE k == invocation[r].tool
  <2>6. /\ k \in ToolIds
        /\ tools[k] = [name |-> invocation[r].name, provider |-> invocation[r].provider]
    BY <1>1, <2>1 DEF InvokerInvariant, FoundOrGone, Found
  <2>7. k \in Tools
    BY <2>6 DEF Tools, NoInfo, Gone
  <2>8. toolIndex[invocation[r].name] = k
    BY <2>1, <2>6, <2>7 DEF ToolIndexExact
  <2> QED
    BY <2>4, <2>5, <2>6, <2>8, ToolAssumption DEF FindByName
<1>2. InvokerInvariant /\ [InvokerNext]_invokerVars => [Reached]_invokerVars
  BY <1>1
<1> QED
  BY <1>2, InvokerIsInvariant, PTL DEF InvokerSpec, ToolTasksReachTheirProvider

=============================================================================
