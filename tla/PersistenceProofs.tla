-------------------------- MODULE PersistenceProofs --------------------------
(***************************************************************************)
(* Proofs about Persistence: the nexus through any number of snapshots,    *)
(* orderly stops, crashes and restarts.                                    *)
(***************************************************************************)
EXTENDS Persistence, NexusProofs, FiniteSetTheorems

-----------------------------------------------------------------------------
(* The inductive invariant *)

\* A task of "ts" is for an agent that "as" knows.
Known(as, ts) ==
  \A t \in TaskIds : ts[t].state # "Unborn" /\ ts[t].assignee # NoAgent =>
    as[ts[t].assignee].status # "Unregistered"

\* No two registered agents of "as" have one name.
NamesDiffer(as) ==
  \A a, b \in AgentIds :
    /\ as[a].status \in {"Connected", "Disconnected"}
    /\ as[b].status \in {"Connected", "Disconnected"}
    /\ NameOf[a] = NameOf[b]
    => a = b

\* An image a start can rely on.
Sound(image) ==
  image \in Image /\ NamesDiffer(image.agents) /\ Known(image.agents, image.tasks)

\* A submission that is under way has resolved its assignee.
RequestsKnown ==
  \A r \in Requests : request[r] # Idle /\ request[r].assignee # NoAgent =>
    agents[request[r].assignee].status # "Unregistered"

\* A sweep has stale agents to treat in its phases 2 and 3 only.
StaleInPhase == stale # {} => phase \in {"flip", "fail"}

MemoryInvariant ==
  /\ TypeOK
  /\ NameIndexExact
  /\ ContextIndexExact
  /\ Known(agents, tasks)
  /\ RequestsKnown
  /\ StaleInPhase

\* A save under way.
Taken == [at : {"taken"} \cup Open, image : Image]

\* What no straggler has changed is in the image as it is in memory.
Agrees(image, memory, changed) ==
  /\ \A a \in AgentIds \ changed : image.agents[a] = memory.agents[a]
  /\ \A t \in TaskIds \ changed : image.tasks[t] = memory.tasks[t]

FilesInvariant ==
  /\ disk = Nothing \/ disk = Torn \/ (disk.at = "saved" /\ Sound(disk.image))
  /\ save = [w \in Writers |-> save[w]]
  /\ \A w \in Writers :
       save[w] = Nothing \/ (save[w] \in Taken /\ Sound(save[w].image))
  /\ \A w \in Writers : save[w].at = "writing" => save[Other(w)].at \notin Open
  /\ save["shutdown"] # Nothing <=> daemon = "stopping"
  /\ save["shutdown"] # Nothing => Agrees(save["shutdown"].image, Memory, unsaved)
  /\ daemon = "down" => save = NoSaves

DaemonInvariant ==
  /\ daemon \in {"up", "stopping", "ending", "down"}
  /\ orderly \in BOOLEAN
  /\ unsaved \subseteq AgentIds \cup TaskIds
  /\ orphaned \subseteq TaskIds
  /\ minted \subseteq AgentIds \cup TaskIds
  /\ daemon = "down" => \A r \in Requests : request[r] = Idle
  /\ orderly => /\ daemon \in {"ending", "down"}
                /\ disk.at = "saved" /\ Agrees(disk.image, Memory, unsaved)
                /\ save["timer"].at \notin Open

\* Work of a lost agent that no sweep is about to halt and no race explains.
Stranded ==
  {t \in OrphanedWork :
     t \notin late /\ ~(phase = "fail" /\ tasks[t].assignee \in stale)}

\* The work of lost agents in an image is known as such.
Explained(image, known) ==
  \A t \in TaskIds :
    image.tasks[t].state \in Live /\ image.tasks[t].assignee \in AgentIds =>
      \/ image.agents[image.tasks[t].assignee].status # "Disconnected"
      \/ t \in known

OrphanInvariant ==
  /\ daemon # "down" => Stranded \subseteq orphaned
  /\ disk.at = "saved" => Explained(disk.image, late \cup orphaned)
  /\ \A w \in Writers : save[w] # Nothing => Explained(save[w].image, late \cup orphaned)

PersistenceInvariant ==
  MemoryInvariant /\ FilesInvariant /\ DaemonInvariant /\ OrphanInvariant

(***************************************************************************)
(* An exact name index leaves no two agents one name.                      *)
(***************************************************************************)
LEMMA MemoryIsSound ==
  ASSUME MemoryInvariant
  PROVE  Sound(Memory)
<1>1. Memory \in Image
  BY DEF MemoryInvariant, TypeOK, RegistryTypeOK, TaskTypeOK, Memory, Image
<1>2. NamesDiffer(agents)
  BY DEF MemoryInvariant, NameIndexExact, Registered, NamesDiffer
<1> QED
  BY <1>1, <1>2 DEF Sound, Memory, MemoryInvariant

-----------------------------------------------------------------------------
(* The nexus at work *)

(***************************************************************************)
(* An agent the registry has known is never unknown again, as long as the  *)
(* process runs (registry.rs).                                             *)
(***************************************************************************)
LEMMA AgentsStayKnown ==
  ASSUME TypeOK, Next
  PROVE  \A a \in AgentIds : agents[a].status # "Unregistered" => agents'[a].status # "Unregistered"
<1>0. agents \in [AgentIds -> AgentInfo]
  BY DEF TypeOK, RegistryTypeOK
<1>1. CASE AgentNext
  BY <1>0, <1>1 DEF AgentNext, RegisterAgent, AgentHeartbeat, DeregisterAgent, Register, Heartbeat,
     Deregister
<1>2. CASE RequestNext \/ Tick
  BY <1>2 DEF RequestNext, SubmitPinned, SubmitRouted, Resolve, FinishSubmit, UpdateTask,
     CancelTask, AddTaskArtifact, TaskStep, Tick
<1>3. CASE WatchdogNext
  <2>1. CASE FlipStale
    BY <1>0, <2>1 DEF FlipStale, MarkDisconnected, AgentInfo
  <2> QED
    BY <1>3, <2>1 DEF WatchdogNext, WakeWatchdog, ScanAgents, Scans, FailTasksOf, ScanDeadlines,
       ExpireTasks
<1> QED
  BY <1>1, <1>2, <1>3 DEF Next

(***************************************************************************)
(* A submission resolves to an agent that is connected, or to none         *)
(* (submit_task_with_deadline, select_agent).                              *)
(***************************************************************************)
LEMMA RequestsStayKnown ==
  ASSUME TypeOK, RequestsKnown, Next
  PROVE  RequestsKnown'
<1>1. \A r \in Requests : request[r] \in Resolved \cup {Idle}
  BY DEF TypeOK
<1>2. \A r \in Requests : request[r] # Idle => request[r].assignee \in AgentIds \cup {NoAgent}
  BY <1>1 DEF Resolved, AgentRef
<1>3. ASSUME NEW r \in Requests,
             \/ request'[r] = request[r]
             \/ request'[r] = Idle
             \/ request'[r].assignee \in Connected \cup {NoAgent} /\ agents' = agents
      PROVE  request'[r] # Idle /\ request'[r].assignee # NoAgent =>
               agents'[request'[r].assignee].status # "Unregistered"
  <2>1. CASE request'[r] = request[r]
    BY <1>2, <2>1, AgentsStayKnown DEF RequestsKnown
  <2>2. CASE request'[r].assignee \in Connected \cup {NoAgent} /\ agents' = agents
    BY <2>2 DEF Connected
  <2> QED
    BY <1>3, <2>1, <2>2
<1>4. ASSUME NEW r \in Requests, NEW c, NEW d, NEW a \in Connected \cup {NoAgent}, Resolve(r, a, c, d)
      PROVE  RequestsKnown'
  <2>1. \A q \in Requests : \/ request'[q] = request[q]
                            \/ request'[q].assignee \in Connected \cup {NoAgent} /\ agents' = agents
    BY <1>4 DEF Resolve, TypeOK
  <2> QED
    BY <1>3, <2>1 DEF RequestsKnown
<1>5. ASSUME NEW r \in Requests, NEW t \in TaskIds, FinishSubmit(r, t)
      PROVE  RequestsKnown'
  <2>1. \A q \in Requests : request'[q] = request[q] \/ request'[q] = Idle
    BY <1>5 DEF FinishSubmit, TypeOK
  <2> QED
    BY <1>3, <2>1 DEF RequestsKnown
<1>6. ASSUME request' = request
      PROVE  RequestsKnown'
  BY <1>3, <1>6 DEF RequestsKnown
<1>7. ASSUME NEW r \in Requests, NEW c, NEW d, NEW required, SubmitRouted(r, required, c, d)
      PROVE  RequestsKnown'
  BY <1>4, <1>7 DEF SubmitRouted, SelectAgent, Eligible
<1>8. CASE RequestNext
  BY <1>4, <1>5, <1>6, <1>7, <1>8 DEF RequestNext, SubmitPinned, UpdateTask, CancelTask,
     AddTaskArtifact, TaskStep
<1>9. CASE AgentNext \/ WatchdogNext \/ Tick
  BY <1>6, <1>9 DEF AgentNext, RegisterAgent, AgentHeartbeat, DeregisterAgent, RegistryStep,
     WatchdogNext, WakeWatchdog, ScanAgents, Scans, FlipStale, FailTasksOf, ScanDeadlines,
     ExpireTasks, Tick
<1> QED
  BY <1>8, <1>9 DEF Next

(***************************************************************************)
(* A task is created for the assignee its submission has resolved, and     *)
(* keeps it.                                                               *)
(***************************************************************************)
LEMMA TasksStayKnown ==
  ASSUME TypeOK, Known(agents, tasks), RequestsKnown, Next
  PROVE  Known(agents, tasks)'
<1>1. \A t \in Born : tasks[t].assignee \in AgentIds \cup {NoAgent}
  BY DEF TypeOK, TaskTypeOK, Born, StateOf, NoTask, Task, AgentRef
<1>2. \A t \in Born : tasks[t].assignee # NoAgent => agents'[tasks[t].assignee].status # "Unregistered"
  BY <1>1, AgentsStayKnown DEF Known, Born, StateOf
<1>3. ASSUME NEW r \in Requests, NEW t \in TaskIds, FinishSubmit(r, t)
      PROVE  Known(agents, tasks)'
  <2>1. /\ tasks'[t].assignee = request[r].assignee /\ request[r] # Idle /\ agents' = agents
        /\ \A u \in TaskIds \ {t} : tasks'[u] = tasks[u]
    BY <1>3 DEF FinishSubmit, CreateTask, TypeOK, TaskTypeOK
  <2>2. tasks'[t].assignee # NoAgent => agents'[tasks'[t].assignee].status # "Unregistered"
    BY <2>1 DEF RequestsKnown
  <2>3. \A u \in TaskIds \ {t} : tasks'[u].state # "Unborn" /\ tasks'[u].assignee # NoAgent =>
          agents'[tasks'[u].assignee].status # "Unregistered"
    BY <2>1 DEF Known
  <2> QED
    BY <2>2, <2>3 DEF Known
<1>4. ASSUME Born' = Born, \A u \in Born : tasks'[u].assignee = tasks[u].assignee
      PROVE  Known(agents, tasks)'
  BY <1>2, <1>4 DEF Known, Born, StateOf
<1> QED
  BY <1>3, <1>4, StepsOfTasks

(***************************************************************************)
(* Only phase 1 of a sweep finds stale agents, and phase 4 begins when     *)
(* there are none left (watchdog.rs).                                      *)
(***************************************************************************)
LEMMA StaleStaysInPhase ==
  ASSUME StaleInPhase, Next
  PROVE  StaleInPhase'
<1>1. CASE AgentNext \/ RequestNext \/ Tick
  BY <1>1 DEF AgentNext, RegisterAgent, AgentHeartbeat, DeregisterAgent, RegistryStep, RequestNext,
     SubmitPinned, SubmitRouted, Resolve, FinishSubmit, UpdateTask, CancelTask, AddTaskArtifact,
     TaskStep, Tick, sweepVars, StaleInPhase
<1>2. CASE WatchdogNext
  BY <1>2 DEF WatchdogNext, WakeWatchdog, ScanAgents, FlipStale, FailTasksOf, ScanDeadlines,
     ExpireTasks, StaleInPhase
<1> QED
  BY <1>1, <1>2 DEF Next

(***************************************************************************)
(* A step of the nexus keeps what holds in memory.                         *)
(***************************************************************************)
LEMMA MemoryStep ==
  ASSUME MemoryInvariant, Next
  PROVE  MemoryInvariant'
BY StepType, StepNameIndex, StepContextIndex, TasksStayKnown, RequestsStayKnown, StaleStaysInPhase
DEF MemoryInvariant

-----------------------------------------------------------------------------
(* Work of lost agents *)

(***************************************************************************)
(* A step that orphans no work, forgets no late task and leaves the sweep  *)
(* where it is strands none.                                               *)
(***************************************************************************)
LEMMA NoneStranded ==
  ASSUME \A t \in OrphanedWork' : t \in OrphanedWork /\ tasks'[t].assignee = tasks[t].assignee,
         late \subseteq late', phase' = phase, stale' = stale
  PROVE  Stranded' \subseteq Stranded
  BY DEF Stranded

(***************************************************************************)
(* Submissions mark what they create for a lost agent as late, and no      *)
(* other request orphans work (task_facade.rs, task_manager.rs).           *)
(***************************************************************************)
LEMMA RequestsStrandNone ==
  ASSUME TypeOK, RequestNext
  PROVE  Stranded' \subseteq Stranded /\ late \subseteq late'
<1>1. UNCHANGED <<agents, clock, phase, sweepNow, stale>> /\ late \subseteq late'
  BY DEF RequestNext, SubmitPinned, SubmitRouted, Resolve, FinishSubmit, UpdateTask, CancelTask,
         AddTaskArtifact, TaskStep, sweepVars
<1>2. ASSUME NEW r \in Requests, NEW t \in TaskIds, FinishSubmit(r, t)
      PROVE  Stranded' \subseteq Stranded
  <2>1. /\ tasks'[t].assignee = request[r].assignee
        /\ \A u \in TaskIds \ {t} : tasks'[u] = tasks[u]
        /\ request[r].assignee \in Disconnected => t \in late'
    BY <1>2, IdAssumption
       DEF FinishSubmit, CreateTask, TypeOK, TaskTypeOK, Disconnected, Connected
  <2>2. ASSUME NEW u \in OrphanedWork', u # t
        PROVE  u \in OrphanedWork /\ tasks'[u].assignee = tasks[u].assignee
    BY <1>1, <2>1, <2>2 DEF OrphanedWork, LiveTasks, StateOf, Disconnected
  <2>3. t \in OrphanedWork' => t \in late'
    BY <1>1, <2>1 DEF OrphanedWork, Disconnected
  <2> QED
    BY <1>1, <2>2, <2>3 DEF Stranded
<1>3. ASSUME NEW t \in TaskIds, NEW new, UpdateStatus(t, new)
      PROVE  Stranded' \subseteq Stranded
  <2>1. \A u \in LiveTasks' : u \in LiveTasks /\ tasks'[u].assignee = tasks[u].assignee
    BY <1>3, UpdateStatusesTasks DEF UpdateStatus, TypeOK
  <2> QED
    BY <1>1, <2>1, NoneStranded DEF OrphanedWork, Disconnected
<1>4. ASSUME NEW t \in TaskIds, AddTaskArtifact(t)
      PROVE  Stranded' \subseteq Stranded
  <2>1. tasks[t] \in Task
    BY <1>4 DEF AddTaskArtifact, AddArtifact, TypeOK, TaskTypeOK, NoTask, StateOf, Live, TaskState
  <2>2. \A u \in TaskIds : tasks'[u].state = tasks[u].state /\ tasks'[u].assignee = tasks[u].assignee
    BY <1>4, <2>1 DEF AddTaskArtifact, AddArtifact, TypeOK, TaskTypeOK, Task
  <2> QED
    BY <1>1, <2>2, NoneStranded DEF OrphanedWork, LiveTasks, StateOf, Disconnected
<1>5. ASSUME UNCHANGED tasks
      PROVE  Stranded' \subseteq Stranded
  BY <1>1, <1>5, NoneStranded DEF OrphanedWork, LiveTasks, StateOf, Disconnected
<1> QED
  BY <1>1, <1>2, <1>3, <1>4, <1>5
     DEF RequestNext, SubmitPinned, SubmitRouted, Resolve, UpdateTask, CancelTask, Cancel

(***************************************************************************)
(* A sweep that runs to its end strands nothing: what it orphans in phase  *)
(* 2 it halts in phase 3 (watchdog.rs).                                    *)
(***************************************************************************)
LEMMA SweepsStrandNone ==
  ASSUME TypeOK, StaleInPhase, WatchdogNext
  PROVE  Stranded' \subseteq Stranded /\ late' = late
<1>0. TaskTypeOK /\ RegistryTypeOK
  BY DEF TypeOK
<1>1. CASE WakeWatchdog \/ ScanAgents \/ ScanDeadlines
  <2>1. OrphanedWork' = OrphanedWork /\ UNCHANGED <<tasks, late>>
    BY <1>1 DEF WakeWatchdog, ScanAgents, ScanDeadlines, Scans, OrphanedWork, LiveTasks, StateOf,
       Disconnected
  <2>2. phase # "fail"
    BY <1>1 DEF WakeWatchdog, ScanAgents, ScanDeadlines
  <2> QED
    BY <2>1, <2>2 DEF Stranded
<1>2. CASE FlipStale
  <2>1. Disconnected' \subseteq Disconnected \cup stale
    BY <1>0, <1>2
       DEF FlipStale, MarkDisconnected, Disconnected, Connected, RegistryTypeOK, AgentInfo
  <2>2. \A t \in OrphanedWork' : t \in OrphanedWork \/ tasks[t].assignee \in stale
    BY <1>2, <2>1 DEF FlipStale, OrphanedWork, LiveTasks, StateOf
  <2> QED
    BY <1>2, <2>2 DEF FlipStale, Stranded
<1>3. ASSUME NEW a \in AgentIds, FailTasksOf(a)
      PROVE  Stranded' \subseteq Stranded /\ late' = late
  <2>1. \A t \in LiveTasks' : /\ t \in LiveTasks
                             /\ tasks'[t].assignee = tasks[t].assignee
                             /\ tasks'[t].assignee # a
    BY <1>0, <1>3, UpdateStatusesTasks, FailTasksOfAgent DEF FailTasksOf
  <2>2. \A t \in OrphanedWork' : /\ t \in OrphanedWork
                                /\ tasks'[t].assignee = tasks[t].assignee
                                /\ tasks'[t].assignee # a
    BY <1>3, <2>1 DEF FailTasksOf, OrphanedWork, Disconnected
  <2> QED
    BY <1>3, <2>2 DEF FailTasksOf, Stranded
<1>4. CASE ExpireTasks
  <2>1. \A t \in OrphanedWork' : t \in OrphanedWork /\ late' = late
    BY <1>0, <1>4, UpdateStatusesTasks DEF ExpireTasks, OrphanedWork, Disconnected
  <2> QED
    BY <1>4, <2>1 DEF ExpireTasks, Stranded
<1> QED
  BY <1>1, <1>2, <1>3, <1>4 DEF WatchdogNext, ExpireTasks

(***************************************************************************)
(* No step of the nexus strands work.                                      *)
(***************************************************************************)
LEMMA NexusStrandsNone ==
  ASSUME TypeOK, StaleInPhase, Next
  PROVE  Stranded' \subseteq Stranded /\ late \subseteq late'
<1>1. CASE AgentNext
  <2>1. PICK a \in AgentIds : RegisterAgent(a) \/ AgentHeartbeat(a) \/ DeregisterAgent(a)
    BY <1>1 DEF AgentNext
  <2>2. UNCHANGED <<tasks, late, phase, stale>> /\ Disconnected' \subseteq Disconnected
    BY <2>1 DEF RegisterAgent, AgentHeartbeat, DeregisterAgent, RegistryStep, Register, Heartbeat,
                Deregister, sweepVars, Disconnected, TypeOK, RegistryTypeOK
  <2> QED
    BY <2>2, NoneStranded DEF OrphanedWork, LiveTasks, StateOf
<1>2. CASE Tick
  BY <1>2, NoneStranded DEF Tick, sweepVars, OrphanedWork, LiveTasks, StateOf, Disconnected
<1> QED
  BY <1>1, <1>2, RequestsStrandNone, SweepsStrandNone DEF Next

-----------------------------------------------------------------------------
(* Starting *)

\* Both indices are right and well-typed after a restore.
Indexed ==
  /\ RegistryTypeOK
  /\ TaskTypeOK
  /\ NameIndexExact
  /\ ContextIndexExact

(***************************************************************************)
(* What a start finds, a snapshot or nothing, can be relied on             *)
(* (load_snapshot in state/mod.rs refuses everything else).                *)
(***************************************************************************)
LEMMA RestoredIsSound ==
  ASSUME FilesInvariant, disk # Torn
  PROVE  Sound(Restored)
<1>1. CASE disk = Nothing
  <2>1. /\ Restored.agents = [a \in AgentIds |-> [status |-> "Unregistered", heartbeat |-> 0]]
        /\ Restored.tasks = [t \in TaskIds |-> NoTask]
        /\ Restored \in Image
    BY <1>1 DEF Restored, Image, AgentInfo, AgentStatus
  <2> QED
    BY <2>1 DEF Sound, NamesDiffer, Known, NoTask
<1>2. CASE disk # Nothing
  BY <1>2 DEF FilesInvariant, Restored
<1> QED
  BY <1>1, <1>2

(***************************************************************************)
(* The restore of the registry rebuilds the index of the names.            *)
(***************************************************************************)
LEMMA RestoreAgentsIndex ==
  ASSUME NEW saved \in [AgentIds -> AgentInfo], NamesDiffer(saved), RestoreAgents(saved)
  PROVE  RegistryTypeOK' /\ NameIndexExact'
<1> DEFINE Named(n) == {a \in Registered' : NameOf[a] = n}
<1>1. agents' = saved /\ Registered' \subseteq AgentIds
  BY DEF RestoreAgents, Registered
<1>2. nameIndex' = [n \in Names |-> IF Named(n) # {} THEN CHOOSE a \in Registered' : NameOf[a] = n
                                                     ELSE NoAgent]
  BY DEF RestoreAgents
<1>3. \A n \in Names : /\ Named(n) = {} => nameIndex'[n] = NoAgent
                       /\ Named(n) # {} => nameIndex'[n] \in Named(n)
  BY <1>2
<1>4. nameIndex' \in [Names -> AgentRef]
  <2>1. \A n \in Names : nameIndex'[n] \in AgentRef
    BY <1>1, <1>3 DEF AgentRef
  <2> QED
    BY <1>2, <2>1
<1>5. \A a, b \in Registered' : NameOf[a] = NameOf[b] => a = b
  BY <1>1 DEF NamesDiffer, Registered
<1>6. \A a \in Registered' : NameOf[a] \in Names /\ a \in Named(NameOf[a])
  BY <1>1, RegistryAssumption
<1>7. \A a \in Registered' : nameIndex'[NameOf[a]] = a
  BY <1>3, <1>5, <1>6
<1> QED
  BY <1>1, <1>3, <1>4, <1>7 DEF RegistryTypeOK, NameIndexExact

(***************************************************************************)
(* The restore of the tasks rebuilds the index of the contexts.            *)
(***************************************************************************)
LEMMA RestoreTasksIndex ==
  ASSUME NEW saved \in [TaskIds -> Task \cup {NoTask}], RestoreTasks(saved)
  PROVE  TaskTypeOK' /\ ContextIndexExact'
<1> DEFINE held(c) == {t \in TaskIds : saved[t].state # "Unborn" /\ saved[t].context = c}
           listings == UNION {Listings(held(c)) : c \in Contexts}
<1>1. /\ tasks' = saved
      /\ contextIndex' \in [Contexts -> listings]
      /\ \A c \in Contexts : contextIndex'[c] \in Listings(held(c))
  BY DEF RestoreTasks
<1>2. \A c \in Contexts : held(c) = {t \in Born' : tasks'[t].context = c}
  BY <1>1 DEF Born, StateOf
<1> HIDE DEF held
<1>3. ASSUME NEW c \in Contexts
      PROVE  contextIndex'[c] \in Seq(TaskIds)
  <2>1. IsFiniteSet(held(c)) /\ held(c) \subseteq TaskIds
    BY PersistenceAssumption, FS_Subset DEF held
  <2>2. Cardinality(held(c)) \in Nat
    BY <2>1, FS_CardinalityType
  <2>3. contextIndex'[c] \in [1 .. Cardinality(held(c)) -> held(c)]
    BY <1>1 DEF Listings
  <2>4. contextIndex'[c] \in [1 .. Cardinality(held(c)) -> TaskIds]
    BY <2>1, <2>3
  <2> QED
    BY <2>2, <2>4
<1>4. TaskTypeOK'
  BY <1>1, <1>3 DEF TaskTypeOK
<1>5. \A c \in Contexts :
        /\ {contextIndex'[c][i] : i \in DOMAIN contextIndex'[c]} = held(c)
        /\ \A i, j \in DOMAIN contextIndex'[c] : contextIndex'[c][i] = contextIndex'[c][j] => i = j
  BY <1>1 DEF Listings
<1> QED
  BY <1>2, <1>4, <1>5 DEF ContextIndexExact

-----------------------------------------------------------------------------
(* The steps of the daemon *)

\* What a step of the storage or of the life of the process does to memory.
MemoryKept ==
  /\ UNCHANGED <<agents, nameIndex, tasks, contextIndex, clock, late>>
  /\ request' = request \/ request' = [r \in Requests |-> Idle]
  /\ \/ UNCHANGED sweepVars
     \/ phase' = "asleep" /\ sweepNow' = 0 /\ stale' = {} /\ expired' = NoneExpired

(***************************************************************************)
(* Such a step keeps what holds in memory.                                 *)
(***************************************************************************)
LEMMA KeptMemory ==
  ASSUME MemoryInvariant, MemoryKept
  PROVE  MemoryInvariant' /\ Memory' = Memory
<1>1. Memory' = Memory /\ (NameIndexExact /\ ContextIndexExact /\ Known(agents, tasks))'
  BY DEF MemoryKept, MemoryInvariant, Memory, NameIndexExact, ContextIndexExact, Registered, Born,
     StateOf, Known
<1>2. RequestsKnown' /\ request' \in [Requests -> Resolved \cup {Idle}]
  <2>1. CASE request' = request
    BY <2>1 DEF MemoryKept, MemoryInvariant, RequestsKnown, TypeOK
  <2>2. CASE request' = [r \in Requests |-> Idle]
    BY <2>2 DEF RequestsKnown
  <2> QED
    BY <2>1, <2>2 DEF MemoryKept
<1>3. TypeOK'
  <2>1. /\ phase' \in SweepPhase /\ sweepNow' \in Nat /\ stale' \subseteq AgentIds
        /\ DOMAIN expired' \subseteq TaskIds
        /\ expired' \in [DOMAIN expired' -> {"Rejected", "Failed"}]
    <3>1. CASE UNCHANGED sweepVars
      BY <3>1 DEF sweepVars, MemoryInvariant, TypeOK
    <3>2. CASE phase' = "asleep" /\ sweepNow' = 0 /\ stale' = {} /\ expired' = NoneExpired
      BY <3>2 DEF SweepPhase, NoneExpired
    <3> QED
      BY <3>1, <3>2 DEF MemoryKept
  <2>2. (RegistryTypeOK /\ TaskTypeOK)' /\ clock' \in Nat /\ late' \subseteq TaskIds
    BY DEF MemoryKept, MemoryInvariant, TypeOK, RegistryTypeOK, TaskTypeOK
  <2> QED
    BY <1>2, <2>1, <2>2 DEF TypeOK
<1>4. StaleInPhase'
  BY DEF MemoryKept, MemoryInvariant, StaleInPhase, sweepVars
<1> QED
  BY <1>1, <1>2, <1>3, <1>4 DEF MemoryInvariant

(***************************************************************************)
(* What is explained stays so.                                             *)
(***************************************************************************)
LEMMA StaysExplained ==
  ASSUME NEW image, NEW known, NEW more, known \subseteq more, Explained(image, known)
  PROVE  Explained(image, more)
  BY DEF Explained

(***************************************************************************)
(* A snapshot of the memory explains its work of lost agents by what is    *)
(* noted when it is taken.                                                 *)
(***************************************************************************)
LEMMA MemoryIsExplained ==
  ASSUME NEW known, OrphanedWork \subseteq known
  PROVE  Explained(Memory, known)
  BY DEF Explained, Memory, OrphanedWork, LiveTasks, StateOf, Disconnected

(***************************************************************************)
(* A step that leaves memory and the images alone, and notes no less,      *)
(* keeps them explained.                                                   *)
(***************************************************************************)
LEMMA OrphansStay ==
  ASSUME OrphanInvariant, late \subseteq late', orphaned \subseteq orphaned',
         daemon' # "down" => daemon # "down" /\ Stranded' \subseteq Stranded,
         disk'.at = "saved" =>
           Explained(disk'.image, late' \cup orphaned') \/ disk' = disk,
         \A w \in Writers : \/ save'[w] = Nothing
                            \/ save[w] # Nothing /\ save'[w].image = save[w].image
                            \/ Explained(save'[w].image, late' \cup orphaned')
  PROVE  OrphanInvariant'
<1>1. late \cup orphaned \subseteq late' \cup orphaned'
  OBVIOUS
<1>2. disk'.at = "saved" => Explained(disk'.image, late' \cup orphaned')
  BY <1>1, StaysExplained DEF OrphanInvariant
<1>3. ASSUME NEW w \in Writers, save'[w] # Nothing
      PROVE  Explained(save'[w].image, late' \cup orphaned')
  BY <1>1, <1>3, StaysExplained DEF OrphanInvariant
<1> QED
  BY <1>2, <1>3 DEF OrphanInvariant

(***************************************************************************)
(* A step of the storage leaves as much work stranded as there was.        *)
(***************************************************************************)
LEMMA SameStranded ==
  ASSUME UNCHANGED <<agents, tasks, late, phase, stale>>
  PROVE  Stranded' = Stranded
  BY DEF Stranded, OrphanedWork, LiveTasks, StateOf, Disconnected

(***************************************************************************)
(* The first process starts from nothing.                                  *)
(***************************************************************************)
LEMMA InitPersistence == PersistenceInit => PersistenceInvariant
<1> SUFFICES ASSUME PersistenceInit PROVE PersistenceInvariant
  OBVIOUS
<1>1. TypeOK /\ NameIndexExact
  BY InitType, InitNameIndex DEF PersistenceInit
<1>2. ContextIndexExact /\ Known(agents, tasks) /\ RequestsKnown /\ StaleInPhase
  BY DEF PersistenceInit, Init, TaskInit, NoTask, ContextIndexExact, Born, StateOf, Known,
     RequestsKnown, StaleInPhase
<1>3. FilesInvariant /\ DaemonInvariant
  BY DEF PersistenceInit, FilesInvariant, DaemonInvariant, Writers, NoSaves, Nothing
<1>4. OrphanInvariant
  <2>1. Stranded = {}
    <3>1. \A t \in TaskIds : StateOf(t) = "Unborn"
      BY DEF PersistenceInit, Init, TaskInit, NoTask, StateOf
    <3> QED
      BY <3>1 DEF Stranded, OrphanedWork, LiveTasks, Live, TaskState, Terminal
  <2>2. disk.at # "saved" /\ \A w \in Writers : save[w] = Nothing
    BY DEF PersistenceInit, NoSaves, Nothing
  <2> QED
    BY <2>1, <2>2 DEF OrphanInvariant
<1> QED
  BY <1>1, <1>2, <1>3, <1>4 DEF PersistenceInvariant, MemoryInvariant

(***************************************************************************)
(* Requests and sweeps touch memory only; what they change after the final *)
(* snapshot is noted as unsaved.                                           *)
(***************************************************************************)
LEMMA ServeStep ==
  ASSUME PersistenceInvariant, Serve
  PROVE  PersistenceInvariant'
<1>1. MemoryInvariant'
  BY MemoryStep DEF Serve, PersistenceInvariant
<1>2. daemon # "down" /\ UNCHANGED <<fileVars, daemon, orderly, orphaned>>
  BY DEF Serve
<1>3. ASSUME NEW image, daemon # "up", Agrees(image, Memory, unsaved)
      PROVE  Agrees(image, Memory', unsaved')
  <2>1. /\ unsaved \subseteq unsaved'
        /\ \A a \in AgentIds \ unsaved' : agents'[a] = agents[a]
        /\ \A t \in TaskIds \ unsaved' : tasks'[t] = tasks[t]
    BY <1>3 DEF Serve, Unsaved
  <2> QED
    BY <1>3, <2>1 DEF Agrees, Memory
<1>4. /\ save["shutdown"] # Nothing => daemon # "up"
      /\ orderly => daemon # "up"
  BY DEF PersistenceInvariant, FilesInvariant, DaemonInvariant
<1>5. FilesInvariant'
  BY <1>2, <1>3, <1>4 DEF fileVars, PersistenceInvariant, FilesInvariant
<1>6. minted' \subseteq AgentIds \cup TaskIds /\ unsaved' \subseteq AgentIds \cup TaskIds
  BY DEF Serve, Unsaved, PersistenceInvariant, DaemonInvariant, Born
<1>7. DaemonInvariant'
  BY <1>2, <1>3, <1>4, <1>6 DEF fileVars, PersistenceInvariant, DaemonInvariant
<1>8. OrphanInvariant'
  <2>1. Stranded' \subseteq Stranded /\ late \subseteq late'
    BY NexusStrandsNone DEF Serve, PersistenceInvariant, MemoryInvariant
  <2> QED
    BY <1>2, <2>1, OrphansStay DEF fileVars, PersistenceInvariant, OrphanInvariant
<1> QED
  BY <1>1, <1>5, <1>7, <1>8 DEF PersistenceInvariant

(***************************************************************************)
(* A snapshot is a copy of memory, taken at one moment: the timer's ...    *)
(***************************************************************************)
LEMMA TakeStep ==
  ASSUME PersistenceInvariant, TakeSnapshot
  PROVE  PersistenceInvariant'
<1>1. MemoryInvariant' /\ Memory' = Memory
  BY KeptMemory DEF TakeSnapshot, MemorySame, MemoryKept, PersistenceInvariant
<1>2. Sound(Memory) /\ Explained(Memory, late' \cup orphaned')
  BY MemoryIsSound, MemoryIsExplained DEF PersistenceInvariant, TakeSnapshot
<1>3. /\ save'["timer"] = [at |-> "taken", image |-> Memory]
      /\ save'["shutdown"] = save["shutdown"]
      /\ save' = [w \in Writers |-> save'[w]]
      /\ UNCHANGED <<daemon, disk, orderly, unsaved, minted, request>> /\ daemon # "down"
  BY DEF TakeSnapshot, MemorySame, Takes, PersistenceInvariant, FilesInvariant, Writers
<1>4. save'["timer"] \in Taken /\ Sound(save'["timer"].image)
  BY <1>2, <1>3 DEF Taken, Sound
<1>5. FilesInvariant'
  BY <1>1, <1>3, <1>4 DEF PersistenceInvariant, FilesInvariant, Writers, Other, Open
<1>6. DaemonInvariant'
  BY <1>1, <1>3 DEF TakeSnapshot, PersistenceInvariant, DaemonInvariant, OrphanedWork, LiveTasks, Open
<1>7. OrphanInvariant'
  <2>1. Stranded' = Stranded
    BY SameStranded DEF TakeSnapshot, MemorySame, sweepVars
  <2> QED
    BY <1>2, <1>3, <2>1, OrphansStay
       DEF TakeSnapshot, MemorySame, PersistenceInvariant, OrphanInvariant, Writers
<1> QED
  BY <1>1, <1>5, <1>6, <1>7 DEF PersistenceInvariant

(***************************************************************************)
(* ... and the final one, which agrees with the memory it copies.          *)
(***************************************************************************)
LEMMA StopStep ==
  ASSUME PersistenceInvariant, Stop
  PROVE  PersistenceInvariant'
<1>1. MemoryInvariant' /\ Memory' = Memory
  BY KeptMemory DEF Stop, MemorySame, MemoryKept, PersistenceInvariant
<1>2. Sound(Memory) /\ Explained(Memory, late' \cup orphaned') /\ Agrees(Memory, Memory, {})
  BY MemoryIsSound, MemoryIsExplained DEF PersistenceInvariant, Stop, Agrees
<1>3. /\ save'["shutdown"] = [at |-> "taken", image |-> Memory]
      /\ save'["timer"] = save["timer"]
      /\ save' = [w \in Writers |-> save'[w]]
      /\ daemon = "up" /\ daemon' = "stopping" /\ unsaved' = {}
      /\ UNCHANGED <<disk, orderly, minted, request>>
  BY DEF Stop, MemorySame, Takes, PersistenceInvariant, FilesInvariant, Writers
<1>4. save'["shutdown"] \in Taken /\ Sound(save'["shutdown"].image) /\ save'["shutdown"] # Nothing
  BY <1>2, <1>3 DEF Taken, Sound, Nothing
<1>5. FilesInvariant'
  BY <1>1, <1>2, <1>3, <1>4 DEF PersistenceInvariant, FilesInvariant, Writers, Other, Open
<1>6. DaemonInvariant'
  BY <1>3 DEF Stop, PersistenceInvariant, DaemonInvariant, OrphanedWork, LiveTasks
<1>7. OrphanInvariant'
  <2>1. Stranded' = Stranded
    BY SameStranded DEF Stop, MemorySame, sweepVars
  <2> QED
    BY <1>2, <1>3, <2>1, OrphansStay
       DEF Stop, MemorySame, PersistenceInvariant, OrphanInvariant, Writers
<1> QED
  BY <1>1, <1>5, <1>6, <1>7 DEF PersistenceInvariant

(***************************************************************************)
(* A save that opens the file leaves it torn, and nothing orderly is left. *)
(***************************************************************************)
LEMMA BeginStep ==
  ASSUME PersistenceInvariant, NEW w \in Writers, BeginWrite(w)
  PROVE  PersistenceInvariant'
<1>1. MemoryInvariant' /\ Memory' = Memory
  BY KeptMemory DEF BeginWrite, MemorySame, MemoryKept, PersistenceInvariant
<1>2. /\ save[w].at = "taken" /\ disk' = Torn /\ orderly' = FALSE
      /\ UNCHANGED <<daemon, unsaved, orphaned, minted, request, late>>
  BY DEF BeginWrite, Opens, MemorySame
<1>3. \A v \in Writers : save[v] = Nothing \/ (save[v] \in Taken /\ Sound(save[v].image))
  BY DEF PersistenceInvariant, FilesInvariant
<1>4. save' = [v \in Writers |->
                 IF save[Other(w)].at \in Open
                 THEN [save[v] EXCEPT !.at = "shared"]
                 ELSE IF v = w THEN [save[v] EXCEPT !.at = "writing"] ELSE save[v]]
  BY DEF BeginWrite, Opens
<1>5. ASSUME NEW v \in Writers
      PROVE  /\ save'[v] = Nothing <=> save[v] = Nothing
             /\ save[v] # Nothing => save'[v] \in Taken /\ save'[v].image = save[v].image
             /\ save[Other(w)].at \in Open => save'[v].at # "writing"
             /\ save[Other(w)].at \notin Open /\ v # w => save'[v] = save[v]
  <2>1. CASE save[Other(w)].at \in Open
    <3>1. save[v] \in Taken
      <4>1. save[w] # Nothing /\ save[Other(w)] # Nothing
        BY <1>2, <2>1 DEF Nothing, Open
      <4> QED
        BY <1>3, <4>1 DEF Writers, Other
    <3>2. save'[v] = [save[v] EXCEPT !.at = "shared"]
      BY <1>4, <2>1
    <3>3. save[v].at # "nothing" /\ save'[v].at # "nothing" /\ save'[v] \in Taken
          /\ save'[v].image = save[v].image /\ save'[v].at # "writing"
      BY <3>1, <3>2 DEF Taken, Open
    <3> QED
      BY <2>1, <3>3 DEF Nothing
  <2>2. CASE save[Other(w)].at \notin Open /\ v = w
    <3>1. save[v] \in Taken
      BY <1>2, <1>3, <2>2 DEF Nothing
    <3>2. save'[v] = [save[v] EXCEPT !.at = "writing"]
      BY <1>4, <2>2
    <3>3. save[v].at # "nothing" /\ save'[v].at # "nothing" /\ save'[v] \in Taken
          /\ save'[v].image = save[v].image
      BY <3>1, <3>2 DEF Taken, Open
    <3> QED
      BY <2>2, <3>3 DEF Nothing
  <2>3. CASE save[Other(w)].at \notin Open /\ v # w
    BY <1>3, <1>4, <2>3
  <2> QED
    BY <2>1, <2>2, <2>3
<1>6. save' = [v \in Writers |-> save'[v]]
  BY <1>4
<1>7. \A v \in Writers : save'[v].at = "writing" => save'[Other(v)].at \notin Open
  <2>1. CASE save[Other(w)].at \in Open
    BY <1>5, <2>1
  <2>2. CASE save[Other(w)].at \notin Open
    <3>1. save'[Other(w)] = save[Other(w)] /\ Other(w) # w /\ Other(w) \in Writers
      BY <1>5, <2>2 DEF Writers, Other
    <3>2. \A v \in Writers : v = w \/ v = Other(w)
      BY DEF Writers, Other
    <3> QED
      BY <2>2, <3>1, <3>2 DEF Open
  <2> QED
    BY <2>1, <2>2
<1>8. FilesInvariant'
  <2>1. \A v \in Writers : save'[v] = Nothing \/ (save'[v] \in Taken /\ Sound(save'[v].image))
    BY <1>3, <1>5
  <2>2. /\ save'["shutdown"] = Nothing <=> save["shutdown"] = Nothing
        /\ save["shutdown"] # Nothing => save'["shutdown"].image = save["shutdown"].image
    BY <1>5 DEF Writers
  <2>3. daemon # "down"
    BY <1>2 DEF PersistenceInvariant, FilesInvariant, NoSaves, Nothing
  <2> QED
    BY <1>1, <1>2, <1>6, <1>7, <2>1, <2>2, <2>3 DEF PersistenceInvariant, FilesInvariant
<1>9. DaemonInvariant'
  BY <1>2 DEF PersistenceInvariant, DaemonInvariant
<1>10. OrphanInvariant'
  <2>1. Stranded' = Stranded
    BY SameStranded DEF BeginWrite, MemorySame, sweepVars
  <2>2. disk'.at # "saved"
    BY <1>2 DEF Torn
  <2> QED
    BY <1>2, <1>5, <2>1, <2>2, OrphansStay DEF PersistenceInvariant
<1> QED
  BY <1>1, <1>8, <1>9, <1>10 DEF PersistenceInvariant

(***************************************************************************)
(* A save that completes leaves its image; one that had the file to itself *)
(* leaves nothing else, and if it was the final one, what it leaves is the *)
(* memory but for what stragglers have changed.                            *)
(***************************************************************************)
LEMMA EndStep ==
  ASSUME PersistenceInvariant, NEW w \in Writers, EndWrite(w)
  PROVE  PersistenceInvariant'
<1>1. MemoryInvariant' /\ Memory' = Memory
  BY KeptMemory DEF EndWrite, MemorySame, MemoryKept, PersistenceInvariant
<1>2. /\ save[w].at \in Open /\ save' = [save EXCEPT ![w] = Nothing]
      /\ disk' = [at |-> "saved", image |-> save[w].image] \/ disk' = Torn \/ disk' = disk
      /\ save[w].at = "writing" => disk' = [at |-> "saved", image |-> save[w].image]
      /\ daemon' = IF w = "shutdown" THEN "ending" ELSE daemon
      /\ orderly' = (w = "shutdown" /\ save[w].at = "writing")
      /\ UNCHANGED <<unsaved, orphaned, minted, request, late>>
  BY DEF EndWrite, Completes, Written, Over, MemorySame
<1>3. save[w] # Nothing /\ Sound(save[w].image) /\ Explained(save[w].image, late \cup orphaned)
  <2>1. save[w] # Nothing
    BY <1>2 DEF Nothing, Open
  <2> QED
    BY <2>1 DEF PersistenceInvariant, FilesInvariant, OrphanInvariant
<1>4. /\ save'[w] = Nothing /\ \A v \in Writers \ {w} : save'[v] = save[v]
      /\ save' = [v \in Writers |-> save'[v]]
  BY <1>2 DEF PersistenceInvariant, FilesInvariant
<1>5. daemon # "down" /\ daemon' # "down"
  BY <1>2, <1>3 DEF PersistenceInvariant, FilesInvariant, NoSaves
<1>6. FilesInvariant'
  <2>1. disk' = Nothing \/ disk' = Torn \/ (disk'.at = "saved" /\ Sound(disk'.image))
    BY <1>2, <1>3 DEF PersistenceInvariant, FilesInvariant
  <2>2. \A v \in Writers : save'[v].at = "writing" => save'[Other(v)].at \notin Open
    BY <1>4 DEF PersistenceInvariant, FilesInvariant, Writers, Other, Nothing, Open
  <2>3. save'["shutdown"] # Nothing <=> daemon' = "stopping"
    BY <1>2, <1>3, <1>4 DEF PersistenceInvariant, FilesInvariant, Writers
  <2>4. save'["shutdown"] # Nothing => save'["shutdown"] = save["shutdown"]
    BY <1>4 DEF Writers
  <2> QED
    BY <1>1, <1>2, <1>4, <1>5, <2>1, <2>2, <2>3, <2>4 DEF PersistenceInvariant, FilesInvariant
<1>7. DaemonInvariant'
  <2>1. orderly' => /\ daemon' = "ending" /\ disk'.at = "saved"
                    /\ Agrees(disk'.image, Memory', unsaved') /\ save'["timer"].at \notin Open
    <3> SUFFICES ASSUME w = "shutdown", save[w].at = "writing"
                 PROVE  /\ daemon' = "ending" /\ disk'.at = "saved"
                        /\ Agrees(disk'.image, Memory', unsaved') /\ save'["timer"].at \notin Open
      BY <1>2
    <3>1. Agrees(save[w].image, Memory, unsaved)
      BY <1>3 DEF PersistenceInvariant, FilesInvariant
    <3>2. save["timer"].at \notin Open /\ save'["timer"] = save["timer"]
      BY <1>4 DEF PersistenceInvariant, FilesInvariant, Writers, Other
    <3> QED
      BY <1>1, <1>2, <3>1, <3>2
  <2> QED
    BY <1>2, <1>5, <2>1 DEF PersistenceInvariant, DaemonInvariant
<1>8. OrphanInvariant'
  <2>1. Stranded' = Stranded
    BY SameStranded DEF EndWrite, MemorySame, sweepVars
  <2>2. disk'.at = "saved" => Explained(disk'.image, late' \cup orphaned') \/ disk' = disk
    BY <1>2, <1>3 DEF Torn
  <2>3. \A v \in Writers : save'[v] = Nothing \/ (save[v] # Nothing /\ save'[v].image = save[v].image)
    BY <1>4
  <2> QED
    BY <1>2, <1>5, <2>1, <2>2, <2>3, OrphansStay DEF PersistenceInvariant
<1> QED
  BY <1>1, <1>6, <1>7, <1>8 DEF PersistenceInvariant

(***************************************************************************)
(* A save that fails leaves the file as it is, and ends a shutdown.        *)
(***************************************************************************)
LEMMA FailStep ==
  ASSUME PersistenceInvariant, NEW w \in Writers, FailWrite(w)
  PROVE  PersistenceInvariant'
<1>1. MemoryInvariant' /\ Memory' = Memory
  BY KeptMemory DEF FailWrite, MemorySame, MemoryKept, PersistenceInvariant
<1>2. /\ save[w] # Nothing /\ save' = [save EXCEPT ![w] = Nothing]
      /\ daemon' = IF w = "shutdown" THEN "ending" ELSE daemon
      /\ UNCHANGED <<disk, orderly, unsaved, orphaned, minted, request, late>>
  BY DEF FailWrite, Fails, Over, MemorySame
<1>3. /\ save'[w] = Nothing /\ \A v \in Writers \ {w} : save'[v] = save[v]
      /\ save' = [v \in Writers |-> save'[v]]
  BY <1>2 DEF PersistenceInvariant, FilesInvariant
<1>4. daemon # "down" /\ daemon' # "down"
  BY <1>2 DEF PersistenceInvariant, FilesInvariant, NoSaves
<1>5. FilesInvariant'
  <2>1. \A v \in Writers : save'[v].at = "writing" => save'[Other(v)].at \notin Open
    BY <1>3 DEF PersistenceInvariant, FilesInvariant, Writers, Other, Nothing, Open
  <2>2. save'["shutdown"] # Nothing <=> daemon' = "stopping"
    BY <1>2, <1>3 DEF PersistenceInvariant, FilesInvariant, Writers
  <2>3. save'["shutdown"] # Nothing => save'["shutdown"] = save["shutdown"]
    BY <1>3 DEF Writers
  <2> QED
    BY <1>1, <1>2, <1>3, <1>4, <2>1, <2>2, <2>3 DEF PersistenceInvariant, FilesInvariant
<1>6. DaemonInvariant'
  <2>1. orderly => daemon' = daemon
    BY <1>2 DEF PersistenceInvariant, FilesInvariant, DaemonInvariant, Writers
  <2>2. save'["timer"].at \in Open => save["timer"].at \in Open
    BY <1>3 DEF Writers, Nothing, Open
  <2> QED
    BY <1>1, <1>2, <1>4, <2>1, <2>2 DEF PersistenceInvariant, DaemonInvariant
<1>7. OrphanInvariant'
  <2>1. Stranded' = Stranded
    BY SameStranded DEF FailWrite, MemorySame, sweepVars
  <2>2. \A v \in Writers : save'[v] = Nothing \/ (save[v] # Nothing /\ save'[v].image = save[v].image)
    BY <1>3
  <2> QED
    BY <1>2, <1>4, <2>1, <2>2, OrphansStay DEF PersistenceInvariant
<1> QED
  BY <1>1, <1>5, <1>6, <1>7 DEF PersistenceInvariant

(***************************************************************************)
(* The end of a process leaves the file as it is.                          *)
(***************************************************************************)
LEMMA EndsStep ==
  ASSUME PersistenceInvariant, Exit \/ Crash
  PROVE  PersistenceInvariant'
<1>1. MemoryInvariant' /\ Memory' = Memory
  BY KeptMemory DEF Exit, Crash, Ends, MemoryKept, PersistenceInvariant
<1>2. /\ daemon' = "down" /\ save' = NoSaves /\ request' = [r \in Requests |-> Idle]
      /\ orderly' = orderly \/ orderly' = FALSE
      /\ UNCHANGED <<disk, unsaved, orphaned, minted, late>>
  BY DEF Exit, Crash, Ends
<1>3. FilesInvariant'
  BY <1>1, <1>2 DEF PersistenceInvariant, FilesInvariant, NoSaves, Nothing, Writers
<1>4. DaemonInvariant'
  <2>1. save'["timer"].at \notin Open
    BY <1>2 DEF NoSaves, Nothing, Writers, Open
  <2> QED
    <3>1. CASE orderly' = orderly
      BY <1>1, <1>2, <2>1, <3>1 DEF PersistenceInvariant, DaemonInvariant
    <3>2. CASE orderly' = FALSE
      BY <1>2, <3>2 DEF PersistenceInvariant, DaemonInvariant
    <3> QED
      BY <1>2, <3>1, <3>2
<1>5. OrphanInvariant'
  BY <1>2, OrphansStay DEF PersistenceInvariant, NoSaves
<1> QED
  BY <1>1, <1>3, <1>4, <1>5 DEF PersistenceInvariant

(***************************************************************************)
(* A start finds an image it can rely on, whose work of lost agents is     *)
(* explained, and rebuilds both indices.                                   *)
(***************************************************************************)
LEMMA RestartStep ==
  ASSUME PersistenceInvariant, Restart
  PROVE  PersistenceInvariant'
<1>1. Sound(Restored) /\ RestoreAgents(Restored.agents) /\ RestoreTasks(Restored.tasks)
  BY RestoredIsSound DEF PersistenceInvariant, Restart
<1>2. /\ Restored.agents \in [AgentIds -> AgentInfo] /\ NamesDiffer(Restored.agents)
      /\ Restored.tasks \in [TaskIds -> Task \cup {NoTask}]
  BY <1>1 DEF Sound, Image
<1>3. RegistryTypeOK' /\ NameIndexExact' /\ TaskTypeOK' /\ ContextIndexExact'
  BY <1>1, <1>2, RestoreAgentsIndex, RestoreTasksIndex
<1>4. /\ agents' = Restored.agents /\ tasks' = Restored.tasks
      /\ UNCHANGED <<clock, request, sweepVars, late, disk, save, orphaned, minted>>
      /\ daemon = "down" /\ daemon' = "up" /\ orderly' = FALSE /\ unsaved' = {}
  BY <1>1 DEF RestoreAgents, RestoreTasks, Restart, fileVars
<1>5. Known(agents, tasks)' /\ RequestsKnown' /\ StaleInPhase'
  BY <1>1, <1>4 DEF Sound, Known, RequestsKnown, PersistenceInvariant, DaemonInvariant,
     MemoryInvariant, StaleInPhase, sweepVars
<1>6. TypeOK'
  BY <1>3, <1>4 DEF PersistenceInvariant, MemoryInvariant, TypeOK, sweepVars
<1>7. save["shutdown"] = Nothing
  BY <1>4 DEF PersistenceInvariant, FilesInvariant
<1>8. FilesInvariant' /\ DaemonInvariant'
  BY <1>4, <1>7 DEF PersistenceInvariant, FilesInvariant, DaemonInvariant
<1>9. OrphanInvariant'
  <2>1. Explained(Restored, late \cup orphaned)
    <3>1. CASE disk = Nothing
      BY <3>1 DEF Restored, Explained, NoTask, Live
    <3>2. CASE disk # Nothing
      BY <3>2 DEF Restart, Restored, PersistenceInvariant, FilesInvariant, OrphanInvariant
    <3> QED
      BY <3>1, <3>2
  <2>2. Stranded' \subseteq orphaned
    BY <1>4, <2>1 DEF Stranded, OrphanedWork, LiveTasks, StateOf, Disconnected, Explained
  <2> QED
    BY <1>4, <2>2 DEF PersistenceInvariant, OrphanInvariant
<1> QED
  BY <1>3, <1>5, <1>6, <1>8, <1>9 DEF PersistenceInvariant, MemoryInvariant

(***************************************************************************)
(* The invariant holds in every reachable state.                           *)
(***************************************************************************)
LEMMA PersistenceIsInvariant == PersistenceSpec => []PersistenceInvariant
<1>1. PersistenceInvariant /\ [PersistenceNext]_allVars => PersistenceInvariant'
  <2> SUFFICES ASSUME PersistenceInvariant, [PersistenceNext]_allVars
               PROVE  PersistenceInvariant'
    OBVIOUS
  <2>1. CASE UNCHANGED allVars
    <3>1. MemoryInvariant' /\ Memory' = Memory
      BY <2>1, KeptMemory DEF allVars, vars, MemoryKept, PersistenceInvariant
    <3>2. Stranded' = Stranded
      BY <2>1, SameStranded DEF allVars, vars, sweepVars
    <3>3. FilesInvariant' /\ DaemonInvariant'
      BY <2>1, <3>1 DEF allVars, vars, fileVars, daemonVars, PersistenceInvariant, FilesInvariant,
         DaemonInvariant
    <3>4. OrphanInvariant'
      BY <2>1, <3>2 DEF allVars, vars, fileVars, daemonVars, PersistenceInvariant, OrphanInvariant
    <3> QED
      BY <3>1, <3>3, <3>4 DEF PersistenceInvariant
  <2>2. CASE PersistenceNext
    BY <2>2, ServeStep, TakeStep, BeginStep, EndStep, FailStep, StopStep, EndsStep, RestartStep
       DEF PersistenceNext
  <2> QED
    BY <2>1, <2>2
<1> QED
  BY <1>1, InitPersistence, PTL DEF PersistenceSpec

-----------------------------------------------------------------------------
(* The theorems *)

(***************************************************************************)
(* Memory, the snapshot file and the images on their way to it are always  *)
(* well-formed, and a final save is under way just when the daemon is      *)
(* stopping (the shutdown path of server/mod.rs).                          *)
(***************************************************************************)
THEOREM PersistenceTypeCorrect == PersistenceSpec => []PersistenceTypeOK
<1>1. PersistenceInvariant => PersistenceTypeOK
  BY DEF PersistenceInvariant, MemoryInvariant, FilesInvariant, DaemonInvariant, Sound, Taken,
     FileTypeOK, PersistenceTypeOK
<1> QED
  BY <1>1, PersistenceIsInvariant, PTL

(***************************************************************************)
(* The indices by name and by context agree with the maps in every         *)
(* reachable state, across any number of restarts from any snapshot        *)
(* (the restore methods of registry.rs and task_manager.rs).               *)
(***************************************************************************)
THEOREM IndicesSurviveRestarts == PersistenceSpec => []IndicesExact
<1>1. PersistenceInvariant => IndicesExact
  BY DEF PersistenceInvariant, MemoryInvariant, IndicesExact
<1> QED
  BY <1>1, PersistenceIsInvariant, PTL

(***************************************************************************)
(* No task is for an agent the registry has never known, across any number *)
(* of crashes and restarts (to_snapshot in server/state.rs).               *)
(***************************************************************************)
THEOREM AssigneesStayKnown == PersistenceSpec => []AssigneeIsKnown
<1>1. PersistenceInvariant => AssigneeIsKnown
  BY DEF PersistenceInvariant, MemoryInvariant, Known, AssigneeIsKnown, Born, StateOf
<1> QED
  BY <1>1, PersistenceIsInvariant, PTL

(***************************************************************************)
(* Whatever crashes, stragglers, torn files and restarts there are, work   *)
(* of a lost agent that nobody is about to halt comes from the race of a   *)
(* submission or from a snapshot that cut a sweep in two (watchdog.rs,     *)
(* to_snapshot in server/state.rs).                                        *)
(***************************************************************************)
THEOREM OnlyRacesAndCutSweepsStrandWork == PersistenceSpec => []OnlyCutSweepsStrandWork
<1>1. PersistenceInvariant => OnlyCutSweepsStrandWork
  BY DEF PersistenceInvariant, OrphanInvariant, Stranded, OnlyCutSweepsStrandWork
<1> QED
  BY <1>1, PersistenceIsInvariant, PTL

(***************************************************************************)
(* The process that starts after an orderly stop, whose final save was     *)
(* complete and the last to touch the file, has every agent and task of    *)
(* its predecessor but for what stragglers changed after that save was     *)
(* taken (the shutdown path of server/mod.rs).                             *)
(***************************************************************************)
THEOREM OrderlyRestartLosesNothing == PersistenceSpec => OrderlyRestartKeepsAll
<1>1. PersistenceInvariant /\ [PersistenceNext]_allVars =>
        [daemon = "down" /\ daemon' = "up" /\ orderly =>
           /\ \A a \in AgentIds \ unsaved : agents'[a] = agents[a]
           /\ \A t \in TaskIds \ unsaved : tasks'[t] = tasks[t]]_allVars
  <2> SUFFICES ASSUME PersistenceInvariant, PersistenceNext, daemon = "down", daemon' = "up", orderly
               PROVE  /\ \A a \in AgentIds \ unsaved : agents'[a] = agents[a]
                      /\ \A t \in TaskIds \ unsaved : tasks'[t] = tasks[t]
    OBVIOUS
  <2>1. Restart
    <3>1. \A w \in Writers : save[w] = Nothing /\ save[w].at = "nothing"
      BY DEF PersistenceInvariant, FilesInvariant, NoSaves, Nothing
    <3>2. \A w \in Writers : ~BeginWrite(w) /\ ~EndWrite(w) /\ ~FailWrite(w)
      BY <3>1 DEF BeginWrite, Opens, EndWrite, Completes, FailWrite, Fails, Open
    <3> QED
      BY <3>2 DEF PersistenceNext, Serve, TakeSnapshot, Stop, Exit, Crash, Ends
  <2>2. disk.at = "saved" /\ Agrees(disk.image, Memory, unsaved)
    BY DEF PersistenceInvariant, DaemonInvariant
  <2>3. Restored = disk.image
    BY <2>2 DEF Restored, Nothing
  <2>4. agents' = Restored.agents /\ tasks' = Restored.tasks
    BY <2>1 DEF Restart, RestoreAgents, RestoreTasks
  <2> QED
    BY <2>2, <2>3, <2>4 DEF Agrees, Memory
<1> QED
  BY <1>1, PersistenceIsInvariant, PTL DEF PersistenceSpec, OrderlyRestartKeepsAll

=============================================================================
