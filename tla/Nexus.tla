------------------------------- MODULE Nexus --------------------------------
(***************************************************************************)
(* The core of the daemon: the agent registry, the task manager, the       *)
(* facade through which requests reach both (core/task_facade.rs), and the *)
(* watchdog that sweeps both (core/watchdog.rs).                           *)
(*                                                                         *)
(* Registry and task manager sit behind two separate RwLocks.  No request  *)
(* and no phase of a sweep holds both at once, so an action below is what  *)
(* one critical section does, and everything may happen in between: that   *)
(* is where submissions, heartbeats and sweeps race.                       *)
(***************************************************************************)
EXTENDS AgentRegistry, TaskManager

CONSTANTS Requests,    \* handlers of submissions running at the same time
          Timeout,     \* agents.timeout_secs, in clock ticks
          Deadlines,   \* the deadlines that submissions ask for
          MaxTime      \* bound: the clock stops here

ASSUME NexusAssumption ==
  /\ Timeout \in Nat
  /\ MaxTime \in Nat
  /\ Deadlines \subseteq Nat

VARIABLES clock,       \* Utc::now()
          request,     \* locals of each submission handler
          phase,       \* where the sweep is
          sweepNow,    \* the "now" of the sweep
          stale,       \* stale_ids that the sweep still has to treat
          expired,     \* task -> terminal state that the sweep wants for it
          late         \* history: tasks created when their assignee was not connected

sweepVars == <<phase, sweepNow, stale, expired>>

vars == <<agents, nameIndex, tasks, contextIndex, published,
          clock, request, sweepVars, late>>

Idle == [at |-> "idle"]

Resolved == [at : {"resolved"}, context : Contexts, assignee : AgentRef, deadline : Deadline]

NoneExpired == [t \in {} |-> "Failed"]

SweepPhase == {"asleep", "scan", "flip", "fail", "deadlines", "expire"}

TypeOK ==
  /\ RegistryTypeOK
  /\ TaskTypeOK
  /\ clock \in Nat
  /\ request \in [Requests -> Resolved \cup {Idle}]
  /\ phase \in SweepPhase
  /\ sweepNow \in Nat
  /\ stale \subseteq AgentIds
  /\ DOMAIN expired \subseteq TaskIds
  /\ expired \in [DOMAIN expired -> {"Rejected", "Failed"}]
  /\ late \subseteq TaskIds

Init ==
  /\ RegistryInit
  /\ TaskInit
  /\ published = {}
  /\ clock = 0
  /\ request = [r \in Requests |-> Idle]
  /\ phase = "asleep"
  /\ sweepNow = 0
  /\ stale = {}
  /\ expired = NoneExpired
  /\ late = {}

-----------------------------------------------------------------------------
(* Time, as far as anything depends on it *)

Tick ==
  /\ clock < MaxTime
  /\ clock' = clock + 1
  /\ Silent
  /\ UNCHANGED <<agents, nameIndex, tasks, contextIndex, request, sweepVars, late>>

-----------------------------------------------------------------------------
(* Agents: one critical section of the registry lock each *)

RegistryStep == UNCHANGED <<tasks, contextIndex, clock, request, sweepVars, late>>

RegisterAgent(a)   == Register(a, clock) /\ RegistryStep

AgentHeartbeat(a)  == Heartbeat(a, clock) /\ RegistryStep

DeregisterAgent(a) == Deregister(a) /\ RegistryStep

-----------------------------------------------------------------------------
(* Requests about tasks *)

(***************************************************************************)
(* submit_task_with_deadline, first half, under the registry lock: the     *)
(* assignee is checked when the caller pins one, and chosen by the router  *)
(* otherwise.  The lock is released before the task is created.            *)
(***************************************************************************)
Resolve(r, a, c, d) ==
  /\ request[r] = Idle
  /\ request' = [request EXCEPT ![r] =
       [at |-> "resolved", context |-> c, assignee |-> a, deadline |-> d]]
  /\ Silent
  /\ UNCHANGED <<agents, nameIndex, tasks, contextIndex, clock, sweepVars, late>>

SubmitPinned(r, a, c, d) == a \in Connected /\ Resolve(r, a, c, d)

SubmitRouted(r, required, c, d) ==
  \E a \in SelectAgent(required) : Resolve(r, a, c, d)

\* Second half, under the lock of the task manager.
FinishSubmit(r, t) ==
  LET q == request[r]
  IN  /\ q # Idle
      /\ CreateTask(t, q.context, q.assignee, q.deadline)
      /\ request' = [request EXCEPT ![r] = Idle]
      /\ late' = IF q.assignee \in Connected \cup {NoAgent} THEN late ELSE late \cup {t}
      /\ UNCHANGED <<agents, nameIndex, clock, sweepVars>>

TaskStep == UNCHANGED <<agents, nameIndex, clock, request, sweepVars, late>>

UpdateTask(t, new) == UpdateStatus(t, new) /\ TaskStep

CancelTask(t)      == Cancel(t) /\ TaskStep

AddTaskArtifact(t) == AddArtifact(t) /\ TaskStep

-----------------------------------------------------------------------------
(* The watchdog: one sweep, phase by phase *)

Scans == UNCHANGED <<agents, nameIndex, tasks, contextIndex, clock, request, late>>

\* Mutant: the clock is read once, when the watchdog is spawned.
WakeWatchdogOldNow ==
  /\ phase = "asleep"
  /\ phase' = "scan"
  /\ Silent
  /\ Scans
  /\ UNCHANGED <<sweepNow, stale, expired>>

\* The ticker fires and the sweep reads the clock, once.
WakeWatchdog ==
  /\ phase = "asleep"
  /\ phase' = "scan"
  /\ sweepNow' = clock
  /\ Silent
  /\ Scans
  /\ UNCHANGED <<stale, expired>>

\* Mutant: <= for < in the comparison with the cutoff.
ScanAgentsEarly ==
  /\ phase = "scan"
  /\ stale' = {a \in Connected : agents[a].heartbeat + Timeout <= sweepNow}
  /\ phase' = IF stale' = {} THEN "deadlines" ELSE "flip"
  /\ Silent
  /\ Scans
  /\ UNCHANGED <<sweepNow, expired>>

\* Phase 1, registry read lock.
ScanAgents ==
  /\ phase = "scan"
  /\ stale' = {a \in Connected : agents[a].heartbeat + Timeout < sweepNow}
  /\ phase' = IF stale' = {} THEN "deadlines" ELSE "flip"
  /\ Silent
  /\ Scans
  /\ UNCHANGED <<sweepNow, expired>>

\* Mutant: the sweep returns after the flips.
FlipStaleOnly ==
  /\ phase = "flip"
  /\ MarkDisconnected(stale)
  /\ phase' = "deadlines"
  /\ stale' = {}
  /\ UNCHANGED <<tasks, contextIndex, clock, request, sweepNow, expired, late>>

\* Phase 2, registry write lock: the heartbeat is not looked at again.
FlipStale ==
  /\ phase = "flip"
  /\ MarkDisconnected(stale)
  /\ phase' = "fail"
  /\ UNCHANGED <<tasks, contextIndex, clock, request, sweepNow, stale, expired, late>>

\* Mutant: Submitted tasks are failed too, which update_status refuses.
FailTasksOfAlwaysFailed(a) ==
  LET inFlight == {t \in LiveTasks : tasks[t].assignee = a}
  IN  /\ phase = "fail"
      /\ a \in stale
      /\ UpdateStatuses([t \in inFlight |-> "Failed"])
      /\ stale' = stale \ {a}
      /\ phase' = IF stale' = {} THEN "deadlines" ELSE "fail"
      /\ UNCHANGED <<agents, nameIndex, clock, request, sweepNow, expired, late>>

\* Phase 3, one critical section of the task manager for each stale agent,
\* in the order of a HashMap; the agent may be back or gone by now.
FailTasksOf(a) ==
  LET inFlight == {t \in LiveTasks : tasks[t].assignee = a}
  IN  /\ phase = "fail"
      /\ a \in stale
      /\ UpdateStatuses([t \in inFlight |-> HaltState(StateOf(t))])
      /\ stale' = stale \ {a}
      /\ phase' = IF stale' = {} THEN "deadlines" ELSE "fail"
      /\ UNCHANGED <<agents, nameIndex, clock, request, sweepNow, expired, late>>

\* Phase 4, read lock of the task manager: what is overdue, and the terminal
\* state that follows from the state it is in now.
ScanDeadlines ==
  LET overdue == {t \in LiveTasks : /\ tasks[t].deadline # NoDeadline
                                    /\ tasks[t].deadline < sweepNow}
  IN  /\ phase = "deadlines"
      /\ expired' = [t \in overdue |-> HaltState(StateOf(t))]
      /\ phase' = IF overdue = {} THEN "asleep" ELSE "expire"
      /\ sweepNow' = 0
      /\ Silent
      /\ Scans
      /\ UNCHANGED stale

\* Phase 4, write lock: a task that has moved since may refuse the state.
ExpireTasks ==
  /\ phase = "expire"
  /\ UpdateStatuses(expired)
  /\ expired' = NoneExpired
  /\ phase' = "asleep"
  /\ UNCHANGED <<agents, nameIndex, clock, request, sweepNow, stale, late>>

-----------------------------------------------------------------------------

AgentNext ==
  \E a \in AgentIds : RegisterAgent(a) \/ AgentHeartbeat(a) \/ DeregisterAgent(a)

RequestNext ==
  \/ \E r \in Requests, c \in Contexts, d \in Deadlines \cup {NoDeadline} :
       \/ \E a \in AgentIds : SubmitPinned(r, a, c, d)
       \/ \E required \in SUBSET Tags : SubmitRouted(r, required, c, d)
  \/ \E r \in Requests, t \in TaskIds : FinishSubmit(r, t)
  \/ \E t \in TaskIds, new \in TaskState : UpdateTask(t, new)
  \/ \E t \in TaskIds : CancelTask(t) \/ AddTaskArtifact(t)

WatchdogNext ==
  \/ WakeWatchdog
  \/ ScanAgents
  \/ FlipStale
  \/ \E a \in AgentIds : FailTasksOf(a)
  \/ ScanDeadlines
  \/ ExpireTasks

Next == Tick \/ AgentNext \/ RequestNext \/ WatchdogNext

Spec == Init /\ [][Next]_vars

(***************************************************************************)
(* Time passes, a handler that has resolved its assignee runs on, and the  *)
(* watchdog keeps sweeping: its loop ends only with the daemon, and no     *)
(* critical section waits for anything but its lock.  Agents and callers   *)
(* owe nothing.                                                            *)
(***************************************************************************)
Fairness ==
  /\ WF_vars(Tick)
  /\ WF_vars(WatchdogNext)
  /\ \A r \in Requests : WF_vars(\E t \in TaskIds : FinishSubmit(r, t))

FairSpec == Spec /\ Fairness

-----------------------------------------------------------------------------
(* Safety *)

\* The live tasks whose assignee is disconnected.
OrphanedWork == {t \in LiveTasks : tasks[t].assignee \in Disconnected}

(***************************************************************************)
(* No live work is left behind: a live task of a disconnected agent is     *)
(* either about to be halted by the sweep that disconnected the agent, or  *)
(* it was created after the agent was lost, by a submission that had       *)
(* resolved its assignee before (task_facade.rs checks and creates under   *)
(* two locks).  That race is the only gap in the watchdog's promise to     *)
(* fail the work of a disconnected agent (watchdog.rs, phases 2 and 3).    *)
(***************************************************************************)
NoWorkLeftBehind ==
  \A t \in OrphanedWork :
    t \in late \/ (phase = "fail" /\ tasks[t].assignee \in stale)

(***************************************************************************)
(* A sweep wrongs only agents that return while it runs: an agent it       *)
(* treats as dead although it is connected was silent for longer than the  *)
(* timeout when the sweep looked, or has sent a heartbeat since the sweep  *)
(* began (watchdog.rs phases 1 to 3 against registry.rs heartbeat).        *)
(***************************************************************************)
StaleAgentsWereSilent ==
  \A a \in stale \cap Connected :
    \/ agents[a].heartbeat >= sweepNow
    \/ phase = "flip" /\ agents[a].heartbeat + Timeout < sweepNow

(***************************************************************************)
(* The inductive strengthening of the two properties above: the sweep has  *)
(* stale agents to treat only between its phases 1 and 4, and its "now"    *)
(* is not in the future (locals of sweep in watchdog.rs).                  *)
(***************************************************************************)
SweepInvariant ==
  /\ stale # {} => phase \in {"flip", "fail"}
  /\ sweepNow <= clock
  /\ NoWorkLeftBehind
  /\ StaleAgentsWereSilent

Lifecycle == INSTANCE TaskLifecycle WITH ledger <- tasks

(***************************************************************************)
(* Whatever submissions, callers and sweeps do to the task map, each task  *)
(* lives the life TaskLifecycle promises: fixed assignee and deadline,     *)
(* documented transitions only, frozen once terminal (task_manager.rs      *)
(* update_status and add_artifact, against the sweeps that call them with  *)
(* a state computed earlier).                                              *)
(***************************************************************************)
TasksLiveTheirLifecycle == Lifecycle!Spec

\* What a step changed, as events: what subscribers ought to be told.
Changes ==
  {AgentEvent("AgentRegistered", a) :
     a \in {b \in Registered' : agents[b].status = "Unregistered"}}
  \cup {AgentEvent("AgentReconnected", a) : a \in Disconnected \cap Connected'}
  \cup {AgentEvent("AgentDisconnected", a) : a \in Connected \cap Disconnected'}
  \cup {AgentEvent("AgentDeregistered", a) : a \in Registered \ Registered'}
  \cup {TaskCreated(t) : t \in Born' \ Born}
  \cup {StatusChanged(t, StateOf(t), StateOf(t)') :
          t \in {u \in Born : StateOf(u)' # StateOf(u)}}
  \cup {ArtifactAdded(t, tasks'[t].artifacts) :
          t \in {u \in Born : tasks'[u].artifacts # tasks[u].artifacts}}

(***************************************************************************)
(* Each step publishes exactly what it changed: every registration, flip,  *)
(* reconnection, creation and status change once, with the true old and    *)
(* new state, and nothing for an update that was refused.  A subscriber    *)
(* that misses no event can therefore mirror the nexus (the publish calls  *)
(* of registry.rs and task_manager.rs).                                    *)
(***************************************************************************)
EventsTellAllChanges == [][published' = Changes]_vars

-----------------------------------------------------------------------------
(* Liveness, under FairSpec.  The clock stops at MaxTime, so each property  *)
(* speaks of what becomes overdue before that.                              *)

(***************************************************************************)
(* An agent that stays silent past the timeout does not stay Connected     *)
(* (watchdog.rs, phases 1 and 2).                                          *)
(***************************************************************************)
SilentAgentIsFlipped ==
  \A a \in AgentIds, h \in 0 .. MaxTime : h + Timeout < MaxTime =>
    (a \in Connected /\ agents[a].heartbeat = h) ~>
    (a \notin Connected \/ agents[a].heartbeat # h)

(***************************************************************************)
(* A task whose deadline passes ends, although a single sweep may be       *)
(* refused because the task moved on between its scan and its update       *)
(* (watchdog.rs, phase 4).                                                 *)
(***************************************************************************)
OverdueTaskEnds ==
  \A t \in TaskIds, d \in Deadlines : d < MaxTime =>
    (t \in LiveTasks /\ tasks[t].deadline = d) ~> (StateOf(t) \in Terminal)

(***************************************************************************)
(* The work an agent had when it was lost is halted, even if the agent     *)
(* comes back or deregisters in the middle of the sweep (watchdog.rs,      *)
(* phase 3).                                                               *)
(***************************************************************************)
LostWorkHalts ==
  \A t \in TaskIds : (t \in OrphanedWork \ late) ~> (StateOf(t) \in Terminal)

-----------------------------------------------------------------------------
(* A claim of the source that the code does not keep *)

(***************************************************************************)
(* The watchdog halts the work of a disconnected agent "rather than        *)
(* silently stuck" (watchdog.rs header): while the agent stays             *)
(* disconnected, none of its tasks stays live.                             *)
(***************************************************************************)
WorkOfLostAgentsHalts ==
  \A t \in TaskIds : (t \in OrphanedWork) ~> (t \notin OrphanedWork)

=============================================================================
