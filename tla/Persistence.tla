---------------------------- MODULE Persistence -----------------------------
(***************************************************************************)
(* The nexus across restarts: snapshots (AppState::to_snapshot and         *)
(* restore_from_snapshot in server/state.rs, StateManager in state/mod.rs, *)
(* the restore methods of the managers), the start and the orderly         *)
(* shutdown in server/mod.rs, and crashes.                                 *)
(*                                                                         *)
(* The shutdown path joins none of the tasks it leaves behind: the workers *)
(* are aborted and not awaited, and a gRPC server that does not drain in   *)
(* time is left to itself, as are the requests of an MCP client on stdio.  *)
(* So requests, the watchdog and the timer may still take steps while the  *)
(* final snapshot is taken and written, until the process is gone; how far *)
(* they get is left open.                                                  *)
(*                                                                         *)
(* While no process runs, the variables of Nexus keep the memory of the    *)
(* last process, so that a restart can be compared with it.                *)
(***************************************************************************)
EXTENDS Nexus, SnapshotFile

CONSTANTS MaxSaves,     \* bound: periodic snapshots
          MaxProcesses, \* bound: processes, the last of which neither saves nor ends
          MaxLater      \* bound: steps of requests and sweeps after a final snapshot
                        \* or in the last process

ASSUME PersistenceAssumption == IsFiniteSet(TaskIds)

VARIABLES daemon,       \* "up", "stopping" (final save), "ending" (it is over), "down"
          orderly,      \* history: the last process ended after its final save, which
                        \* was complete and the last to touch the file
          unsaved,      \* history: what changed after the final snapshot was taken
          orphaned,     \* history: work of lost agents a snapshot found not yet halted
          minted,       \* history: ids ever handed out; a lost id is not drawn again
          bound         \* how often the bounded events happened

daemonVars == <<daemon, orderly, unsaved, orphaned, minted, bound>>

allVars == <<vars, fileVars, daemonVars>>

Image == [agents : [AgentIds -> AgentInfo], tasks : [TaskIds -> Task \cup {NoTask}]]

(***************************************************************************)
(* The type invariant: memory, the snapshot file and the images on their   *)
(* way to it are well-formed, and only a stopping daemon has a final save. *)
(***************************************************************************)
PersistenceTypeOK ==
  /\ TypeOK
  /\ FileTypeOK(Image)
  /\ daemon \in {"up", "stopping", "ending", "down"}
  /\ orderly \in BOOLEAN
  /\ unsaved \subseteq AgentIds \cup TaskIds
  /\ orphaned \subseteq TaskIds
  /\ minted \subseteq AgentIds \cup TaskIds
  /\ save["shutdown"] # Nothing <=> daemon = "stopping"
  /\ daemon = "down" => save = NoSaves /\ \A r \in Requests : request[r] = Idle

PersistenceInit ==
  /\ Init
  /\ disk = Nothing
  /\ save = NoSaves
  /\ daemon = "up"
  /\ orderly = FALSE
  /\ unsaved = {}
  /\ orphaned = {}
  /\ minted = {}
  /\ bound = [saves |-> 0, processes |-> 1, later |-> 0]

-----------------------------------------------------------------------------
(* The nexus at work *)

\* What the step changed, if the final snapshot has been taken.
Unsaved ==
  IF daemon = "up" THEN {}
  ELSE {a \in AgentIds : agents'[a] # agents[a]} \cup {t \in TaskIds : tasks'[t] # tasks[t]}

Late == daemon # "up" \/ bound.processes = MaxProcesses

\* Requests and the watchdog run, also next to the shutdown; fresh ids are
\* noted.  Time that passes while no process runs passes after the start.
Serve ==
  /\ daemon # "down"
  /\ Late => bound.later < MaxLater
  /\ bound' = IF Late THEN [bound EXCEPT !.later = @ + 1] ELSE bound
  /\ Next
  /\ LET used  == Born' \cup {a \in AgentIds : agents'[a].status # "Unregistered"}
         known == Born \cup {a \in AgentIds : agents[a].status # "Unregistered"}
     IN  /\ (used \ known) \cap minted = {}
         /\ minted' = minted \cup used
  /\ unsaved' = unsaved \cup Unsaved
  /\ UNCHANGED <<fileVars, daemon, orderly, orphaned>>

-----------------------------------------------------------------------------
(* Saving *)

\* Mutant: the list of agents is the one of the last save.
MemoryWithOldAgents ==
  [agents |-> IF disk.at = "saved" THEN disk.image.agents ELSE agents, tasks |-> tasks]

\* to_snapshot holds the read locks of all managers together.
Memory == [agents |-> agents, tasks |-> tasks]

MemorySame ==
  /\ Silent
  /\ UNCHANGED <<agents, nameIndex, tasks, contextIndex, clock, request, sweepVars, late>>

\* The interval of the snapshot timer has passed.
TakeSnapshot ==
  /\ daemon # "down"
  /\ bound.saves < MaxSaves /\ bound.processes < MaxProcesses
  /\ bound' = [bound EXCEPT !.saves = @ + 1]
  /\ Takes("timer", Memory)
  /\ orphaned' = orphaned \cup OrphanedWork
  /\ MemorySame
  /\ UNCHANGED <<daemon, orderly, unsaved, minted>>

\* save_snapshot opens and truncates the file ...
BeginWrite(w) ==
  /\ Opens(w)
  /\ orderly' = FALSE
  /\ MemorySame
  /\ UNCHANGED <<daemon, unsaved, orphaned, minted, bound>>

\* The final save is over, one way or the other.
Over(w) == daemon' = IF w = "shutdown" THEN "ending" ELSE daemon

\* ... and completes it.
EndWrite(w) ==
  /\ Completes(w)
  /\ Over(w)
  /\ orderly' = (w = "shutdown" /\ save[w].at = "writing")
  /\ MemorySame
  /\ UNCHANGED <<unsaved, orphaned, minted, bound>>

\* An I/O error is logged and nothing else is done about it.
FailWrite(w) ==
  /\ Fails(w)
  /\ Over(w)
  /\ MemorySame
  /\ UNCHANGED <<orderly, unsaved, orphaned, minted, bound>>

-----------------------------------------------------------------------------
(* Stopping, crashing, starting *)

\* The servers have drained or were given up: the workers are told to abort,
\* and the final snapshot is taken.
Stop ==
  /\ daemon = "up"
  /\ bound.processes < MaxProcesses
  /\ daemon' = "stopping"
  /\ Takes("shutdown", Memory)
  /\ unsaved' = {}
  /\ orphaned' = orphaned \cup OrphanedWork
  /\ MemorySame
  /\ UNCHANGED <<orderly, minted, bound>>

\* The process is gone, and with it all that was under way in it.
Ends ==
  /\ daemon' = "down"
  /\ request' = [r \in Requests |-> Idle]
  /\ phase' = "asleep"
  /\ sweepNow' = 0
  /\ stale' = {}
  /\ expired' = NoneExpired
  /\ save' = NoSaves
  /\ Silent
  /\ UNCHANGED <<agents, nameIndex, tasks, contextIndex, clock, late,
                 disk, unsaved, orphaned, minted, bound>>

\* serve_with_shutdown returns.
Exit ==
  /\ daemon = "ending"
  /\ Ends
  /\ UNCHANGED orderly

\* The process dies; the file stays as it is.
Crash ==
  /\ daemon # "down"
  /\ bound.processes < MaxProcesses
  /\ Ends
  /\ orderly' = FALSE

\* Mutant: finished tasks are not restored.
RestoredLive ==
  IF disk = Nothing
  THEN [agents |-> [a \in AgentIds |-> [status |-> "Unregistered", heartbeat |-> 0]],
        tasks  |-> [t \in TaskIds |-> NoTask]]
  ELSE [disk.image EXCEPT !.tasks =
         [t \in TaskIds |-> IF @[t].state \in Live THEN @[t] ELSE NoTask]]

\* Mutant: a restored agent counts as disconnected until it is heard of.
RestoredOffline ==
  IF disk = Nothing
  THEN [agents |-> [a \in AgentIds |-> [status |-> "Unregistered", heartbeat |-> 0]],
        tasks  |-> [t \in TaskIds |-> NoTask]]
  ELSE [disk.image EXCEPT !.agents =
         [a \in AgentIds |-> IF @[a].status = "Connected"
                             THEN [@[a] EXCEPT !.status = "Disconnected"] ELSE @[a]]]

\* What a start finds in memory after the restore.
Restored ==
  IF disk = Nothing
  THEN [agents |-> [a \in AgentIds |-> [status |-> "Unregistered", heartbeat |-> 0]],
        tasks  |-> [t \in TaskIds |-> NoTask]]
  ELSE disk.image

(***************************************************************************)
(* serve, up to the point where it serves: load_snapshot must succeed or   *)
(* there must be no file.  No event is published.                          *)
(***************************************************************************)
Restart ==
  /\ daemon = "down"
  /\ disk # Torn
  /\ bound' = [bound EXCEPT !.processes = @ + 1]
  /\ daemon' = "up"
  /\ RestoreAgents(Restored.agents)
  /\ RestoreTasks(Restored.tasks)
  /\ orderly' = FALSE
  /\ unsaved' = {}
  /\ Silent
  /\ UNCHANGED <<clock, request, sweepVars, late, fileVars, orphaned, minted>>

-----------------------------------------------------------------------------

PersistenceNext ==
  \/ Serve
  \/ TakeSnapshot
  \/ \E w \in Writers : BeginWrite(w) \/ EndWrite(w) \/ FailWrite(w)
  \/ Stop
  \/ Exit
  \/ Crash
  \/ Restart

PersistenceSpec == PersistenceInit /\ [][PersistenceNext]_allVars

-----------------------------------------------------------------------------
(* Properties *)

(***************************************************************************)
(* What an orderly stop saves is not lost: if the final save was complete  *)
(* and no straggling save of the aborted timer touched the file with it or *)
(* after it, the process that starts next has every agent and every task   *)
(* as its predecessor had it when it ended, but for those that a straggler *)
(* changed after the final snapshot was taken (server/mod.rs, shutdown     *)
(* path, and state.rs).                                                    *)
(***************************************************************************)
OrderlyRestartKeepsAll ==
  [][daemon = "down" /\ daemon' = "up" /\ orderly =>
       /\ \A a \in AgentIds \ unsaved : agents'[a] = agents[a]
       /\ \A t \in TaskIds \ unsaved : tasks'[t] = tasks[t]]_allVars

(***************************************************************************)
(* While a daemon runs, and after any crashes, stops and restarts, there   *)
(* are two ways, and no more, in which live work is left at a disconnected *)
(* agent with nobody to halt it:                                           *)
(* the race of a submission, and a snapshot that was taken between phases  *)
(* 2 and 3 of a sweep (watchdog.rs), whose agents no later sweep looks at. *)
(***************************************************************************)
OnlyCutSweepsStrandWork ==
  daemon # "down" => \A t \in OrphanedWork :
    t \in late \cup orphaned \/ (phase = "fail" /\ tasks[t].assignee \in stale)

(***************************************************************************)
(* The derived indices, by name and by context, agree with the maps, also  *)
(* when a start rebuilds them from a snapshot that was taken between any   *)
(* two steps (restore in core/registry.rs and core/task_manager.rs).       *)
(***************************************************************************)
IndicesExact == NameIndexExact /\ ContextIndexExact

(***************************************************************************)
(* A task is never assigned to an agent the registry has not known, not    *)
(* even after a crash rolls both back: to_snapshot reads registry and      *)
(* tasks under locks held together, so a snapshot is one moment.           *)
(***************************************************************************)
AssigneeIsKnown ==
  \A t \in Born : tasks[t].assignee # NoAgent =>
    agents[tasks[t].assignee].status # "Unregistered"

-----------------------------------------------------------------------------
(* A claim of the documents that the code does not keep *)

(***************************************************************************)
(* The state manager "supports snapshot + journal for crash recovery"      *)
(* (architecture.md): whenever no process runs, one can be started.        *)
(***************************************************************************)
DaemonCanStartAgain == daemon = "down" => disk # Torn

=============================================================================
