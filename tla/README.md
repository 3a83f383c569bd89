# Verification of trumpet

`trumpet` is a daemon ("nexus") through which agents find each other, hand out
tasks, chat and share tools.  This directory models the daemon with its front
ends and its command line, checks the models with TLC on small instances and proves
most of the safety properties for every instance with TLAPS.

Paths below are relative to `src/src/` unless they start with `adrs/`.

## 1. The system

One process, many tokio tasks.  Every manager sits behind its own
`Arc<RwLock<_>>` in `AppState`; a request handler takes one lock, calls a method,
releases the lock and perhaps goes on to the next.  Managers publish events on a
bounded broadcast channel.

| Component | State it keeps | Operations | Talks to |
|---|---|---|---|
| Agent registry (`core/registry.rs`) | agents by id, index by name, status, last heartbeat | register, heartbeat, mark_disconnected, deregister, restore | bus |
| Router (`core/router.rs`) | none | select_agent | reads the registry |
| Task manager (`core/task_manager.rs`) | tasks by id, index by context | create, update_status, cancel, add_artifact, restore | bus, task channel |
| Task facade (`core/task_facade.rs`) | none | submit (two locks), the rest one lock each | registry, router, tasks |
| Watchdog (`core/watchdog.rs`) | locals of a sweep | one sweep per tick, four phases | registry, tasks |
| Bus (`core/bus.rs`) | bounded broadcast channel | publish, subscribe | all subscribers |
| Snapshots (`state/`, `server/state.rs`) | `snapshot.enc` | to_snapshot, save, load, restore | all managers |
| Server (`server/mod.rs`) | cancel token, background tasks | start, drain, abort, final save, clean up | everything |
| Webhooks (`core/push_notifications.rs`) | configurations by task | create, get, list, delete, restore; delivery worker | bus, HTTP |
| Task streams (`grpc/service.rs`) | channel per stream | send_streaming_message, subscribe_to_task | facade, bus |
| Tool registry and invoker (`core/tools.rs`, `core/tool_invoker.rs`) | tools by id, index by name | register, deregister, restore, invoke | bus, facade |
| Tool notifier (`mcp/notifier.rs`) | coalescing window | one notification per burst | bus, MCP peer |
| Chat (`core/chat.rs`) | conversations, messages | create, send, restore | bus |
| Authentication (`server/auth.rs`, `cli/auth.rs`) | token in memory and on disk | load, rotate, reload on SIGHUP | file, signal |
| Daemon process (`daemon/`, `cli/start.rs`, `cli/stop.rs`) | PID file, socket | start, stop, status | process table |
| HTTP routes (`server/routes.rs`), MCP server (`mcp/handler.rs`, `mcp/resources.rs`, `mcp/prompts.rs`), A2A service (`grpc/service.rs`, `grpc/convert.rs`) | none | one per route, tool or call: parse, call a manager, map the outcome | all managers |
| CLI clients (`cli/client.rs`, `cli/agent.rs`, `cli/task.rs`, ...) | none | one request and its output each | HTTP routes over the socket |
| Code tools (`core/code_tools.rs`) | none | read, parse, scan of a tree | the file system, the invoker |
| Configuration (`config/`) | none | load: four layers, paths, validation | files, environment |
| Errors (`error/`) | none | statuses and codes of each front end; texts | every front end |

What is hard in it, and what makes each component correct:

- **Submissions, heartbeats and sweeps race.**  Nothing holds two locks, so a
  sweep works on what it read before.  A lost agent's work must be halted, an
  agent that is alive must not be treated as dead, an overdue task must end, a
  finished task must stay finished.
- **Derived indices** (names, contexts) must equal what they index, after every
  operation and after a restore.
- **Events are the only view subscribers have**: each change must be announced
  exactly once, with the true old and new state.
- **Crashes, failed writes and restarts**: the snapshot must be one moment of the state,
  what a final save took must be there again, and as little as possible may leave a file
  that no start can read.  Nothing waits for what goes on next to a shutdown: the
  aborted workers, a gRPC server that was given up, a save that has begun.
- **Subscribers lag**, streams begin after the state they were promised, webhooks
  are retried out of order, starts and stops of daemons overlap.
- **A token is in two places**, the file and the daemon, and a signal between them
  may come too early, too late or to the wrong process.
- **Every front end maps outcomes by hand**: a caller must not be told it made a
  mistake when the daemon failed, nor that something was done that was not.
- **Lists and trees change while they are walked**, page by page or entry by entry.

`PROJECT.json` lists each of these hazards at its line.

## 2. The modules

State and events of the managers:

| Module | Models | State and actions |
|---|---|---|
| `Identifiers` | `core/types.rs` ids | ids are constants: an id is minted once |
| `TaskStates` | `enum TaskState` | `CanTransition`, `Terminal`, `HaltState` (the watchdog's choice between Rejected and Failed) |
| `Bus` | publishing | `published`: the events of the last step |
| `AgentRegistry` | registry and router | `agents`, `nameIndex`; one operator per method; `SelectAgent` is the set of possible answers because the code iterates over a hash map |
| `TaskManager` | task manager | `tasks`, `contextIndex`; one operator per method; `UpdateStatuses` is `update_status` for several tasks under one lock |
| `ToolRegistry` | tool registry | `tools`, `toolIndex`; register, deregister, restore, find_by_name |
| `Chat` | conversations | `conversations`, `messages`; create, send, snapshot, restore |
| `WebhookStore` | webhook configurations | `hooks`; create, get, delete, restore; which lists a snapshot may hold |
| `Secrets` | token file, key file, rotation, SIGHUP | `tokenFile`, `keyFile`, `slot` (the token in the daemon), `handler`, `hup`, `rotator` (an `auth rotate` between its steps) |

Components that interact:

| Module | Models | State and actions |
|---|---|---|
| `TaskLifecycle` | what a client is promised about a task | abstract specification of the task map |
| `Nexus` | facade and watchdog on top of registry and tasks | `request` (locals of a submission), `phase`, `sweepNow`, `stale`, `expired` (locals of a sweep), `clock`; one action per critical section |
| `ToolInvoker` | `Nexus` plus tools that come and go, and calls of them | `invocation`: a call between its three locks; then it is a submission of the nexus |
| `SnapshotFile` | the snapshot file and its two writers, timer and shutdown | `disk`, `save`: a save is three steps (image taken, file opened and truncated, file complete or failed), and two of them may share the file |
| `Persistence` | `Nexus` and `SnapshotFile` through shutdown, crash, restart | `daemon` (up, stopping until the final save is over, ending until the process is gone, down); requests, sweeps and the timer go on in all of them but the last |
| `Boot` | `Secrets`, `ToolRegistry`, `Chat`, `WebhookStore` and `SnapshotFile` through starts and stops | `stage`: one value per step of `serve_with_shutdown` that a kill, an I/O error or a rotation can come between |
| `Broadcast` | the tokio channel behind the bus (external) | `log` of all events, `cursor` of each receiver; a receiver more than `Capacity` behind is told that it lagged and skips |
| `TaskEvents` | task manager and channel as one | a change and its event are one step, under the lock of the manager |
| `TaskStream` | `spawn_task_stream` and its two callers | `pc` (fetched, subscribed, then the loop: recv, refresh, send), `pipe` (the bounded channel), `view` (what the client knows) |
| `WebhookDelivery` | webhooks, worker, deliveries | `configs`, `hand` (event between `recv` and the look at the store), `delivery` (one retry loop per webhook and event) |
| `EventFeed` | WebSocket and SSE feeds | `conn`, `filter`, `frame` (what the client says, early or late), `buffer` |
| `ToolNotifier` | `EventFeed` plus notifiers of MCP clients | `watch`: waiting for a first change, draining a window, about to notify; `peerLeft` |
| `DaemonProcess` | processes, socket path, PID file, `start`, `serve`, `stop` | `phase` (one value per await point of `serve_with_shutdown` that others can see, and one per way to end), `socket` and `pidFile` (whose they are), `disk` and `secrets` (which may be cut short), `shell` (a command between its steps) |

The front ends:

| Module | Models | State and actions |
|---|---|---|
| `Errors` | `error/mod.rs` and the `map_err` of each front end | outcome to HTTP status, MCP error, gRPC code |
| `Conversions` | `grpc/convert.rs`, the serialisation of parts | wire types to core types and back |
| `Frontends` | what all front ends share | `reply` (the last answer), `submission`, `walk` (a client between two pages); requests about agents and chat |
| `TaskRequests` | requests about tasks, deadlines, pages, webhooks | deadline arithmetic of `Width` bits; `ReadPage`, one page of `list_tasks` |
| `HttpRoutes`, `McpServer`, `Clients` | one operator per route, MCP tool, resource, prompt, or command | they call the requests above with what they parse |
| `Configuration` | `config/loader.rs`, `config/types.rs`, `config/validate.rs` | `layers` (what a process finds), `config` |
| `CodeScan` | `core/code_tools.rs` | `tree`, `scan` (the stack of open directories), one step per entry |
| `Requests` | the daemon as its clients see it | composes the six modules above |

`MCNexus`, `MCPersistence`, `MCToolInvoker`, `MCBoot` and `MCRequests` are instances
for TLC; the other modules that are run take all their constants from their `.cfg`.
`NexusProofs` (which also has those of `ToolInvoker`), `PersistenceProofs`, `BootProofs`,
`StreamProofs`, `WebhookProofs`, `FeedProofs` (with `ToolNotifier`), `DaemonProofs` and
`RequestsProofs` hold the theorems.

How code becomes actions.  A critical section, from acquiring a lock to releasing
it, is one action: nobody can see into it.  `submit_task_with_deadline` releases
the registry lock before it takes the task lock, so it is `SubmitPinned` or
`SubmitRouted`, then `FinishSubmit`.  A sweep is `WakeWatchdog` (reads the clock
once), `ScanAgents` (phase 1), `FlipStale` (phase 2), one `FailTasksOf(a)` for each
stale agent (phase 3), `ScanDeadlines` and `ExpireTasks` (phase 4).  A call of a tool
is `LookUp`, `CheckProvider` and a submission.  A call that
returns an error changes nothing, so in the modules of the managers it is a step
that is not enabled; in the front ends it is an answer.
`update_status` and `add_artifact` are reached only through the facade's API;
`UpdateTask` and `AddTaskArtifact` let whoever holds the facade call them, and
`OfferTool` and `WithdrawTool` do the same for the tool registry, in which no request
of the daemon as it is registers a tool.
Only `to_snapshot` and `restore` hold several locks at once, and they take them in
one order, so no deadlock of locks can come about and none is modelled.

What is abstracted.  Names are the set of valid names, payloads are left out, a
hash map's order is any order, the clock is a counter, and an agent id that was
deregistered is never used again (ids are random UUIDs).

`Nexus` and `Persistence` see events as what the last step published; the modules
of subscribers see the channel, and reduce the rest of the daemon to the changes
of tasks (`TaskEvents`) or to events of some kind (`EventFeed`).  The snapshot is
looked at from two sides that share no state but that of `SnapshotFile`: agents and
tasks in `Persistence`, tools, conversations, webhooks and secrets in `Boot`.
`DaemonProcess` reduces what a daemon holds to a set of acknowledged items, and a save
to one step with all its outcomes (done, failed, torn, overtaken by an older one); what
it adds is that a start need not follow an exit.  In `Requests` the clock
stands still and a request to one manager is one step: races of managers are in the
modules above, and what is looked for here is what the callers are told.

History variables, which no action's guard reads: `late` (tasks created when their
assignee was not connected) in `Nexus`; `toolName` (the metadata of a task) in
`ToolInvoker`; `orderly`, `unsaved`, `orphaned` and `minted` in `Persistence` (`minted`
also keeps a lost id from being drawn again); `orderly`, `cut` and `failed` in `Boot`;
`gap` and `lost` in
`TaskStream`; `deletedAt` and `skipped` in `WebhookDelivery` (there `createdAt` also
says which ids are used); `start`, `told` and `lost` in `EventFeed`; `begun`,
`prompted` and `missed` in `ToolNotifier`; `disturbed` and `risked` in `DaemonProcess`
(there `acked` also says which items are used); `touched` in `CodeScan` (there it also
bounds the changes).  `bound` holds the counters of the bounds, and so does `drawn` in
`Secrets`.

## 3. The runs

| Run | Instance | Shows |
|---|---|---|
| `NexusNames` | 2 agents with one name, 1 task, 1 submission handler, a deadline, clock to 2 | types; the name index; `StaleAgentsWereSilent`; every change announced exactly once (`EventsTellAllChanges`); the task map implements `TaskLifecycle` |
| `Invocations` | 2 agents with their own names, 1 task, 1 handler, 2 tools of one name, timeout 0, clock to 1 | `NoWorkLeftBehind` while tools are called, and a call reaches the agent that offers the tool |
| `NexusLive` | 1 agent, 1 task, deadline 1, clock to 4, fairness | `SilentAgentIsFlipped`, `OverdueTaskEnds`, `LostWorkHalts` |
| `Restart` | 1 agent, 1 task, 1 periodic save, 2 processes, saves may fail at any step, 1 step of a straggler | what an undisturbed final save took is there again; after any restart the indices are exact and no task refers to an unknown agent; work is left behind only by the race of a submission or a snapshot in the middle of a sweep |
| `Boot` | 2 processes, 2 rotations, 3 tokens, 3 requests or rotations, 1 periodic save, 1 I/O error, 1 conversation with 2 messages, 2 webhooks, 2 tools, kills at any step | a daemon that has settled takes the token in the file or a caller was told of a failure; only a file whose last write was cut short blocks a start; tools, conversations and webhooks come back whole |
| `Stream` | 1 task, 1 stream, channel 1, bus 2, 5 events, fairness | what the client is told never goes back; it misses only what a lag or the late subscription lost; a stream catches up, also after a lag |
| `Webhooks` | 1 task, 2 webhooks, bus 1, 2 events, 1 retry, fairness | every event since a webhook came has a delivery, none starts for an event after it went; every delivery ends, as what it was |
| `Feeds` | 1 feed (a WebSocket or SSE), 1 notifier, 2 kinds of events, bus 1, 2 events, fairness | without a lag a feed has sent exactly the matching events since the connection; it catches up whatever its client says; a change of the tools is followed by a notification |
| `Daemons` | 2 daemons, 1 terminal, 1 stop, 1 foreground serve, 1 kill, 1 I/O error, fairness | an undisturbed daemon is found by its files, whatever was left behind, and comes up unless a file was cut short; without overlap a restart loses only what a kill, a failed save or a late one put at risk; a daemon told to stop ends unless a stream is open |
| `Requests` | 2 agents, 2 tasks, 1 conversation, 1 webhook, every combination of layers, 4 trees of 7 places | `CallersAreNotBlamed`, `SuccessMeansDone`, `WalkSeesAllThatLasts`, `ScanIsExact`, `HighestLayerWins` |
| `NexusStuck`, `StreamGap` | smallest instance that shows it | the findings of section 5 |

Bounds.  `MaxTime` stops the clock, `MaxArtifacts` bounds the artifacts of a task,
`MaxSaves` (periodic saves), `MaxProcesses` (starts) and `MaxLater` (steps of the nexus
next to a shutdown or in the last process) bound `Persistence`, `MaxProcesses`,
`MaxSaves`, `MaxTokens`, `MaxCalls` and `MaxErrors` bound `Boot`, and `MaxPolls`,
`MaxServes`, `MaxStops`, `MaxCrashes` and `MaxErrors` bound `DaemonProcess`.  With
`Timeout` 1 and `MaxTime` 2 or more an agent can fall silent, be flipped, return and fall
silent again; with `Timeout` 0 one tick makes both agents of `Invocations` silent in
one sweep; two agents are enough for every race over a name or a tool and for a sweep
that treats one stale agent while the other returns.  Two processes in
`Boot` and `Persistence` are enough for a start from whatever a process left at any of
its steps, and one periodic save for one that shares the file with the final save or
overtakes it; one I/O error may be any of a start's, a save's or the exit's; three
requests for a conversation, a message in it and something else; two rotations may
overlap each other and the start.  More events than
the bus keeps are enough for a lag, for a lag after a lag and for what comes
between; one task per stream, because a stream looks at one; two webhooks, because
the worker walks a list; one feed and one notifier, because receivers do not share
anything but the log; two daemons, a terminal and a `serve`, because each hazard of
`DaemonProcess` is between two (that items acknowledged after a kill are kept needs a
third daemon, and is left to the proof).  Every safety property that a run checks is
proved for all values of the constants (section 4), so these bounds matter for
liveness only.

`Requests` keeps apart what shares no state.  A request that changed nothing
is the last one of a behaviour; changes come through HTTP and A2A, and every front
end then asks; requests to chat, webhooks, pages and agents are
not mixed when neither reads what the other changes; requests about agents, which
read no tasks, come before the first task or overtake its submission; a scan runs before any request and
each place changes at most once under it (`MaxChanges` 2 places); requests come only
under the compiled defaults (`DefaultLayers`), all other layers are only loaded.
`Width` 4 with three durations has a deadline that fits, one that wraps to a past one
and one beyond the last time.  Two pages of one task each with a
third page of nothing are enough for a token whose task is gone.  The trees have a
skipped directory, a link, a binary file, an unreadable directory or file and a
socket; `Chunk` and `Probe` 2 with contents of up to four bytes put the end of a file on
and off a chunk and a newline.

The runs of `Nexus` and `ToolInvoker` check for deadlock (the
watchdog can always sweep).  That of `Persistence` does not: with the bounds used
up, or a torn snapshot, a stopped daemon stays stopped, and so it is in `Boot`.
Nor do those of the subscribers and of `DaemonProcess`: when `MaxEvents` have been
sent, or every process id is used, the system has come to rest.  `Requests` ends with
the last request.

Fairness in `NexusLive` and `NexusStuck`: time passes; the watchdog's loop
runs until the daemon ends and none of its awaits waits for anything but a lock;
a handler that has its assignee runs on to create its task.  Agents and callers
owe nothing, so no property relies on a heartbeat, an update or a cancellation.
`TaskStream`: the loop runs on and a client that has not hung up reads.
`WebhookDelivery`: the worker runs on, and a post is answered or times out.
`EventFeed`: the handler runs on, and `select!`, which picks its branch at random,
does not take the client's frames for ever; the client owes nothing.
`ToolNotifier`: the notifier runs on, its window ends and its send returns.
`DaemonProcess`: a process and a command run on; whoever holds a stream owes nothing.

Symmetry is used where no liveness is checked: in `Invocations` task and tool
ids are interchangeable, and so are the agents, which have no skills there, together
with their names; in `Boot` agents, messages, webhooks and tools each; in
`Requests` the two agents, which want one name.

## 4. The proofs

Each module of proofs states an inductive invariant, proves that every action keeps it
(one lemma or step per action, one step below it per part the action disturbs), and
draws the theorems from it.  They hold for all values of the constants that satisfy the
named assumptions, most of which say that a value that means "none" is not a real one
and that a bound is a number.

| Theorem | Statement | Why it is not inductive as it stands, and what is |
|---|---|---|
| `TypeCorrect` | `[]TypeOK` of `Nexus` | is |
| `NameIndexCorrect`, `ContextIndexCorrect` | the indices are exact | are, together with the types |
| `NoWorkIsLeftBehind`, `SweepsWrongOnlyReturningAgents` | a live task of a lost agent is about to be halted or came late; an agent a sweep treats as dead was silent or has returned | `SweepInvariant`: stale agents exist only in phases 2 and 3, and the sweep's clock is not in the future |
| `EventsAreTheChanges` | each step publishes exactly what it changed | an action property, from the types: a sweep updates a set of tasks and publishes as many events |
| `NexusImplementsTaskLifecycle` | refinement of `TaskLifecycle` | each action maps every task to itself or to one of the three moves |
| `CallsLeaveNoWorkBehind`, `CallsReachTheirProvider` | `NoWorkLeftBehind` while tools are called; a tool's task is for the agent that offers it, or the tool was withdrawn | `InvokerInvariant`: what a call has found is what the registry holds or has lost (`FoundOrGone`), and its submission is pinned to that provider (`SubmitsToProvider`); a call takes a step of the nexus or leaves it alone |
| `PersistenceTypeCorrect`, `IndicesSurviveRestarts`, `AssigneesStayKnown`, `OrderlyRestartLosesNothing`, `OnlyRacesAndCutSweepsStrandWork` | the properties of run `Restart` | `PersistenceInvariant`: memory is sound, every image on disk or on its way there is sound (no two agents of one name, no unknown assignee); the image of the final save is memory but for what is `unsaved`, and as long as nothing has disturbed it that is what the file holds; work an image holds that nobody would halt is late or `orphaned` |
| `ToolIndexCorrect`, `ConversationsStayWhole` | `ToolIndexExact`, `ConversationsAreWhole` through restarts | the same of the snapshot on disk and of the image being written |
| `OnlyCutFilesRefuse` | a file that refuses a start is one whose last write was cut short | each half-written file has a writer that is at it, alone or with the other, or was cut short (`CutInvariant`) |
| `SettledDaemonHasTheToken` | `QuietDaemonHasTheToken` | a token other than the one in the file has a signal or a rotation on its way that will make it good or tell of its failure (`TokenInvariant`, `Covered`) |
| `StreamsNeverGoBack` | `StreamNeverGoesBack` | what the client knows, what is in the channel and what the loop holds are in the order of the log, and none is ahead of the task (`StreamInvariant`) |
| `NothingElseIsLost` | `OnlyGapAndLagLose` | the log tells of every task what the manager holds (`LogInvariant`), and of a stream that has lost nothing the client has been told all up to its moment or finds the first message in front of it, while what lies between that moment and the cursor is in the channel or in the loop's hand (`TellsInvariant`) |
| `NothingIsPostedAfterDelete`, `NoEventIsPassedOver`, `OutcomesAreHonest` | the safety properties of run `Webhooks` | the place of the worker in the log, the event in its hand, and the deliveries on either side of it |
| `UndisturbedDaemonIsFound`, `SuccessorsLoseNothing` | `UndisturbedIsFound`, `NothingLostWithoutOverlap` | `DaemonInvariant`: two processes alive at once are both disturbed (`Met`), a file that names an undisturbed process is its own and nobody is about to remove it (`Named`, `OwnsItsFiles`), and what is acknowledged and not `risked` is with the one process that serves, or on disk, which is torn only when all is risked (`Lossless`, `Saved`) |
| `FeedTypesCorrect`, `FeedsAreExact` | the types of the feeds; `FeedIsExact` | `FeedOnTrack`: what was sent and what the handler holds is, in order, each matching event between the start and the cursor, so the next one goes to the end (`Sent`) |
| `NoChangePassesUntold` | a notifier outside a window has told of each change it has behind it, or lost it to a lag | `NotifierOnTrack`: each tool event behind the cursor was told after the fact, was lost to a lag, or a window is open; the safety side of `ToolChangesAreTold` |
| `DaemonTypesCorrect` | `BootTypeOK` | `HookInvariant`: no list of webhooks is empty and each holds webhooks of its own task, and an image, on disk or on its way there, is such a map flattened in some order (`HooksSaved`) |
| `OrderlyStopsKeepServices` | `OrderlyStopKeepsServices` | an action property, from `OrderlyInvariant`: as long as nothing has disturbed the shutdown, the image of the final save, and then the file, holds what memory holds (`Current`); flattening the lists of webhooks in any order of the tasks and restoring them gives the same map (`RestoreGivesBack`), which one task cannot show |
| `NobodyIsBlamed`, `CommandsAreHonest` | `CallersAreNotBlamed`, `SuccessMeansDone` | each request, by each front end, gives an outcome out of those its operation can have (`Possible`), and the error tables of the front ends are fair for those (`AnswersFairly`); a submission under way came from one of them, so its answer is fair as well |
| `WalksMissNothing` | `WalkSeesAllThatLasts` | `WalkKeepsUp`: what was there when the client began and still is has been read or comes behind the last id read; requests between two pages take tasks out of the list or put new ones in, and never bring one back (`ListOnlyGrowsAhead`) |
| `LayersRank` | `HighestLayerWins` | `Merge` and `Over` key by key, then `Resolve` |
| `ScansAreExact` | `ScanIsExact` | `ScanKept`: no place can come by two entries of the open directories (`Apart`), an entry that stays was listed exactly if it was there (`Entries`), each file due is counted or ahead and none is both (`Counts`), and the list holds what was counted as long as there was room (`Lists`); `ChunksCountLines`: counting chunk by chunk is counting at once |
| `StatesSurvive`, `AcceptedMessagesAreWhole`, `MessagesSurvive` (of `Conversions`) | what goes over the wire comes back | by cases; numbers and unset values are the reason for `Plain` |

`PersistenceAssumption` says that there are finitely many tasks, because the
rebuilt context index lists those of each context.  `BroadcastAssumption`, `StreamAssumption`
and `FeedAssumption` say that channels hold at least one event, as
tokio requires.

`ConfigurationAssumption` says that a value of a wrong type is neither a table nor a
default, that only keys of paths are compiled paths, and that layers set only the keys
the model keeps; `CodeScanAssumption` that the workspace has finitely many places, that
no directory is inside itself, that page and chunk are not empty, and that what is
there at first is in directories that are there.

The definitions are written so that no proof needs an induction over data.  What lies
above a directory is a least closed set, a list without some of its entries is given by
the ranks of the places that stay, and an order of webhooks is a bijection.  That the line
counter is right after every chunk is shown by the least byte at which it would not be.

Only model-checked, because the prover cannot reach it, is liveness:
`SilentAgentIsFlipped`, `OverdueTaskEnds`, `LostWorkHalts`, `StreamCatchesUp`,
`EveryDeliveryEnds`, `FeedCatchesUp`, `ToolChangesAreTold`, `UndisturbedComesUp` and
`CancelledEnds`.  The types of `TaskStream`, `WebhookDelivery` and `DaemonProcess` are
parts of their inductive invariants and not stated as theorems of their own.

## 5. Where code and documents differ

Two of them have a run that shows them:

| Run | What happens | What is written |
|---|---|---|
| `NexusStuck` | A submission checks its agent, the sweep flips the agent and fails its tasks, the submission creates its task.  The task stays `Submitted` at a disconnected agent for ever: later sweeps only treat agents they flip themselves. | `core/watchdog.rs:7` "visibly halted rather than silently stuck" |
| `StreamGap` | A task is fetched for a stream, changes, and only then does the stream subscribe: the client is never told. | `grpc/service.rs:66` "so the client never misses state" |

The models contain these as well, as behaviours that no run singles out:

| Module | What happens | What is written |
|---|---|---|
| `Nexus` | A heartbeat between phases 1 and 2 of a sweep is overlooked and a live agent is flipped, with its tasks. | `adrs/019`:26 agents whose heartbeat is older than the timeout flip |
| `ToolRegistry`, `Nexus` | The tools of an agent stay when it deregisters or falls silent. | `adrs/016-tool-registry.md`:68 "agent's tools are deregistered" |
| `Persistence` (`DaemonCanStartAgain`) | The snapshot is overwritten in place; a crash during the write leaves a file that fails to decrypt, and every later start fails. | `architecture.md:76` "snapshot + journal for crash recovery" |
| `Persistence` | A snapshot, also the final one, is taken while a sweep is between phases 2 and 3: a daemon that restarts from it never halts that work. | `server/mod.rs:313` "a hard abort is acceptable" |
| `Persistence`, `Boot`, `DaemonProcess` | The workers are aborted and not waited for (line 315), and a gRPC server that does not drain is given up (line 310): a sweep or a request changes what has been saved, and a periodic save that has begun shares the file with the final one, or replaces it by an older state, or ends torn with the process. | `server/mod.rs:313` "hold no client-visible state so a hard abort is acceptable" |
| `Persistence`, `Boot`, `DaemonProcess` | A final save that fails is logged, and the daemon exits as if it had stopped in order; its successor loads the old state, or finds a torn file and does not start. | `adrs/009`:9 "must survive daemon restarts" |
| `Boot`, `DaemonProcess` | A first start whose write of the token or of the key fails (`server/auth.rs:87`, `state/crypto.rs:39`) leaves a file that every later start refuses. | nothing |
| `Persistence` | Nothing but the snapshot is loaded at a start. | `adrs/009`:39 "replays any journal entries" |
| `Boot` | A rotation signals the PID in the file before the daemon has installed its handler: the default action of SIGHUP ends the daemon, perhaps while it writes its key, and then no daemon starts again. | `README.md:96` "without restarting the daemon" |
| `Boot` | A rotation whose signal fails reports an error, and has replaced the file. | nothing |
| `Boot` | A start that fails after the bind leaves its socket and its PID file. | nothing |
| `EventFeed` | A WebSocket whose client stops reading waits in its send; the connection stays open. | `server/ws.rs:11` "or the send buffer is full, the connection is closed" |
| `DaemonProcess` (`StateSurvivesRestarts`) | `stop` then `start` from one terminal: the new daemon loads the snapshot before the old one writes it, and the old one then removes the new one's files. | `adrs/009`:9 "must survive daemon restarts" |
| `DaemonProcess` | `stop` returns when the socket refuses, which is at the start of the drain. | `cli/stop.rs:16` "waits up to 5 seconds for the process to exit" |
| `DaemonProcess` | Two starts check before either daemon listens; the second daemon removes the socket of the first. | `server/mod.rs:71` "Remove stale socket left by a previous run" |
| `DaemonProcess` | The socket accepts before the PID file is written. | `server/mod.rs:115` "can find the daemon as soon as it is reachable" |
| `DaemonProcess` | A client keeps an event stream open: the daemon drains for ever. | `adrs/008`:19 "gracefully shuts down the daemon" |
| `TaskRequests` | `deadline_ms` is cast to a signed number: a large one is a deadline in the past; one beyond the calendar ends the request in a panic, without an answer. | nothing |
| `Clients` | A response without a status line counts as 200, so a command that prints a line of its own reports success also when its connection broke; `SuccessMeansDone` excepts exactly that case (`BlindCommands`, no status line).  `trumpet status` does not look at the status at all. | `cli/status.rs:14` an error "when the socket exists but the daemon does not respond to HTTP requests" |
| `Clients` | Every refusal of the daemon becomes the same error and exit code 1. | nothing |
| `McpServer` | Submitting to an agent that is not connected, and cancelling a task that has ended, answer `internal_error`. | nothing |
| `Configuration` | The project's file is the one in the working directory, so a command and the daemon may work with different configurations. | `config/loader.rs:14` names the layer |

`NoWorkLeftBehind` is the other side of `NexusStuck`: it shows, and the proof shows
for every instance, that this race is the only way work is left behind while the
daemon runs; `OnlyCutSweepsStrandWork` adds the one way that comes with restarts.  In
the same way `OnlyGapAndLagLose` is the other side of `StreamGap`,
`OnlyCutFilesBlock` of the torn file, `QuietDaemonHasTheToken` of the lost signal,
`NothingLostWithoutOverlap` of the restart that loses, `StaleAgentsWereSilent` of the
overlooked heartbeat, `UndisturbedIsFound` of the two starts and `CancelledEnds` of the
open stream.

## 6. Assumptions

- The storage operator writes the file in place without a temporary file (no
  `atomic_write_dir` is configured).  How far a save, a sweep or a request gets that
  the shutdown has aborted or given up is left open: any number of its steps, until the
  process ends.  Two saves that have the file open at once may leave either image, or
  a mixture, which is a torn file.
- Encryption and encoding return what was put in; a torn file is rejected.
- The wall clock does not go backwards.
- The broadcast channel behaves as `Broadcast` says, for one process at a time.
- axum drops its listener when the shutdown begins and then waits for the open
  connections; a WebSocket does not count as one after its upgrade.
- The SIGTERM handler is installed by the time a daemon serves; a daemon that has
  just written its PID may be killed by the signal instead.
- A process id is not used again while a PID file holds it.
- Renaming a file over another is one step; creating and writing one is two.
- A directory that is read while it changes yields each entry that stays exactly once.

## 7. Not modelled

- The commands that follow the event stream (`cli/events.rs`, `task watch`): they
  end only when the stream does, and parse what `EventFeed` sends.  Their parser
  turns a multi-byte character that is split over two reads into replacement
  characters, which is wording.
- Parsing of source files with tree-sitter, a function of a library.
- Error texts, suggestions, logging, output formats, the texts of prompts, the types
  of MCP arguments: wording.
- The transports of MCP and gRPC (`mcp/http.rs`, tonic), including the gRPC port,
  whose failed bind is only logged.
- Timestamps, artifacts and the fields of the card in the conversions of the A2A
  service: parts again, or copies.
- Encryption and encoding of the snapshot, and its limit of 64 MiB, which is checked
  only when a snapshot is loaded.
- The check of peer credentials is one refusal, since it is the operating system's.

What is only model-checked is named in section 4.
