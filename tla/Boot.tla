-------------------------------- MODULE Boot --------------------------------
(***************************************************************************)
(* A daemon from its start to its end and the next one after it, as        *)
(* serve_with_shutdown in server/mod.rs orders the steps: token, PID file, *)
(* SIGHUP handler, key, snapshot, built-in tools; requests and periodic    *)
(* saves; the final save and the PID file again.  Meanwhile tokens are     *)
(* rotated (Secrets).  The state is what Persistence leaves out: tools,    *)
(* conversations and webhooks.                                             *)
(*                                                                         *)
(* The process may be killed at any point, from outside or by a SIGHUP it  *)
(* has no handler for, and any of its reads and writes of a file may fail. *)
(* A shutdown joins neither the timer nor the requests of servers it has   *)
(* given up, so both may go on next to the final save, until the process   *)
(* is gone; how far they get is left open (as in Persistence).             *)
(*                                                                         *)
(* One daemon runs at a time (DaemonProcess has the overlaps).  While none *)
(* runs, the state is the one of the last process, so that a start can be  *)
(* compared with it.  An id a crash lost may be drawn again, which only    *)
(* adds behaviours.                                                        *)
(***************************************************************************)
EXTENDS Secrets, ToolRegistry, Chat, WebhookStore, SnapshotFile

CONSTANTS MaxProcesses,   \* bound: starts
          MaxCalls,       \* bound: requests that change something, and rotations
          MaxSaves,       \* bound: periodic saves
          MaxErrors       \* bound: I/O errors

VARIABLES stage,          \* how far the process is
          bound,          \* calls, periodic saves and I/O errors so far
          orderly,        \* history: nothing has disturbed the last shutdown
          cut,            \* history: files whose last write was cut short
          failed          \* history: tokens whose rotation reported an error

serviceVars == <<tools, toolIndex, conversations, messages, hooks>>

bootVars == <<stage, bound, orderly, cut, failed>>

vars == <<secretVars, serviceVars, published, fileVars, bootVars>>

Dead == {"down", "refused"}

Starting == {"bound", "opening_token", "token", "pid", "opening_key", "key", "restored"}

\* "stopping" until the final save is over, "ending" until the process is.
Serving == {"up", "stopping", "ending"}

Stages == Dead \cup Starting \cup Serving

BootTypeOK ==
  /\ SecretsTypeOK /\ ToolTypeOK /\ ChatTypeOK /\ WebhookTypeOK
  /\ stage \in Stages
  /\ disk.at \in {"nothing", "torn", "saved"}
  /\ \A w \in Writers : save[w].at \in {"nothing", "taken"} \cup Open
  /\ orderly \in BOOLEAN
  /\ cut \subseteq {"token", "key", "snapshot"}
  /\ failed \subseteq Token

Init ==
  /\ SecretsInit /\ ToolInit /\ ChatInit /\ WebhookInit /\ published = {}
  /\ stage = "down"
  /\ disk = Nothing
  /\ save = NoSaves
  /\ bound = [calls |-> 0, saves |-> 0, errors |-> 0]
  /\ orderly = FALSE
  /\ cut = {}
  /\ failed = {}

Alive == stage \notin Dead

\* The steps that only the process takes, and what they leave alone.
Enter(from, to) ==
  /\ stage = from
  /\ stage' = to
  /\ UNCHANGED <<bound, cut, failed>>

ServicesSame == Silent /\ UNCHANGED serviceVars

DiskSame == UNCHANGED fileVars

IOError ==
  /\ bound.errors < MaxErrors
  /\ bound' = [bound EXCEPT !.errors = @ + 1]

Called ==
  /\ bound.calls < MaxCalls
  /\ bound' = [bound EXCEPT !.calls = @ + 1]

\* The files that what happens now leaves half written.
CutShort ==
  {f \in {"token", "key", "snapshot"} :
     \/ f = "token" /\ stage = "opening_token" /\ tokenFile = Started
     \/ f = "key" /\ stage = "opening_key"
     \/ f = "snapshot" /\ \E w \in Writers : save[w].at \in Open}

-----------------------------------------------------------------------------
(* The start *)

\* The socket is bound; from here on there is a process to end.
Bind ==
  /\ stage \in Dead
  /\ stage' = "bound"
  /\ process < MaxProcesses
  /\ process' = process + 1
  /\ handler' = FALSE
  /\ hup' = FALSE
  /\ slot' = NoToken
  /\ ServicesSame /\ DiskSame
  /\ UNCHANGED <<tokenFile, keyFile, pidFile, rotator, drawn, bound, orderly, cut, failed>>

LoadToken ==
  /\ \/ Enter("bound", "token") /\ ReadToken
     \/ Enter("bound", "opening_token") /\ OpenToken
     \/ Enter("opening_token", "token") /\ WriteToken
  /\ ServicesSame /\ DiskSame /\ UNCHANGED orderly

\* The task of the handler is spawned here and installs it when it first runs.
WritePid ==
  /\ Enter("token", "pid")
  /\ pidFile' = process
  /\ ServicesSame /\ DiskSame
  /\ UNCHANGED <<tokenFile, keyFile, slot, process, handler, hup, rotator, drawn, orderly>>

LoadKey ==
  /\ \/ Enter("pid", "key") /\ keyFile = Complete /\ UNCHANGED secretVars
     \/ Enter("pid", "opening_key") /\ OpenKey
     \/ Enter("opening_key", "key") /\ WriteKey
  /\ ServicesSame /\ DiskSame /\ UNCHANGED orderly

\* A token file without a token, a key that is too short, a torn snapshot:
\* the start ends with an error and cleans up nothing.
Refuse ==
  /\ \/ stage = "bound" /\ tokenFile = Started
     \/ stage = "pid" /\ keyFile = Started
     \/ stage = "key" /\ disk = Torn
  /\ stage' = "refused"
  /\ ServicesSame /\ DiskSame
  /\ UNCHANGED <<secretVars, bound, orderly, cut, failed>>

\* An I/O error ends the start in the same way, after any part of a step: the
\* token or the key is half written, the PID file empty or about to be restricted.
FailStart ==
  /\ stage \in Starting
  /\ IOError
  /\ stage' = "refused"
  /\ cut' = cut \cup CutShort
  /\ pidFile' \in IF stage = "token" THEN {pidFile, NoPid, process} ELSE {pidFile}
  /\ orderly' = (orderly /\ stage # "restored")
  /\ ServicesSame /\ DiskSame
  /\ UNCHANGED <<tokenFile, keyFile, slot, process, handler, hup, rotator, drawn, failed>>

\* Without a snapshot the state is empty.
LoadSnapshot ==
  /\ Enter("key", "restored")
  /\ \/ /\ disk = Nothing
        /\ tools' = [k \in ToolIds |-> NoInfo]
        /\ toolIndex' = [n \in ToolNames |-> NoTool]
        /\ conversations' = EmptyMap /\ messages' = EmptyMap
        /\ hooks' = [t \in {} |-> <<>>]
     \/ /\ disk.at = "saved"
        /\ RestoreTools(disk.image.tools)
        /\ RestoreChat(disk.image.chat)
        /\ RestoreHooks(disk.image.hooks)
  /\ Silent /\ DiskSame
  /\ UNCHANGED <<secretVars, orderly>>

\* register_code_tools: a name that is taken is only worth a warning.
RegisterBuiltin ==
  /\ stage = "restored"
  /\ \E n \in BuiltinNames, k \in ToolIds : RegisterTool(k, n, BuiltIn)
  /\ DiskSame
  /\ UNCHANGED <<secretVars, conversations, messages, hooks, bootVars>>

StartServing ==
  /\ Enter("restored", "up")
  /\ \A n \in BuiltinNames : FindByName(n) # NoTool
  /\ orderly' = FALSE
  /\ ServicesSame /\ DiskSame
  /\ UNCHANGED secretVars

-----------------------------------------------------------------------------
(* The daemon at work *)

ToolRequest ==
  /\ \/ \E k \in ToolIds, n \in ToolNames, p \in AgentIds : RegisterTool(k, n, p)
     \/ \E k \in ToolIds : DeregisterTool(k)
  /\ UNCHANGED <<conversations, messages, hooks>>

ChatRequest ==
  /\ \/ \E c \in ConversationIds, P \in SUBSET AgentIds : CreateConversation(c, P)
     \/ \E c \in ConversationIds, s \in AgentIds, m \in MessageIds : SendMessage(c, s, m)
  /\ UNCHANGED <<tools, toolIndex, hooks>>

WebhookRequest ==
  /\ \/ \E t \in WebhookTasks, w \in WebhookIds, url \in Urls : CreateHook(t, w, url)
     \/ \E t \in WebhookTasks, w \in WebhookIds : DeleteHook(t, w)
  /\ Silent
  /\ UNCHANGED <<tools, toolIndex, conversations, messages>>

\* A request of a server that was given up may come after the final snapshot.
Request ==
  /\ stage \in Serving
  /\ Called
  /\ ToolRequest \/ ChatRequest \/ WebhookRequest
  /\ orderly' = FALSE
  /\ DiskSame
  /\ UNCHANGED <<secretVars, stage, cut, failed>>

\* The handler's task runs for the first time, however far the start is.
Install ==
  /\ stage \in {"pid", "opening_key", "key", "restored", "up"}
  /\ InstallHandler
  /\ ServicesSame /\ DiskSame
  /\ UNCHANGED bootVars

\* The handler ends when the daemon is told to stop, and its signal is lost.
ReloadToken ==
  /\ stage \in {"pid", "opening_key", "key", "restored", "up"}
  /\ Reload
  /\ ServicesSame /\ DiskSame
  /\ UNCHANGED bootVars

Rotate ==
  /\ \/ \E r \in Rotators : RotateReadPid(r) /\ Called /\ UNCHANGED failed
     \/ \E r \in Rotators : RotateRename(r) /\ UNCHANGED <<bound, failed>>
     \/ \E r \in Rotators :
          /\ RotateSignal(r, Alive)
          /\ UNCHANGED bound
          /\ failed' = IF Alive /\ rotator[r].pid = process
                       THEN failed ELSE failed \cup {rotator[r].token}
  /\ ServicesSame /\ DiskSame
  /\ UNCHANGED <<stage, orderly, cut>>

-----------------------------------------------------------------------------
(* Saving and stopping *)

Snapshot(chosen) == [tools |-> tools, chat |-> SavedChat, hooks |-> chosen]

\* The interval of the timer has passed: to_snapshot.
TakeSnapshot ==
  /\ stage \in Serving
  /\ bound.saves < MaxSaves
  /\ bound' = [bound EXCEPT !.saves = @ + 1]
  /\ \E chosen \in AllHooks : Takes("timer", Snapshot(chosen))
  /\ ServicesSame
  /\ UNCHANGED <<secretVars, stage, orderly, cut, failed>>

\* The timer that opens the file after the final save, or while that has it
\* open, disturbs the shutdown.
BeginSave(w) ==
  /\ Opens(w)
  /\ orderly' = (orderly /\ save'[w].at = "writing" /\ stage # "ending")
  /\ ServicesSame
  /\ UNCHANGED <<secretVars, stage, bound, cut, failed>>

\* The final save is over, one way or the other.
Over(w) == stage' = IF w = "shutdown" THEN "ending" ELSE stage

\* A save that had the file to itself leaves it whole.
EndSave(w) ==
  /\ Completes(w)
  /\ Over(w)
  /\ cut' = IF save[w].at = "writing" THEN cut \ {"snapshot"} ELSE cut \cup {"snapshot"}
  /\ ServicesSame
  /\ UNCHANGED <<secretVars, bound, orderly, failed>>

\* An I/O error is logged and nothing else is done about it.
FailSave(w) ==
  /\ Fails(w)
  /\ IOError
  /\ Over(w)
  /\ cut' = IF save[w].at \in Open THEN cut \cup {"snapshot"} ELSE cut
  /\ orderly' = (orderly /\ w = "timer")
  /\ ServicesSame
  /\ UNCHANGED <<secretVars, failed>>

\* The servers have drained or were given up, and the timer is told to abort.
Stop ==
  /\ stage = "up"
  /\ stage' = "stopping"
  /\ orderly' = TRUE
  /\ \E chosen \in AllHooks : Takes("shutdown", Snapshot(chosen))
  /\ ServicesSame
  /\ UNCHANGED <<secretVars, bound, cut, failed>>

\* Mutant: the final save is spawned, and nobody waits for it.
ExitAtOnce ==
  /\ stage \in {"stopping", "ending"}
  /\ stage' = "down"
  /\ pidFile' = NoPid
  /\ save' = NoSaves
  /\ cut' = IF save["timer"].at \in Open THEN cut \cup {"snapshot"} ELSE cut
  /\ ServicesSame
  /\ UNCHANGED <<tokenFile, keyFile, slot, process, handler, hup, rotator, drawn,
                 disk, bound, orderly, failed>>

\* The PID file is removed, as far as that succeeds, and the process ends: with
\* it what the timer is doing.
Exit ==
  /\ stage = "ending"
  /\ stage' = "down"
  /\ \/ pidFile' = NoPid /\ UNCHANGED bound
     \/ IOError /\ UNCHANGED pidFile
  /\ save' = NoSaves
  /\ cut' = IF save["timer"].at \in Open THEN cut \cup {"snapshot"} ELSE cut
  /\ ServicesSame
  /\ UNCHANGED <<tokenFile, keyFile, slot, process, handler, hup, rotator, drawn,
                 disk, orderly, failed>>

\* The process is killed; a file it was writing stays as it is.
Die ==
  /\ stage' = "down"
  /\ save' = NoSaves
  /\ cut' = cut \cup CutShort
  /\ orderly' = FALSE
  /\ ServicesSame
  /\ UNCHANGED <<secretVars, disk, bound, failed>>

Crash == Alive /\ Die

\* The default action of a SIGHUP is to end the process.
HangUp == Alive /\ hup /\ ~handler /\ Die

-----------------------------------------------------------------------------

Start ==
  \/ Bind
  \/ LoadToken
  \/ WritePid
  \/ LoadKey
  \/ Refuse
  \/ FailStart
  \/ LoadSnapshot
  \/ RegisterBuiltin
  \/ StartServing

Work ==
  \/ Request
  \/ Install
  \/ ReloadToken
  \/ Rotate
  \/ TakeSnapshot
  \/ \E w \in Writers : BeginSave(w) \/ EndSave(w) \/ FailSave(w)

Next ==
  \/ Start
  \/ Work
  \/ Stop
  \/ Exit
  \/ Crash
  \/ HangUp

Spec == Init /\ [][Next]_vars

-----------------------------------------------------------------------------
(* Properties *)

(***************************************************************************)
(* A daemon that has settled takes the token in the file, or a rotation    *)
(* told its caller that it failed after it had changed the file            *)
(* (cli/auth.rs reads the PID first and signals last; server/mod.rs reads  *)
(* the token first and installs its handler last).                         *)
(***************************************************************************)
QuietDaemonHasTheToken ==
  stage = "up" /\ handler /\ ~hup /\ (\A r \in Rotators : rotator[r] = NotRotating) =>
    slot = tokenFile \/ tokenFile \in failed

(***************************************************************************)
(* When no process runs, a token, a key or a snapshot that will refuse the *)
(* next start is one whose last write was cut short: by a kill, by an I/O  *)
(* error, or, the snapshot only, because the shutdown does not wait for    *)
(* the timer's save.  No order of starts, stops, saves and rotations       *)
(* leaves such a file otherwise, and a save that completes alone mends the *)
(* snapshot (server/auth.rs, state/crypto.rs, state/mod.rs, server/mod.rs, *)
(* where failed saves are logged only).                                    *)
(***************************************************************************)
OnlyCutFilesBlock ==
  stage \in Dead =>
    /\ tokenFile = Started => "token" \in cut
    /\ keyFile = Started => "key" \in cut
    /\ disk = Torn => "snapshot" \in cut

(***************************************************************************)
(* A start after an orderly stop restores every tool, conversation,        *)
(* message and webhook, and the built-in tools are not registered twice    *)
(* (state.rs, the restore methods, register_code_tools): a stop whose      *)
(* final save succeeded and was not disturbed by a straggling request or   *)
(* save.                                                                   *)
(***************************************************************************)
OrderlyStopKeepsServices ==
  [][orderly /\ stage \in Dead \cup Starting =>
       /\ UNCHANGED <<conversations, messages, hooks>>
       /\ \A k \in Tools : tools'[k] = tools[k] /\ toolIndex'[tools[k].name] = k]_vars

=============================================================================
