---------------------------- MODULE ToolInvoker -----------------------------
(***************************************************************************)
(* ToolInvoker (core/tool_invoker.rs) on top of the nexus: a call of a     *)
(* tool looks the tool up, looks at its provider and submits a task to it, *)
(* each under another lock.  In between the tool and its provider may come *)
(* and go, and the watchdog sweeps.                                        *)
(*                                                                         *)
(* The handler r of a call is also the handler of its submission: once the *)
(* facade has resolved the assignee, request[r] holds the rest of the call.*)
(***************************************************************************)
EXTENDS Nexus, ToolRegistry

VARIABLES invocation,    \* locals of ToolInvoker::invoke, by handler
          toolName       \* "tool_name" in the metadata of a task's first message

toolVars == <<tools, toolIndex>>

invokerVars == <<vars, toolVars, invocation, toolName>>

NoToolName == "no_tool"

\* The tool is kept for the properties; the code keeps its name and provider.
Found == [at : {"found", "checked"}, tool : ToolIds, name : ToolNames, provider : ToolProvider]

InvokerTypeOK ==
  /\ TypeOK
  /\ ToolTypeOK
  /\ invocation \in [Requests -> Found \cup {Idle}]
  /\ toolName \in [TaskIds -> ToolNames \cup {NoToolName}]

InvokerInit ==
  /\ Init
  /\ ToolInit
  /\ invocation = [r \in Requests |-> Idle]
  /\ toolName = [t \in TaskIds |-> NoToolName]

-----------------------------------------------------------------------------
(* One call *)

NexusSame == UNCHANGED <<agents, nameIndex, tasks, contextIndex, clock, request, sweepVars, late>>

\* find_by_name under the read lock of the tools; an unknown name is an error.
LookUp(r, n) ==
  LET k == FindByName(n)
  IN  /\ request[r] = Idle
      /\ invocation[r] = Idle
      /\ k # NoTool
      /\ invocation' = [invocation EXCEPT ![r] =
           [at |-> "found", tool |-> k, name |-> n, provider |-> tools[k].provider]]
      /\ Silent
      /\ NexusSame
      /\ UNCHANGED <<toolVars, toolName>>

\* A built-in tool runs in the process; its output or its error is the answer.
RunBuiltin(r) ==
  /\ invocation[r] # Idle
  /\ invocation[r].provider = BuiltIn
  /\ invocation' = [invocation EXCEPT ![r] = Idle]
  /\ Silent
  /\ NexusSame
  /\ UNCHANGED <<toolVars, toolName>>

\* The provider must be registered and connected, or the call ends in an error.
CheckProvider(r) ==
  /\ invocation[r] # Idle
  /\ invocation[r].at = "found"
  /\ invocation[r].provider \in AgentIds
  /\ invocation' = [invocation EXCEPT ![r] =
       IF invocation[r].provider \in Connected THEN [@ EXCEPT !.at = "checked"] ELSE Idle]
  /\ Silent
  /\ NexusSame
  /\ UNCHANGED <<toolVars, toolName>>

\* Mutant: the task is submitted without its assignee, for the router to place.
SubmitToolTaskRouted(r, c) ==
  /\ invocation[r] # Idle
  /\ invocation[r].at = "checked"
  /\ SubmitRouted(r, {}, c, NoDeadline)
  /\ UNCHANGED <<toolVars, invocation, toolName>>

\* facade.submit_task with the provider as assignee: its check ...
SubmitToolTask(r, c) ==
  /\ invocation[r] # Idle
  /\ invocation[r].at = "checked"
  /\ SubmitPinned(r, invocation[r].provider, c, NoDeadline)
  /\ UNCHANGED <<toolVars, invocation, toolName>>

\* ... which may fail by now ...
RefuseToolTask(r) ==
  /\ invocation[r] # Idle
  /\ invocation[r].at = "checked"
  /\ request[r] = Idle
  /\ invocation[r].provider \notin Connected
  /\ invocation' = [invocation EXCEPT ![r] = Idle]
  /\ Silent
  /\ NexusSame
  /\ UNCHANGED <<toolVars, toolName>>

\* ... and the creation of the task, which ends the call.
FinishCall(r, t) ==
  /\ FinishSubmit(r, t)
  /\ invocation' = [invocation EXCEPT ![r] = Idle]
  /\ toolName' = [toolName EXCEPT ![t] =
       IF invocation[r] = Idle THEN NoToolName ELSE invocation[r].name]
  /\ UNCHANGED toolVars

-----------------------------------------------------------------------------
(* The registry of tools, and the nexus at work *)

ToolStep == NexusSame /\ UNCHANGED <<invocation, toolName>>

OfferTool(k, n, p) == RegisterTool(k, n, p) /\ ToolStep

WithdrawTool(k) == DeregisterTool(k) /\ ToolStep

\* A handler that is inside a call of a tool takes no other request.
OtherRequest ==
  \/ \E r \in Requests, c \in Contexts, d \in Deadlines \cup {NoDeadline} :
       /\ invocation[r] = Idle
       /\ \/ \E a \in AgentIds : SubmitPinned(r, a, c, d)
          \/ \E required \in SUBSET Tags : SubmitRouted(r, required, c, d)
  \/ \E t \in TaskIds, new \in TaskState : UpdateTask(t, new)
  \/ \E t \in TaskIds : CancelTask(t) \/ AddTaskArtifact(t)

InvokerNext ==
  \/ \E r \in Requests :
       \/ \E n \in ToolNames : LookUp(r, n)
       \/ RunBuiltin(r)
       \/ CheckProvider(r)
       \/ \E c \in Contexts : SubmitToolTask(r, c)
       \/ RefuseToolTask(r)
       \/ \E t \in TaskIds : FinishCall(r, t)
  \/ \E k \in ToolIds :
       \/ \E n \in ToolNames, p \in ToolProvider : OfferTool(k, n, p)
       \/ WithdrawTool(k)
  \/ /\ Tick \/ AgentNext \/ OtherRequest \/ WatchdogNext
     /\ UNCHANGED <<toolVars, invocation, toolName>>

InvokerSpec == InvokerInit /\ [][InvokerNext]_invokerVars

-----------------------------------------------------------------------------
(* Properties *)

(***************************************************************************)
(* The task of a call goes to the agent that offers the tool called, or    *)
(* the tool was withdrawn while the call was running (tool_invoker.rs      *)
(* invoke clones the provider and releases the lock of the tools before it *)
(* checks the provider and submits).                                       *)
(***************************************************************************)
ToolTasksReachTheirProvider ==
  [][\A t \in Born' \ Born, r \in Requests :
       invocation[r] # Idle /\ invocation'[r] = Idle /\ toolName'[t] # NoToolName =>
         \/ /\ FindByName(toolName'[t]) # NoTool
            /\ tools[FindByName(toolName'[t])].provider = tasks'[t].assignee
         \/ tools[invocation[r].tool] = Gone]_invokerVars

=============================================================================
