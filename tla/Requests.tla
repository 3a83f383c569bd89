------------------------------ MODULE Requests ------------------------------
(***************************************************************************)
(* The daemon seen from its clients: it loads its configuration, then      *)
(* answers requests of the HTTP routes, the command line, MCP and A2A, and *)
(* runs the built-in code tools while the files of the workspace change.   *)
(*                                                                         *)
(* Bounds that keep apart what shares no state: requests come only under   *)
(* the first of the layers, and a scan runs only before the managers hold  *)
(* anything and until its result is answered.                              *)
(***************************************************************************)
EXTENDS HttpRoutes, McpServer, Clients, Configuration, CodeScan

CONSTANT DefaultLayers   \* bound: the layers under which requests come

ASSUME RequestsAssumption == DefaultLayers \in LayerChoices

vars == <<managers, published, reply, submission, walk, layers, config, scanVars>>

\* What a request to the managers leaves alone.
outside == <<layers, config, scanVars>>

Init ==
  /\ RegistryInit /\ TaskInit /\ ChatInit /\ WebhookInit
  /\ published = {} /\ reply = None /\ submission = None /\ walk = None
  /\ ConfigInit /\ ScanInit
  /\ layers # DefaultLayers => tree = CHOOSE t \in Trees : TRUE

-----------------------------------------------------------------------------
(* Bounds *)

Serving == layers = DefaultLayers /\ HasConfig

(***************************************************************************)
(* A request that changed nothing is the last one, since what may follow   *)
(* it may follow without it as well.  Of the fronts through which a change *)
(* can come one is enough to go on from, and to be overtaken in a          *)
(* submission; what overtakes it is a change of agents or tasks.           *)
(***************************************************************************)
Leading == {"http", "grpc"}

Changes == {"register_agent", "heartbeat_agent", "deregister_agent", "create_conversation",
            "send_message", "submit_task", "cancel_task", "create_webhook", "delete_webhook",
            "list_tasks"}

GoesOn ==
  /\ reply # None => reply.op \in Changes /\ reply.outcome = "Ok" /\ reply.front \in Leading
  /\ submission # None => submission.front \in Leading

NoAgents        == \A a \in AgentIds : agents[a].status = "Unregistered"
NoTasks         == Born = {} /\ submission = None
NoConversations == conversations = EmptyMap
NoHooks         == hooks = [t \in {} |-> <<>>]
NoRequests      == reply = None /\ submission = None /\ walk = None

-----------------------------------------------------------------------------
(* Requests to the managers *)

\* They come before any task is there, or overtake the submission of the first.
AgentRequests ==
  /\ NoConversations /\ NoHooks /\ walk = None /\ Born = {}
  /\ \/ HttpRegisterAgent \/ HttpHeartbeatAgent \/ HttpDeregisterAgent
     \/ McpRegisterAgent \/ McpHeartbeatAgent \/ McpDeregisterAgent
     \/ AgentRegisterCommand \/ AgentHeartbeatCommand \/ AgentDeregisterCommand
     \/ AgentGetCommand
     \/ \E a \in AgentIds : AgentFallsSilent(a)

ChatRequests ==
  /\ NoAgents /\ NoTasks /\ walk = None
  /\ \/ HttpCreateConversation \/ HttpGetConversation \/ HttpSendMessage \/ HttpGetMessages
     \/ McpCreateConversation \/ McpSendMessage \/ McpGetMessages
     \/ ChatNewCommand \/ ChatSendCommand \/ ChatHistoryCommand

\* Deadlines come with the first submission only: nothing here reads them.
SubmitRequests ==
  LET assignees == IF walk = None THEN AgentIds ELSE {}
      deadlines == IF NoAgents /\ NoTasks THEN Milliseconds ELSE {}
  IN  /\ NoConversations /\ NoHooks
      /\ walk # None => NoAgents
      /\ \/ HttpSubmitTask(assignees, deadlines) \/ McpSubmitTask(assignees, deadlines)
         \/ TaskSubmitCommand(assignees, deadlines) \/ A2aSendMessage

TaskRequestsOnly ==
  /\ NoConversations
  /\ \/ HttpGetTask \/ McpGetTask \/ TaskGetCommand \/ A2aGetTask
     \/ HttpCancelTask \/ McpCancelTask \/ TaskCancelCommand \/ A2aCancelTask

PageRequests ==
  /\ NoAgents /\ NoHooks /\ NoConversations
  /\ \E c \in Contexts \cup {NoContext}, s \in {AnyState, "Submitted"}, size \in PageSizes :
       ReadPage(c, s, size)

ListRequests ==
  \/ HealthCheck \/ HttpListTasks \/ HttpListAgents \/ HttpListConversations \/ HttpListTools
  \/ McpListTasks \/ McpListAgents \/ McpListConversations \/ McpListTools
  \/ McpListResources \/ McpReadResource \/ McpListPrompts \/ McpGetPrompt
  \/ TaskListCommand \/ AgentListCommand \/ ChatListCommand \/ ToolListCommand
  \/ StatusCommand \/ ForeignPeer \/ Unauthenticated \/ GetCard
  \/ \E op \in {"submit_task", "send_message", "call_tool"} : BodyTooLarge(op)

WebhookRequests ==
  /\ NoAgents /\ NoConversations /\ walk = None
  /\ \E t \in AnyTaskId :
       \/ \E url \in Urls \cup {BadUrl} : CreateWebhook(t, url)
       \/ \E w \in AnyWebhookId : GetWebhook(t, w) \/ DeleteWebhook(t, w)
       \/ ListWebhooks(t)

-----------------------------------------------------------------------------
(* Tools: the registry holds the built-in ones *)

Paths == Nodes \cup {Outside, Missing, NoInput}

\* Everything but a scan that gets into its directory.
CallTool(front) ==
  \/ Read(front, "call_tool", "ToolNotFound")
  \/ \E tool \in BuiltinTools, p \in Paths :
       /\ tool = "code.scan_repo" => CodeToolOutcome(tool, p) # "Ok"
       /\ Read(front, "call_tool", CodeToolOutcome(tool, p))

HttpInvokeTool == CallTool("http")

\* An input that is no JSON is refused by the command itself.
ToolInvokeCommand ==
  \/ Command("call_tool", CallTool("cli"))
  \/ /\ reply' = [front |-> "cli", op |-> "call_tool", outcome |-> "InvalidInput", answer |-> "local"]
     /\ Silent
     /\ UNCHANGED <<managers, submission, walk>>

\* A name that is not one of the server's own tools goes to the invoker.
McpCallTool == CallTool("mcp")

AnswerScan(front) ==
  /\ scan.op \in {"scanned", "failed"} /\ reply = None
  /\ Read(front, "call_tool", IF scan.op = "scanned" THEN "Ok" ELSE "InternalUnexpected")

ManagerRequest ==
  /\ Serving /\ scan = NoScan
  /\ \/ /\ GoesOn
        /\ \/ AgentRequests \/ ChatRequests \/ SubmitRequests \/ TaskRequestsOnly
           \/ PageRequests \/ ListRequests \/ WebhookRequests \/ HttpGetTool
        /\ submission # None => published' # {}
     \/ FinishSubmit
  /\ UNCHANGED outside

ToolRequest ==
  /\ Serving /\ NoRequests /\ NoAgents /\ NoTasks /\ NoConversations
  /\ \/ /\ scan = NoScan
        /\ HttpInvokeTool \/ ToolInvokeCommand \/ McpCallTool
        /\ UNCHANGED outside
     \/ /\ \E front \in HttpFronts \cup {"mcp"} : AnswerScan(front)
        /\ UNCHANGED outside
     \/ /\ \/ \E p \in Paths : BeginScan(p)
           \/ ScanNext
           \/ \E n \in Nodes, kind \in {"gone", "file", "dir"} : ChangeTree(n, kind)
        /\ Silent
        /\ UNCHANGED <<managers, reply, submission, walk, layers, config>>

Loads ==
  /\ LoadConfig
  /\ Silent
  /\ UNCHANGED <<managers, reply, submission, walk, scanVars>>

Next == Loads \/ ManagerRequest \/ ToolRequest

Spec == Init /\ [][Next]_vars

-----------------------------------------------------------------------------

(***************************************************************************)
(* No front end lets a client believe that it made a mistake when the      *)
(* daemon could not do what it was asked, so a client that repeats what it *)
(* was not blamed for repeats everything that may go through later         *)
(* (server/error.rs, the map_err of mcp/handler.rs and grpc/service.rs).   *)
(***************************************************************************)
CallersAreNotBlamed ==
  (reply # None /\ reply.answer \in BlamesCaller) => reply.outcome \in CallersFault

=============================================================================
