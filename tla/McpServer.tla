------------------------------ MODULE McpServer -----------------------------
(***************************************************************************)
(* The MCP server (mcp/handler.rs, mcp/resources.rs, mcp/prompts.rs): its  *)
(* own tools, one operator each, its resources and its prompts.  The tools *)
(* of the registry are called through the invoker, in Requests; the        *)
(* notifier is ToolNotifier.                                               *)
(***************************************************************************)
EXTENDS TaskRequests

McpListAgents        == Read("mcp", "list_agents", "Ok")
McpListTools         == Read("mcp", "list_tools", "Ok")
McpListConversations == Read("mcp", "list_conversations", "Ok")

McpRegisterAgent   == \E a \in AgentIds \cup {BadName} : RegisterRequest("mcp", a)
McpHeartbeatAgent  == \E id \in AnyAgentId : HeartbeatRequest("mcp", id)
McpDeregisterAgent == \E id \in AnyAgentId : DeregisterRequest("mcp", id)

McpCreateConversation ==
  \E ids \in ParticipantLists : CreateConversationRequest("mcp", ids)

McpSendMessage ==
  \E c \in AnyConversationId, sender \in AnyAgentId :
    SendMessageRequest("mcp", c, sender)

McpGetMessages ==
  \E c \in AnyConversationId :
    Read("mcp", "get_messages", IF c = BadId THEN "Malformed" ELSE MessagesOutcome(c))

\* There is no deadline_at.
McpSubmitTask(assignees, deadlines) ==
  \E c \in AnyContext, a \in assignees \cup {NoAgent, BadId},
     ms \in deadlines \cup {NoDeadline} :
    SubmitRequest("mcp", c, a, ms, NoDeadline)

McpGetTask == \E id \in AnyTaskId : GetTask("mcp", id)

McpListTasks ==
  \E c \in {NoContext, BadId}, s \in {AnyState, BadId} : ListTasks("mcp", c, s)

McpCancelTask == \E id \in AnyTaskId : CancelRequest("mcp", id)

-----------------------------------------------------------------------------
(* Resources and prompts *)

McpListResources == Read("mcp", "list_resources", "Ok")

AgentResource(id) == IF id = BadId THEN "Malformed" ELSE AgentOutcome(id)

\* The four collections, one thing of a kind, or a URI that is none of these.
McpReadResource ==
  \E k \in {AgentResource(id) : id \in AnyAgentId}
           \cup {InspectOutcome(c) : c \in AnyConversationId}
           \cup {TaskIdOutcome("mcp", id) : id \in AnyTaskId}
           \cup {"Ok", "Malformed"} :
    Read("mcp", "read_resource", k)

McpListPrompts == Read("mcp", "list_prompts", "Ok")

SummarizeTask == {TaskIdOutcome("mcp", id) : id \in AnyTaskId}

\* The description may be missing; any tags will do.
AssignTask == {"Ok", "Malformed"}

InspectConversation == {InspectOutcome(c) : c \in AnyConversationId}

\* A prompt that does not exist, or lacks an argument, is malformed.
McpGetPrompt ==
  \E k \in SummarizeTask \cup AssignTask \cup InspectConversation \cup {"Malformed"} :
    Read("mcp", "get_prompt", k)

=============================================================================
