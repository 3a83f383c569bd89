----------------------------- MODULE HttpRoutes -----------------------------
(***************************************************************************)
(* The HTTP routes of the daemon (server/routes.rs), one operator per      *)
(* handler: what it takes from the path, the query and the body, and which *)
(* request to which manager it makes of it.  The event streams are in      *)
(* EventFeed; a route that lists returns the state of its manager.         *)
(***************************************************************************)
EXTENDS TaskRequests

CONSTANTS Instants   \* bound: values of deadline_at

HealthCheck == Read("http", "health", "Ok")

(***************************************************************************)
(* PeerCheckedUnixListener: the connection of another user is closed       *)
(* before a request is read from it, and the client reads nothing.         *)
(***************************************************************************)
ForeignPeer ==
  /\ reply' = [front |-> "http", op |-> "any", outcome |-> "Lost", answer |-> "none"]
  /\ Silent
  /\ UNCHANGED <<managers, submission, walk>>

\* DefaultBodyLimit: a body above the limit does not get to its handler.
BodyTooLarge(op) == Refuse("http", op, "TooLarge")

-----------------------------------------------------------------------------

HttpRegisterAgent   == \E a \in AgentIds \cup {BadName} : RegisterRequest("http", a)
HttpDeregisterAgent == \E id \in AnyAgentId : DeregisterRequest("http", id)
HttpHeartbeatAgent  == \E id \in AnyAgentId : HeartbeatRequest("http", id)
HttpListAgents      == Read("http", "list_agents", "Ok")

HttpCreateConversation ==
  \E ids \in ParticipantLists : CreateConversationRequest("http", ids)

HttpListConversations == Read("http", "list_conversations", "Ok")

HttpGetConversation ==
  \E c \in AnyConversationId : Read("http", "get_conversation", ConversationOutcome(c))

HttpSendMessage ==
  \E c \in AnyConversationId, sender \in AnyAgentId :
    SendMessageRequest("http", c, sender)

HttpGetMessages ==
  \E c \in AnyConversationId : Read("http", "get_messages", MessagesOutcome(c))

\* Both deadlines may be in the body; the context and the assignee may be left out.
HttpSubmitTask(assignees, deadlines) ==
  \E c \in AnyContext, a \in assignees \cup {NoAgent, BadId},
     ms \in deadlines \cup {NoDeadline}, at \in {NoDeadline} \cup Instants :
    /\ at # NoDeadline => deadlines # {}
    /\ SubmitRequest("http", c, a, ms, at)

HttpGetTask == \E id \in AnyTaskId : GetTask("http", id)

HttpListTasks ==
  \E c \in {NoContext, BadId}, s \in {AnyState, BadId} : ListTasks("http", c, s)

HttpCancelTask == \E id \in AnyTaskId : CancelRequest("http", id)

\* A name is one of the built-in tools, or not in the registry.
HttpListTools == Read("http", "list_tools", "Ok")

HttpGetTool == \E k \in {"Ok", "ToolNotFound"} : Read("http", "get_tool", k)

=============================================================================
