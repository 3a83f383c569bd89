----------------------------- MODULE Frontends ------------------------------
(***************************************************************************)
(* The front ends of the daemon over its managers: HTTP routes             *)
(* (server/routes.rs), the MCP server (mcp/handler.rs, mcp/resources.rs,   *)
(* mcp/prompts.rs), the A2A service (grpc/service.rs, grpc/convert.rs) and *)
(* the command line, which is a client of the HTTP routes (cli/).          *)
(*                                                                         *)
(* A request is a step: its fields are parsed, the manager is called under *)
(* its lock, and the outcome becomes an answer.  A submission is two       *)
(* steps, because the facade lets go of the registry before it takes the   *)
(* tasks.  The clock stands still at Now: what silence and deadlines do is *)
(* in Nexus.  What a read returns is the state of the manager and not      *)
(* repeated, except for the pages of the A2A task list.                    *)
(***************************************************************************)
EXTENDS AgentRegistry, TaskManager, Chat, WebhookStore, Errors

CONSTANTS BadId,           \* a string that is no UUID
          BadName,         \* an agent name validate_name refuses
          BadUrl,          \* a webhook URL that does not parse or is not http(s)
          NoContext,       \* no context_id in a submission
          Now,
          MaxTime,         \* the last time the clock type can hold
          Width,           \* bits of deadline_ms
          Milliseconds,    \* bound: values of deadline_ms that are tried
          PageSizes        \* bound: page sizes, all within 1 .. 100

ASSUME FrontendsAssumption ==
  /\ BadId \notin AgentIds \cup TaskIds \cup ConversationIds \cup WebhookIds \cup Contexts
  /\ NoContext \notin Contexts \cup {BadId}
  /\ TaskIds \subseteq Nat \ {0} /\ PageSizes \subseteq 1 .. 100
  /\ Now \in 0 .. MaxTime /\ Milliseconds \subseteq 0 .. 2 ^ Width - 1

VARIABLES reply,        \* the last answer: who asked for what, and what came of it
          submission,   \* a submission between its two critical sections
          walk          \* a client that reads the A2A task list page by page

managers == <<agents, nameIndex, tasks, contextIndex, conversations, messages, hooks>>

\* Nothing asked, nothing under way.
None == [op |-> "none"]

HttpFronts == {"http", "cli"}

\* What a client may give for an id: a string that parses as one, or does not.
AnyAgentId        == AgentIds \cup {BadId}
AnyConversationId == ConversationIds \cup {BadId}
AnyTaskId         == TaskIds \cup {BadId}
AnyContext        == Contexts \cup {NoContext, BadId}
AnyWebhookId      == WebhookIds \cup {BadId}

ParticipantLists == (SUBSET AgentIds) \cup {{BadId}}

-----------------------------------------------------------------------------
(* Answers *)

(***************************************************************************)
(* What the client gets for an outcome.  The answer of a command may be    *)
(* lost when the connection breaks after the handler ran; a client that    *)
(* reads to the end of the stream then holds an empty response.            *)
(***************************************************************************)
Answers(front, op, k) ==
  CASE front = "http" -> {HttpStatus(k)}
    [] front = "cli"  -> {HttpStatus(k), "none"}
    [] front = "mcp"  -> {McpError(op, k)}
    [] front = "grpc" -> {GrpcCode(op, k)}

Reply(front, op, k) ==
  \E answer \in Answers(front, op, k) :
    reply' = [front |-> front, op |-> op, outcome |-> k, answer |-> answer]

Refuse(front, op, k) ==
  /\ k # "Ok"
  /\ Reply(front, op, k)
  /\ Silent
  /\ UNCHANGED <<managers, submission, walk>>

\* A request that reads: its outcome is all that is left of it.
Read(front, op, k) ==
  /\ Reply(front, op, k)
  /\ Silent
  /\ UNCHANGED <<managers, submission, walk>>

\* A change of one manager went through.
Done(front, op) == Reply(front, op, "Ok") /\ UNCHANGED <<submission, walk>>

-----------------------------------------------------------------------------
(* Agents *)

RegisterOutcome(a) ==
  CASE a = BadName -> "AgentInvalidName"
    [] a # BadName /\ nameIndex[NameOf[a]] # NoAgent -> "AgentAlreadyRegistered"
    [] OTHER -> "Ok"

RegisterRequest(front, a) ==
  \/ /\ a \in AgentIds
     /\ Register(a, Now)
     /\ Done(front, "register_agent")
     /\ UNCHANGED <<tasks, contextIndex, conversations, messages, hooks>>
  \/ /\ a \in AgentIds => agents[a].status = "Unregistered"
     /\ Refuse(front, "register_agent", RegisterOutcome(a))

AgentOutcome(id) == IF id \in Registered THEN "Ok" ELSE "AgentNotFound"

\* A path that is no UUID is an agent that is not there; MCP says so itself.
HeartbeatRequest(front, id) ==
  \/ /\ id \in AgentIds
     /\ Heartbeat(id, Now)
     /\ Done(front, "heartbeat_agent")
     /\ UNCHANGED <<tasks, contextIndex, conversations, messages, hooks>>
  \/ Refuse(front, "heartbeat_agent",
            IF id = BadId /\ front = "mcp" THEN "Malformed" ELSE AgentOutcome(id))

DeregisterRequest(front, id) ==
  \/ /\ id \in AgentIds
     /\ Deregister(id)
     /\ Done(front, "deregister_agent")
     /\ UNCHANGED <<tasks, contextIndex, conversations, messages, hooks>>
  \/ Refuse(front, "deregister_agent", IF id = BadId THEN "Malformed" ELSE AgentOutcome(id))

\* The watchdog is in Nexus; here it only takes agents away from the callers.
AgentFallsSilent(a) ==
  /\ a \in Connected
  /\ MarkDisconnected({a})
  /\ UNCHANGED <<tasks, contextIndex, conversations, messages, hooks, reply, submission, walk>>

-----------------------------------------------------------------------------
(* Conversations *)

CreateConversationOutcome(ids) ==
  CASE BadId \in ids -> "Malformed"
    [] ids = {} -> "ConversationEmptyParticipants"
    [] OTHER -> "Ok"

CreateConversationRequest(front, ids) ==
  \/ /\ CreateConversationOutcome(ids) = "Ok"
     /\ \E c \in ConversationIds : CreateConversation(c, ids)
     /\ Done(front, "create_conversation")
     /\ UNCHANGED <<agents, nameIndex, tasks, contextIndex, hooks>>
  \/ Refuse(front, "create_conversation", CreateConversationOutcome(ids))

ConversationOutcome(c) == IF c \in DOMAIN conversations THEN "Ok" ELSE "ConversationNotFound"

\* The sender is parsed with the body, before the conversation in the path.
SendMessageOutcome(front, c, sender) ==
  IF sender = BadId \/ (c = BadId /\ front = "mcp") THEN "Malformed"
  ELSE IF ConversationOutcome(c) # "Ok" THEN "ConversationNotFound"
  ELSE IF sender \notin conversations[c] THEN "ConversationNotParticipant"
  ELSE "Ok"

SendMessageRequest(front, c, sender) ==
  \/ /\ c \in ConversationIds
     /\ \E m \in MessageIds : SendMessage(c, sender, m)
     /\ Done(front, "send_message")
     /\ UNCHANGED <<agents, nameIndex, tasks, contextIndex, hooks>>
  \/ Refuse(front, "send_message", SendMessageOutcome(front, c, sender))

\* get_messages, and the conversation resource and prompt, which look up both maps.
MessagesOutcome(c) ==
  IF c \in DOMAIN messages THEN "Ok" ELSE "ConversationNotFound"

InspectOutcome(c) ==
  CASE c = BadId -> "Malformed"
    [] c \in DOMAIN conversations \ DOMAIN messages -> "InternalUnexpected"
    [] OTHER -> ConversationOutcome(c)

=============================================================================
