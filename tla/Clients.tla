------------------------------ MODULE Clients -------------------------------
(***************************************************************************)
(* The command line as a client of the HTTP routes (cli/client.rs,         *)
(* cli/agent.rs, cli/task.rs, cli/tool.rs, cli/chat.rs): one request per   *)
(* command, read to the end of the connection, and what the command then   *)
(* makes of it.  What it prints is wording; the commands that follow the   *)
(* event stream never end by themselves and are not here.                  *)
(***************************************************************************)
EXTENDS TaskRequests

\* Commands that print a line of their own in place of the answer's body.
BlindCommands == {"deregister_agent", "heartbeat_agent", "cancel_task", "status"}

\* split_response: no status line is as good as 200, and nothing is an empty body.
SplitResponse(answer) ==
  [status |-> IF answer = "none" THEN "200" ELSE answer, hasBody |-> answer # "none"]

CheckStatus(response) == response.status = "200"

\* Mutant: a body that is not there is an empty value.
DecodesAnything(op, response) == TRUE

\* serde_json::from_slice on the body, in the commands that look at it.
Decodes(op, response) == op \in BlindCommands \/ response.hasBody

\* The command ends with exit code 0; any failure is printed and ends with 1.
CliSucceeds(op, answer) ==
  LET response == SplitResponse(answer)
  IN  CheckStatus(response) /\ Decodes(op, response)

(***************************************************************************)
(* The connection of a command breaks before the handler ran: the daemon   *)
(* does nothing, and the command reads an empty response.                  *)
(***************************************************************************)
Cut(op) ==
  /\ reply' = [front |-> "cli", op |-> op, outcome |-> "Lost", answer |-> "none"]
  /\ Silent
  /\ UNCHANGED <<managers, submission, walk>>

-----------------------------------------------------------------------------
(* Commands *)

Command(op, request) == request \/ Cut(op)

StatusCommand == Command("status", Read("cli", "status", "Ok"))

AgentRegisterCommand ==
  Command("register_agent", \E a \in AgentIds \cup {BadName} : RegisterRequest("cli", a))

AgentListCommand == Command("list_agents", Read("cli", "list_agents", "Ok"))

\* Lists all agents and looks for the id among them.
AgentGetCommand ==
  Command("get_agent", \E id \in AnyAgentId : Read("cli", "get_agent", AgentOutcome(id)))

AgentDeregisterCommand ==
  Command("deregister_agent", \E id \in AnyAgentId : DeregisterRequest("cli", id))

AgentHeartbeatCommand ==
  Command("heartbeat_agent", \E id \in AnyAgentId : HeartbeatRequest("cli", id))

TaskSubmitCommand(assignees, deadlines) ==
  Command("submit_task",
          \E c \in AnyContext, a \in assignees \cup {NoAgent, BadId},
             ms \in deadlines \cup {NoDeadline} :
            SubmitRequest("cli", c, a, ms, NoDeadline))

TaskListCommand ==
  Command("list_tasks",
          \E c \in {NoContext, BadId}, s \in {AnyState, BadId} : ListTasks("cli", c, s))

TaskGetCommand == Command("get_task", \E id \in AnyTaskId : GetTask("cli", id))

TaskCancelCommand ==
  Command("cancel_task", \E id \in AnyTaskId : CancelRequest("cli", id))

ToolListCommand == Command("list_tools", Read("cli", "list_tools", "Ok"))

ChatNewCommand ==
  Command("create_conversation",
          \E ids \in ParticipantLists : CreateConversationRequest("cli", ids))

ChatListCommand == Command("list_conversations", Read("cli", "list_conversations", "Ok"))

ChatSendCommand ==
  Command("send_message",
          \E c \in AnyConversationId, sender \in AnyAgentId :
            SendMessageRequest("cli", c, sender))

ChatHistoryCommand ==
  Command("get_messages",
          \E c \in AnyConversationId : Read("cli", "get_messages", MessagesOutcome(c)))

-----------------------------------------------------------------------------

(***************************************************************************)
(* A command is successful only if the daemon did what it was asked, also  *)
(* when the connection breaks before or after, or the handler panics, with *)
(* one exception: a blind command that reads no status line reports        *)
(* success whatever happened (cli/client.rs split_response and the         *)
(* commands).                                                              *)
(***************************************************************************)
SuccessMeansDone ==
  (reply # None /\ reply.front = "cli" /\ CliSucceeds(reply.op, reply.answer)) =>
    reply.outcome = "Ok" \/ (reply.op \in BlindCommands /\ reply.answer = "none")

=============================================================================
