------------------------------- MODULE Errors -------------------------------
(***************************************************************************)
(* The errors of the daemon (error/mod.rs) and what each front end makes   *)
(* of them.  An answer is "ok", the number of an HTTP status, an MCP error *)
(* or a gRPC code; messages and suggestions are wording.                   *)
(***************************************************************************)

\* enum Error, by the status http_status gives.
Unavailable   == {"DaemonNotRunning", "DaemonShutdownFailed", "AgentDisconnected",
                  "ToolProviderUnavailable"}
Conflict      == {"DaemonAlreadyRunning", "AgentAlreadyRegistered", "ToolAlreadyRegistered",
                  "TaskAlreadyTerminal"}
BadGateway    == {"DaemonBindFailed", "ConnectionRefused", "ConnectionTimeout",
                  "ConnectionSocketNotFound"}
Internal      == {"ToolInvocationFailed", "StateSnapshotFailed", "StateRestoreFailed",
                  "InternalUnexpected", "InternalBusFull"}
NotFound      == {"TaskNotFound", "AgentNotFound", "ConversationNotFound", "ToolNotFound",
                  "ToolNotFoundById", "ConfigMissingDir"}
Unprocessable == {"TaskInvalidTransition", "InvalidInput", "AgentInvalidName",
                  "ToolInvalidName", "ToolInvalidDescription",
                  "ConversationEmptyParticipants", "ConfigInvalidToml",
                  "ConfigValidationFailed"}
Forbidden     == {"ConversationNotParticipant", "ConfigPermissionDenied"}

Error == UNION {Unavailable, Conflict, BadGateway, Internal, NotFound, Unprocessable, Forbidden}

(***************************************************************************)
(* What the handling of a request comes to: an Error, success, or a        *)
(* request that did not parse and was refused before any manager saw it;   *)
(* a webhook that is not there has no Error of its own, a handler may      *)
(* panic, a body may be over the limit, a token be wrong, and a request    *)
(* may never arrive.                                                       *)
(***************************************************************************)
Outcome == Error \cup {"Ok", "Malformed", "TooLarge", "WebhookNotFound", "Unauthenticated",
                       "Panicked", "Lost"}

\* http_status; a body that does not parse is refused by axum's extractor.
HttpStatus(k) ==
  CASE k = "Ok" -> "200"
    [] k \in Forbidden -> "403"
    [] k \in NotFound -> "404"
    [] k \in Conflict -> "409"
    [] k = "TooLarge" -> "413"
    [] k \in Unprocessable \cup {"Malformed"} -> "422"
    [] k \in Internal -> "500"
    [] k \in BadGateway -> "502"
    [] k \in Unavailable -> "503"

\* From<ConfigError> for Error.
FromConfigError(k) ==
  CASE k = "InvalidToml" -> "ConfigInvalidToml"
    [] k = "MissingDir" -> "ConfigMissingDir"
    [] k = "PermissionDenied" -> "ConfigPermissionDenied"
    [] k \in {"ValidationFailed", "InvalidEnvVar"} -> "ConfigValidationFailed"
    [] k = "Io" -> "InternalUnexpected"

\* Mutant: an MCP submission that fails is the caller's fault.
McpErrorAllCallers(op, k) ==
  IF k = "Ok" THEN "ok" ELSE "invalid_params"

(***************************************************************************)
(* The tools of the MCP server blame the caller for every error, apart     *)
(* from the ones that go through the task facade or the invoker.           *)
(***************************************************************************)
McpBlames(op, k) ==
  \/ k = "Malformed"
  \/ op \in {"get_task", "cancel_task"} /\ k = "TaskNotFound"
  \/ op = "call_tool" /\ k = "ToolNotFound"
  \/ op \in {"read_resource", "get_prompt"} /\ k # "InternalUnexpected"
  \/ op \notin {"submit_task", "get_task", "cancel_task", "call_tool", "read_resource",
                "get_prompt"}

McpError(op, k) ==
  CASE k = "Ok" -> "ok"
    [] k # "Ok" /\ McpBlames(op, k) -> "invalid_params"
    [] OTHER -> "internal_error"

GrpcCode(op, k) ==
  CASE k = "Ok" -> "ok"
    [] k = "Malformed" \/ (op = "create_webhook" /\ k = "InvalidInput") -> "invalid_argument"
    [] k = "Unauthenticated" -> "unauthenticated"
    [] op = "cancel_task" /\ k = "TaskAlreadyTerminal" -> "failed_precondition"
    [] \/ op \in {"cancel_task", "create_webhook"} /\ k = "TaskNotFound"
       \/ /\ op \in {"get_task", "get_webhook", "delete_webhook"}
          /\ k \notin {"Ok", "Malformed", "Unauthenticated"} -> "not_found"
    [] OTHER -> "internal"

\* The answers that blame the caller, and the outcomes that are its fault.
BlamesCaller == {"403", "404", "409", "413", "422", "invalid_params", "invalid_argument",
                 "not_found", "failed_precondition", "unauthenticated"}

CallersFault == NotFound \cup Conflict \cup Unprocessable \cup Forbidden
                  \cup {"Malformed", "TooLarge", "WebhookNotFound", "Unauthenticated"}

=============================================================================
