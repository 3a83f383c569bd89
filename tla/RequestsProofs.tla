--------------------------- MODULE RequestsProofs ---------------------------
(***************************************************************************)
(* Proofs about Requests and the modules it is composed of: what the front *)
(* ends answer, the pages of the task list, the layers of the              *)
(* configuration, the scan of a tree and the conversions of the A2A        *)
(* service.                                                                *)
(***************************************************************************)
EXTENDS Requests, SequenceTheorems, FunctionTheorems, FiniteSetTheorems, TLAPS

-----------------------------------------------------------------------------
(* Conversions of the A2A service *)

(***************************************************************************)
(* Every task state reaches an A2A client under a name of its own that     *)
(* parses back to it (core_state_to_proto, proto_state_to_core).           *)
(***************************************************************************)
THEOREM StatesSurvive ==
  ASSUME NEW s \in TaskState
  PROVE  /\ StateParses(CoreStateToProto[s])
         /\ ProtoStateToCore[CoreStateToProto[s]] = s
  BY DEF TaskState, StateParses, CoreStateToProto, ProtoStateToCore

\* A part of a message is plain if its data, where it has any, are.
PlainPart(p) == p.content # Absent /\ (p.content.kind = "data" => p.content.value \in Plain)

(***************************************************************************)
(* The content of a part that is accepted comes back as it was sent, data  *)
(* as far as they are plain (proto_part_to_core, core_part_to_proto).      *)
(***************************************************************************)
LEMMA PartSurvives ==
  ASSUME NEW p \in ProtoPart, PlainPart(p)
  PROVE  CorePartToProto(ProtoPartToCore(p)) = p.content
<1> DEFINE c == p.content
<1>1. CASE c \in [kind : {"data"}, value : ProtoValues]
  <2>1. ToProto[ToJson[c.value]] = c.value /\ c.kind = "data"
    BY <1>1, ConversionAssumption DEF PlainPart
  <2>2. c = [kind |-> c.kind, value |-> c.value]
    BY <1>1
  <2> QED
    BY <2>1, <2>2 DEF ProtoPartToCore, CorePartToProto
<1>2. CASE c \in [kind : {"text", "url", "raw"}, value : Texts]
  <2>1. c = [kind |-> c.kind, value |-> c.value] /\ c.kind \in {"text", "url", "raw"}
    BY <1>2
  <2> QED
    BY <2>1 DEF ProtoPartToCore, CorePartToProto
<1>3. CASE c = Absent
  BY <1>3 DEF PlainPart
<1> QED
  BY <1>1, <1>2, <1>3 DEF ProtoPart

(***************************************************************************)
(* What the service makes of a message it accepts is one of the messages a *)
(* task may hold, with as many parts as were sent: no part is dropped or   *)
(* left without a kind, no role unspecified, no id missing                 *)
(* (grpc/convert.rs proto_message_to_core).                                *)
(***************************************************************************)
THEOREM AcceptedMessagesAreWhole ==
  ASSUME NEW m \in ProtoMessage, NEW fresh \in MessageUuids, MessageParses(m)
  PROVE  /\ ProtoMessageToCore(m, fresh) \in CoreMessage
         /\ Len(ProtoMessageToCore(m, fresh).parts) = Len(m.parts)
<1> DEFINE parts == [i \in DOMAIN m.parts |-> ProtoPartToCore(m.parts[i])]
<1>1. ASSUME NEW p \in ProtoPart, PartParses(p)
      PROVE  ProtoPartToCore(p) \in Part
  <2>1. CASE p.content \in [kind : {"data"}, value : ProtoValues]
    BY <2>1, ConversionAssumption DEF ProtoPartToCore, Part
  <2>2. CASE p.content \in [kind : {"text", "url", "raw"}, value : Texts]
    BY <2>2 DEF ProtoPartToCore, Part
  <2> QED
    BY <1>1, <2>1, <2>2 DEF ProtoPart, PartParses
<1>2. parts \in Seq(Part) /\ Len(parts) = Len(m.parts)
  <2>1. m.parts \in Seq(ProtoPart)
    BY DEF ProtoMessage
  <2>2. \A i \in DOMAIN m.parts : m.parts[i] \in ProtoPart /\ PartParses(m.parts[i])
    BY <2>1 DEF MessageParses
  <2>3. \A i \in 1 .. Len(m.parts) : ProtoPartToCore(m.parts[i]) \in Part
    BY <1>1, <2>1, <2>2
  <2>4. DOMAIN m.parts = 1 .. Len(m.parts) /\ Len(m.parts) \in Nat
    BY <2>1
  <2>5. parts \in [1 .. Len(m.parts) -> Part]
    BY <2>3, <2>4
  <2>6. parts \in Seq(Part) /\ DOMAIN parts = 1 .. Len(parts) /\ Len(parts) \in Nat
    BY <2>4, <2>5
  <2>7. DOMAIN parts = 1 .. Len(m.parts)
    BY <2>5
  <2> QED
    BY <2>4, <2>6, <2>7
<1>3. m.role \in {"User", "Agent"}
  BY DEF MessageParses, RoleParses
<1>4. (IF m.message_id = Absent THEN fresh ELSE m.message_id) \in MessageUuids
  BY DEF MessageParses, ProtoMessage, AnyMessageId
<1>5. (IF m.metadata = Absent THEN Absent ELSE ToJson[m.metadata]) \in Json \cup {Absent}
  BY ConversionAssumption DEF ProtoMessage
<1>6. ProtoMessageToCore(m, fresh).parts = parts
  BY DEF ProtoMessageToCore
<1> QED
  BY <1>2, <1>3, <1>4, <1>5, <1>6 DEF ProtoMessageToCore, CoreMessage

(***************************************************************************)
(* A message that the service accepts keeps its role, the content of its   *)
(* parts in their order, its id if it had one, and its metadata: what a    *)
(* client reads back from the history of the task is what it sent, for     *)
(* plain data (grpc/convert.rs proto_message_to_core,                      *)
(* core_message_to_proto).                                                 *)
(***************************************************************************)
THEOREM MessagesSurvive ==
  ASSUME NEW m \in ProtoMessage, NEW fresh \in MessageUuids, MessageParses(m),
         \A i \in DOMAIN m.parts : PlainPart(m.parts[i]),
         m.metadata \in Plain \cup {Absent}
  PROVE  LET back == CoreMessageToProto(ProtoMessageToCore(m, fresh))
         IN  /\ back.role = m.role
             /\ back.message_id = IF m.message_id = Absent THEN fresh ELSE m.message_id
             /\ back.contents = [i \in DOMAIN m.parts |-> m.parts[i].content]
             /\ back.metadata = m.metadata
<1> DEFINE core == ProtoMessageToCore(m, fresh)
           back == CoreMessageToProto(core)
<1>1. back.role = m.role /\ back.message_id = IF m.message_id = Absent THEN fresh ELSE m.message_id
  BY DEF ProtoMessageToCore, CoreMessageToProto
<1>2. back.contents = [i \in DOMAIN m.parts |-> m.parts[i].content]
  <2>1. back.contents =
          [i \in DOMAIN m.parts |-> CorePartToProto(ProtoPartToCore(m.parts[i]))]
    BY DEF ProtoMessageToCore, CoreMessageToProto
  <2>2. \A i \in DOMAIN m.parts : m.parts[i] \in ProtoPart
    BY DEF ProtoMessage
  <2>3. \A i \in DOMAIN m.parts :
          CorePartToProto(ProtoPartToCore(m.parts[i])) = m.parts[i].content
    BY <2>2, PartSurvives
  <2> QED
    BY <2>1, <2>3
<1>3. back.metadata = m.metadata
  <2>1. CASE m.metadata = Absent
    BY <2>1 DEF ProtoMessageToCore, CoreMessageToProto
  <2>2. CASE m.metadata # Absent
    <3>1. m.metadata \in Structs /\ m.metadata \in Plain
      BY <2>2 DEF ProtoMessage
    <3>2. ToJson[m.metadata] \in JsonObjects /\ ToProto[ToJson[m.metadata]] = m.metadata
      BY <3>1, ConversionAssumption
    <3>3. ToJson[m.metadata] # Absent
      BY <3>2, ConversionAssumption DEF Absent
    <3> QED
      BY <2>2, <3>2, <3>3 DEF ProtoMessageToCore, CoreMessageToProto, JsonToStruct
  <2> QED
    BY <2>1, <2>2
<1> QED
  BY <1>1, <1>2, <1>3

-----------------------------------------------------------------------------
(* What the front ends answer *)

\* The outcomes of which no caller is to blame, by the operation that may
\* come to them.
Shared(op) ==
  CASE op = "submit_task" -> {"AgentDisconnected"}
    [] op = "call_tool" -> {"ToolInvocationFailed", "InternalUnexpected"}
    [] op \in {"read_resource", "get_prompt"} -> {"InternalUnexpected"}
    [] OTHER -> {}

\* The outcomes an HTTP route may come to.
HttpOutcome == Error \cup {"Ok", "Malformed", "TooLarge"}

Callers == {"http", "cli", "mcp", "grpc"}

\* An outcome the front end "front" may come to for "op".
Possible(front, op, k) ==
  /\ front \in Callers
  /\ k \in CallersFault \cup {"Ok"} \cup Shared(op)
  /\ front \in HttpFronts => k \in HttpOutcome
  /\ front = "grpc" => k \in CallersFault \cup {"Ok"}

\* No answer blames a caller for what is not its fault, and no command
\* succeeds without an Ok, but for a blind one that reads nothing.
AnswerIsFair ==
  /\ reply = None \/ reply.op # "none"
  /\ reply # None =>
       /\ reply.answer \in BlamesCaller => reply.outcome \in CallersFault
       /\ (reply.front = "cli" /\ CliSucceeds(reply.op, reply.answer)) =>
            reply.outcome = "Ok" \/ (reply.op \in BlindCommands /\ reply.answer = "none")

\* A submission that is under way came from a front end.
SubmissionIsCallers == submission # None => submission.front \in Callers

\* Nothing is answered, or fairly, and a submission is from a front end.
AnswersFairly ==
  /\ reply' = reply \/ AnswerIsFair'
  /\ submission' \in {submission, None} \/ submission'.front \in Callers

\* The outcomes that every front end may blame on every caller, and success.
Ordinary == NotFound \cup Conflict \cup Unprocessable \cup Forbidden
              \cup {"Ok", "Malformed", "TooLarge"}

(***************************************************************************)
(* The tables of the front ends blame the caller only for its faults, and  *)
(* the only answer of a route that is as good as 200 is the one to an Ok   *)
(* (server/error.rs, mcp/handler.rs, grpc/service.rs).                     *)
(***************************************************************************)
LEMMA FairAnswer ==
  ASSUME NEW front, NEW op, NEW k, Possible(front, op, k), Reply(front, op, k), op # "none"
  PROVE  AnswerIsFair'
<1> USE DEF Unavailable, Conflict, BadGateway, Internal, NotFound, Unprocessable, Forbidden
<1>1. PICK answer \in Answers(front, op, k) :
        reply' = [front |-> front, op |-> op, outcome |-> k, answer |-> answer]
  BY DEF Reply
<1>2. /\ reply'.front = front /\ reply'.op = op /\ reply'.outcome = k /\ reply'.answer = answer
      /\ reply'.op # "none"
  BY <1>1
<1>3. ASSUME answer \in BlamesCaller
      PROVE  k \in CallersFault
  <2>1. CASE k = "Ok"
    BY <1>1, <1>3, <2>1 DEF Answers, HttpStatus, McpError, GrpcCode, BlamesCaller, Possible, Callers
  <2>2. CASE k \in Shared(op) /\ k \notin CallersFault /\ k # "Ok"
    <3>1. front \in {"http", "cli", "mcp"}
      BY <2>2 DEF Possible, Callers
    <3>2. /\ k \in {"AgentDisconnected", "ToolInvocationFailed", "InternalUnexpected"}
          /\ k = "AgentDisconnected" => op = "submit_task"
          /\ k = "ToolInvocationFailed" => op = "call_tool"
          /\ k = "InternalUnexpected" => op \in {"call_tool", "read_resource", "get_prompt"}
      BY <2>2 DEF Shared
    <3>3. HttpStatus(k) \in {"500", "503"}
      BY <3>2 DEF HttpStatus
    <3>4. McpError(op, k) = "internal_error"
      BY <3>2 DEF McpError, McpBlames
    <3>5. answer \in {"500", "503", "none", "internal_error"}
      BY <1>1, <3>1, <3>3, <3>4 DEF Answers
    <3> QED
      BY <1>3, <3>5 DEF BlamesCaller
  <2> QED
    BY <2>1, <2>2 DEF Possible
<1>4. ASSUME front = "cli", CliSucceeds(op, answer), ~(op \in BlindCommands /\ answer = "none")
      PROVE  k = "Ok"
  <2>1. answer = "200"
    BY <1>4 DEF CliSucceeds, CheckStatus, Decodes, SplitResponse
  <2>2. HttpStatus(k) = "200"
    BY <1>1, <1>4, <2>1 DEF Answers
  <2>3. k \in HttpOutcome
    BY <1>4 DEF Possible, HttpFronts
  <2> QED
    BY <2>2, <2>3 DEF HttpStatus, HttpOutcome, Error
<1> QED
  BY <1>2, <1>3, <1>4 DEF AnswerIsFair

(***************************************************************************)
(* A reply that has no answer blames nobody and shows nothing.             *)
(***************************************************************************)
LEMMA NoAnswer ==
  ASSUME NEW front, NEW op, NEW k, op # "none", UNCHANGED submission,
         reply' = [front |-> front, op |-> op, outcome |-> k, answer |-> "none"]
  PROVE  AnswersFairly
<1>1. reply'.answer = "none" /\ reply'.op # "none"
  OBVIOUS
<1>2. ~CliSucceeds(reply'.op, reply'.answer) \/ reply'.op \in BlindCommands
  BY <1>1 DEF CliSucceeds, CheckStatus, Decodes, SplitResponse
<1> QED
  BY <1>1, <1>2 DEF AnswersFairly, AnswerIsFair, BlamesCaller

(***************************************************************************)
(* A possible outcome is answered fairly, an ordinary one by everybody.    *)
(***************************************************************************)
LEMMA PossibleReply ==
  ASSUME NEW front, NEW op, NEW k, Possible(front, op, k), op # "none",
         Reply(front, op, k), UNCHANGED submission
  PROVE  AnswersFairly
BY FairAnswer DEF AnswersFairly

\* An outcome of every front end is answered fairly by each of them.
LEMMA OrdinaryReply ==
  ASSUME NEW front \in Callers, NEW op, NEW k \in Ordinary, op # "none",
         Reply(front, op, k), UNCHANGED submission
  PROVE  AnswersFairly
<1>1. Possible(front, op, k)
  BY DEF Possible, Ordinary, CallersFault, HttpOutcome, Error
<1> QED
  BY <1>1, PossibleReply

\* So is a request that reads or is refused.
LEMMA OrdinaryAnswer ==
  ASSUME NEW front \in Callers, NEW op, NEW k \in Ordinary, op # "none",
         Read(front, op, k) \/ Refuse(front, op, k)
  PROVE  AnswersFairly
BY OrdinaryReply DEF Read, Refuse

\* Success is a fair answer to what has been done.
LEMMA DoneAnswer ==
  ASSUME NEW front \in Callers, NEW op, op # "none", Done(front, op)
  PROVE  AnswersFairly
<1>1. "Ok" \in Ordinary
  BY DEF Ordinary
<1> QED
  BY <1>1, OrdinaryReply DEF Done

-----------------------------------------------------------------------------
(* The requests, from any front end *)

(***************************************************************************)
(* Requests about agents come to an ordinary outcome.                      *)
(***************************************************************************)
LEMMA AgentRequestsAreFair ==
  ASSUME NEW front \in Callers,
         \/ \E a \in AgentIds \cup {BadName} : RegisterRequest(front, a)
         \/ \E id \in AnyAgentId : HeartbeatRequest(front, id) \/ DeregisterRequest(front, id)
  PROVE  AnswersFairly
<1>1. /\ \A a : RegisterOutcome(a) \in Ordinary
      /\ \A id : AgentOutcome(id) \in Ordinary
      /\ "Malformed" \in Ordinary
  BY DEF RegisterOutcome, AgentOutcome, Ordinary, Conflict, NotFound, Unprocessable
<1>2. ASSUME NEW a, RegisterRequest(front, a)
      PROVE  AnswersFairly
  BY <1>1, <1>2, OrdinaryAnswer, DoneAnswer DEF RegisterRequest
<1>3. ASSUME NEW id, HeartbeatRequest(front, id)
      PROVE  AnswersFairly
  BY <1>1, <1>3, OrdinaryAnswer, DoneAnswer DEF HeartbeatRequest
<1>4. ASSUME NEW id, DeregisterRequest(front, id)
      PROVE  AnswersFairly
  BY <1>1, <1>4, OrdinaryAnswer, DoneAnswer DEF DeregisterRequest
<1> QED
  BY <1>2, <1>3, <1>4

(***************************************************************************)
(* Requests about conversations come to an ordinary outcome, also when a   *)
(* message or its conversation is not there.                               *)
(***************************************************************************)
LEMMA ChatRequestsAreFair ==
  ASSUME NEW front \in Callers,
         \/ \E ids \in ParticipantLists : CreateConversationRequest(front, ids)
         \/ \E c \in AnyConversationId, sender \in AnyAgentId :
              SendMessageRequest(front, c, sender)
  PROVE  AnswersFairly
<1>1. /\ \A ids : CreateConversationOutcome(ids) \in Ordinary
      /\ \A c, sender : SendMessageOutcome(front, c, sender) \in Ordinary
  BY DEF CreateConversationOutcome, SendMessageOutcome, ConversationOutcome, Ordinary, NotFound,
         Unprocessable, Forbidden
<1>2. ASSUME NEW ids, CreateConversationRequest(front, ids)
      PROVE  AnswersFairly
  BY <1>1, <1>2, OrdinaryAnswer, DoneAnswer DEF CreateConversationRequest
<1>3. ASSUME NEW c, NEW sender, SendMessageRequest(front, c, sender)
      PROVE  AnswersFairly
  BY <1>1, <1>3, OrdinaryAnswer, DoneAnswer DEF SendMessageRequest
<1> QED
  BY <1>2, <1>3

(***************************************************************************)
(* A submission is accepted and goes on, or is refused for a reason the    *)
(* caller is only then blamed for when it is the caller's; one whose       *)
(* deadline panics has no answer at all.                                   *)
(***************************************************************************)
LEMMA SubmitRequestsAreFair ==
  ASSUME NEW front \in Callers \ {"grpc"}, NEW c, NEW a, NEW ms, NEW at,
         SubmitRequest(front, c, a, ms, at)
  PROVE  AnswersFairly
<1>1. BadIdOutcome(front) \in Ordinary
  BY DEF BadIdOutcome, Ordinary, Unprocessable
<1>2. CASE Refuse(front, "submit_task", BadIdOutcome(front))
  BY <1>1, <1>2, OrdinaryAnswer
<1>3. CASE Accept(front, c, a, DeadlineOf(ms, at))
  BY <1>3 DEF Accept, AnswersFairly
<1>4. CASE Refuse(front, "submit_task", AssigneeOutcome(a))
  <2>1. AssigneeOutcome(a) \in Ordinary \cup {"AgentDisconnected"}
    BY DEF AssigneeOutcome, Ordinary, NotFound
  <2>2. Possible(front, "submit_task", AssigneeOutcome(a))
    BY <2>1 DEF Possible, Shared, Callers, Ordinary, CallersFault, HttpOutcome, Error, Unavailable
  <2> QED
    BY <1>4, <2>2, PossibleReply DEF Refuse
<1>5. CASE /\ reply' = [front |-> front, op |-> "submit_task", outcome |-> "Panicked",
                        answer |-> "none"]
           /\ UNCHANGED <<managers, submission, walk>>
  <2>1. UNCHANGED submission
    BY <1>5
  <2> QED
    BY <1>5, <2>1, NoAnswer
<1> QED
  BY <1>2, <1>3, <1>4, <1>5 DEF SubmitRequest

(***************************************************************************)
(* Requests for a task come to an ordinary outcome.                        *)
(***************************************************************************)
LEMMA TaskRequestsAreFair ==
  ASSUME NEW front \in Callers,
         \/ \E id \in AnyTaskId : GetTask(front, id) \/ CancelRequest(front, id)
         \/ \E c, s : ListTasks(front, c, s)
  PROVE  AnswersFairly
<1>1. /\ \A id : TaskIdOutcome(front, id) \in Ordinary
      /\ BadIdOutcome(front) \in Ordinary /\ "Ok" \in Ordinary
  BY DEF TaskIdOutcome, TaskOutcome, BadIdOutcome, Ordinary, NotFound, Unprocessable
<1>2. \A id : CancelOutcome(front, id) \in Ordinary
  <2>1. {"TaskAlreadyTerminal", "TaskInvalidTransition"} \subseteq Ordinary
    BY DEF Ordinary, Conflict, Unprocessable
  <2> QED
    BY <1>1, <2>1 DEF CancelOutcome
<1>3. ASSUME NEW id, GetTask(front, id)
      PROVE  AnswersFairly
  BY <1>1, <1>3, OrdinaryAnswer DEF GetTask
<1>4. ASSUME NEW id, CancelRequest(front, id)
      PROVE  AnswersFairly
  BY <1>2, <1>4, OrdinaryAnswer, DoneAnswer DEF CancelRequest
<1>5. ASSUME NEW c, NEW s, ListTasks(front, c, s)
      PROVE  AnswersFairly
  BY <1>1, <1>5, OrdinaryAnswer DEF ListTasks
<1> QED
  BY <1>3, <1>4, <1>5

(***************************************************************************)
(* What the calls of the A2A service about webhooks and pages come to.     *)
(***************************************************************************)
LEMMA A2aRequestsAreFair ==
  ASSUME \/ \E t, url : CreateWebhook(t, url)
         \/ \E t, w : GetWebhook(t, w) \/ DeleteWebhook(t, w) \/ ListWebhooks(t)
         \/ \E c, s, size : ReadPage(c, s, size)
         \/ A2aSendMessage \/ A2aGetTask \/ A2aCancelTask
         \/ GetCard \/ Unauthenticated
  PROVE  AnswersFairly
<1>1. "grpc" \in Callers /\ {"Ok", "Malformed"} \subseteq Ordinary
  BY DEF Callers, Ordinary
<1>2. ASSUME NEW op, NEW k \in Ordinary \cup {"WebhookNotFound", "Unauthenticated"}, op # "none",
             Read("grpc", op, k) \/ Refuse("grpc", op, k)
      PROVE  AnswersFairly
  <2>1. Possible("grpc", op, k)
    BY DEF Possible, Callers, CallersFault, Ordinary, HttpFronts
  <2> QED
    BY <1>2, <2>1, PossibleReply DEF Read, Refuse
<1>3. ASSUME NEW t, NEW url, CreateWebhook(t, url)
      PROVE  AnswersFairly
  <2>1. CreateWebhookOutcome(t, url) \in Ordinary
    BY DEF CreateWebhookOutcome, Ordinary, NotFound, Unprocessable
  <2> QED
    BY <1>1, <1>3, <2>1, OrdinaryAnswer, DoneAnswer DEF CreateWebhook
<1>4. ASSUME NEW t, NEW w, GetWebhook(t, w) \/ DeleteWebhook(t, w) \/ ListWebhooks(t)
      PROVE  AnswersFairly
  <2>1. WebhookOutcome(t, w) \in Ordinary \cup {"WebhookNotFound", "Unauthenticated"}
    BY <1>1 DEF WebhookOutcome
  <2>2. CASE GetWebhook(t, w)
    BY <1>2, <2>1, <2>2 DEF GetWebhook
  <2>3. CASE DeleteWebhook(t, w)
    BY <1>1, <1>2, <2>1, <2>3, DoneAnswer DEF DeleteWebhook
  <2>4. CASE ListWebhooks(t)
    BY <1>1, <1>2, <2>4 DEF ListWebhooks
  <2> QED
    BY <1>4, <2>2, <2>3, <2>4
<1>5. ASSUME NEW c, NEW s, NEW size, ReadPage(c, s, size)
      PROVE  AnswersFairly
  <2>1. Reply("grpc", "list_tasks", "Ok") /\ UNCHANGED submission
    BY <1>5 DEF ReadPage
  <2> QED
    BY <1>1, <2>1, OrdinaryReply
<1>6. CASE A2aSendMessage
  <2>1. PICK m \in WireMessages, c \in AnyContext : GrpcSubmit(m, c)
    BY <1>6 DEF A2aSendMessage
  <2>2. CASE Accept("grpc", c, NoAgent, NoDeadline)
    BY <1>1, <2>2 DEF Accept, AnswersFairly
  <2>3. CASE Refuse("grpc", "submit_task", "Malformed")
    BY <1>1, <2>3, OrdinaryAnswer
  <2> QED
    BY <2>1, <2>2, <2>3 DEF GrpcSubmit
<1>7. CASE A2aGetTask \/ A2aCancelTask
  BY <1>1, <1>7, TaskRequestsAreFair DEF A2aGetTask, A2aCancelTask
<1>8. CASE GetCard \/ Unauthenticated
  BY <1>1, <1>2, <1>8 DEF GetCard, Unauthenticated
<1> QED
  BY <1>3, <1>4, <1>5, <1>6, <1>7, <1>8

-----------------------------------------------------------------------------
(* The front ends *)

(***************************************************************************)
(* Every route answers fairly, and a connection that is cut before it gets *)
(* to one is not answered.                                                 *)
(***************************************************************************)
LEMMA RoutesAreFair ==
  ASSUME \/ HttpRegisterAgent \/ HttpHeartbeatAgent \/ HttpDeregisterAgent \/ HttpListAgents
         \/ HttpCreateConversation \/ HttpListConversations \/ HttpGetConversation
         \/ HttpSendMessage \/ HttpGetMessages
         \/ \E assignees, deadlines : HttpSubmitTask(assignees, deadlines)
         \/ HttpGetTask \/ HttpListTasks \/ HttpCancelTask \/ HttpListTools \/ HttpGetTool
         \/ HealthCheck \/ ForeignPeer
         \/ \E op : op # "none" /\ BodyTooLarge(op)
  PROVE  AnswersFairly
<1>1. "http" \in Callers /\ {"Ok", "ToolNotFound", "TooLarge"} \subseteq Ordinary
  BY DEF Callers, Ordinary, NotFound
<1>2. \A c : ConversationOutcome(c) \in Ordinary /\ MessagesOutcome(c) \in Ordinary
  BY DEF ConversationOutcome, MessagesOutcome, Ordinary, NotFound
<1>3. CASE HttpRegisterAgent \/ HttpHeartbeatAgent \/ HttpDeregisterAgent
  BY <1>1, <1>3, AgentRequestsAreFair
  DEF HttpRegisterAgent, HttpHeartbeatAgent, HttpDeregisterAgent
<1>4. CASE HttpCreateConversation \/ HttpSendMessage
  BY <1>1, <1>4, ChatRequestsAreFair DEF HttpCreateConversation, HttpSendMessage
<1>5. CASE HttpGetConversation \/ HttpGetMessages
  BY <1>1, <1>2, <1>5, OrdinaryAnswer DEF HttpGetConversation, HttpGetMessages
<1>6. ASSUME NEW assignees, NEW deadlines, HttpSubmitTask(assignees, deadlines)
      PROVE  AnswersFairly
  BY <1>1, <1>6, SubmitRequestsAreFair DEF HttpSubmitTask
<1>7. CASE HttpGetTask \/ HttpListTasks \/ HttpCancelTask
  BY <1>1, <1>7, TaskRequestsAreFair DEF HttpGetTask, HttpListTasks, HttpCancelTask
<1>8. CASE HttpListAgents \/ HttpListConversations \/ HttpListTools \/ HttpGetTool \/ HealthCheck
  BY <1>1, <1>8, OrdinaryAnswer
  DEF HttpListAgents, HttpListConversations, HttpListTools, HttpGetTool, HealthCheck
<1>9. CASE ForeignPeer
  <2>1. UNCHANGED submission
    BY <1>9 DEF ForeignPeer
  <2> QED
    BY <1>9, <2>1, NoAnswer DEF ForeignPeer
<1>10. CASE \E op : op # "none" /\ BodyTooLarge(op)
  BY <1>1, <1>10, OrdinaryAnswer DEF BodyTooLarge
<1> QED
  BY <1>3, <1>4, <1>5, <1>6, <1>7, <1>8, <1>9, <1>10

(***************************************************************************)
(* The MCP server answers fairly: what it blames the caller for with every *)
(* error of a tool cannot be anybody else's fault, and the errors that can *)
(* be are internal ones.                                                   *)
(***************************************************************************)
LEMMA McpIsFair ==
  ASSUME \/ McpRegisterAgent \/ McpHeartbeatAgent \/ McpDeregisterAgent \/ McpListAgents
         \/ McpCreateConversation \/ McpSendMessage \/ McpGetMessages \/ McpListConversations
         \/ \E assignees, deadlines : McpSubmitTask(assignees, deadlines)
         \/ McpGetTask \/ McpListTasks \/ McpCancelTask \/ McpListTools
         \/ McpListResources \/ McpReadResource \/ McpListPrompts \/ McpGetPrompt
  PROVE  AnswersFairly
<1>1. "mcp" \in Callers /\ {"Ok", "Malformed"} \subseteq Ordinary
  BY DEF Callers, Ordinary
<1>2. /\ \A c : /\ MessagesOutcome(c) \in Ordinary
                /\ InspectOutcome(c) \in Ordinary \cup {"InternalUnexpected"}
      /\ \A id : AgentOutcome(id) \in Ordinary /\ AgentResource(id) \in Ordinary
      /\ \A id : TaskIdOutcome("mcp", id) \in Ordinary
  BY DEF MessagesOutcome, InspectOutcome, ConversationOutcome, AgentOutcome, AgentResource,
         TaskIdOutcome, TaskOutcome, Ordinary, NotFound
<1>3. CASE McpRegisterAgent \/ McpHeartbeatAgent \/ McpDeregisterAgent
  BY <1>1, <1>3, AgentRequestsAreFair
  DEF McpRegisterAgent, McpHeartbeatAgent, McpDeregisterAgent
<1>4. CASE McpCreateConversation \/ McpSendMessage
  BY <1>1, <1>4, ChatRequestsAreFair DEF McpCreateConversation, McpSendMessage
<1>5. CASE McpGetMessages
  BY <1>1, <1>2, <1>5, OrdinaryAnswer DEF McpGetMessages
<1>6. ASSUME NEW assignees, NEW deadlines, McpSubmitTask(assignees, deadlines)
      PROVE  AnswersFairly
  BY <1>1, <1>6, SubmitRequestsAreFair DEF McpSubmitTask
<1>7. CASE McpGetTask \/ McpListTasks \/ McpCancelTask
  BY <1>1, <1>7, TaskRequestsAreFair DEF McpGetTask, McpListTasks, McpCancelTask
<1>8. CASE \/ McpListAgents \/ McpListConversations \/ McpListTools
           \/ McpListResources \/ McpListPrompts
  BY <1>1, <1>8, OrdinaryAnswer
  DEF McpListAgents, McpListConversations, McpListTools, McpListResources, McpListPrompts
<1>9. CASE McpReadResource \/ McpGetPrompt
  <2>1. PICK op \in {"read_resource", "get_prompt"}, k \in Ordinary \cup {"InternalUnexpected"} :
          Read("mcp", op, k)
    BY <1>1, <1>2, <1>9
    DEF McpReadResource, McpGetPrompt, SummarizeTask, AssignTask, InspectConversation
  <2>2. Possible("mcp", op, k)
    BY <1>1, <2>1 DEF Possible, Shared, Ordinary, CallersFault, HttpFronts
  <2> QED
    BY <2>1, <2>2, PossibleReply DEF Read
<1> QED
  BY <1>3, <1>4, <1>5, <1>6, <1>7, <1>8, <1>9

(***************************************************************************)
(* Every command of the command line is answered fairly, and not at all    *)
(* when its connection is cut.                                             *)
(***************************************************************************)
LEMMA CommandsAreFair ==
  ASSUME \/ StatusCommand \/ AgentRegisterCommand \/ AgentListCommand \/ AgentGetCommand
         \/ AgentDeregisterCommand \/ AgentHeartbeatCommand
         \/ \E assignees, deadlines : TaskSubmitCommand(assignees, deadlines)
         \/ TaskListCommand \/ TaskGetCommand \/ TaskCancelCommand \/ ToolListCommand
         \/ ChatNewCommand \/ ChatListCommand \/ ChatSendCommand \/ ChatHistoryCommand
  PROVE  AnswersFairly
<1>1. "cli" \in Callers /\ "Ok" \in Ordinary
  BY DEF Callers, Ordinary
<1>2. \A c, id : MessagesOutcome(c) \in Ordinary /\ AgentOutcome(id) \in Ordinary
  BY DEF MessagesOutcome, AgentOutcome, Ordinary, NotFound
<1>3. ASSUME NEW op, op # "none", Cut(op)
      PROVE  AnswersFairly
  <2>1. UNCHANGED submission
    BY <1>3 DEF Cut
  <2> QED
    BY <1>3, <2>1, NoAnswer DEF Cut
<1>4. CASE AgentRegisterCommand \/ AgentDeregisterCommand \/ AgentHeartbeatCommand
  BY <1>1, <1>3, <1>4, AgentRequestsAreFair
  DEF AgentRegisterCommand, AgentDeregisterCommand, AgentHeartbeatCommand, Command
<1>5. CASE ChatNewCommand \/ ChatSendCommand
  BY <1>1, <1>3, <1>5, ChatRequestsAreFair DEF ChatNewCommand, ChatSendCommand, Command
<1>6. CASE AgentGetCommand \/ ChatHistoryCommand
  BY <1>1, <1>2, <1>3, <1>6, OrdinaryAnswer DEF AgentGetCommand, ChatHistoryCommand, Command
<1>7. ASSUME NEW assignees, NEW deadlines, TaskSubmitCommand(assignees, deadlines)
      PROVE  AnswersFairly
  BY <1>1, <1>3, <1>7, SubmitRequestsAreFair DEF TaskSubmitCommand, Command
<1>8. CASE TaskListCommand \/ TaskGetCommand \/ TaskCancelCommand
  BY <1>1, <1>3, <1>8, TaskRequestsAreFair
  DEF TaskListCommand, TaskGetCommand, TaskCancelCommand, Command
<1>9. CASE StatusCommand \/ AgentListCommand \/ ToolListCommand \/ ChatListCommand
  BY <1>1, <1>3, <1>9, OrdinaryAnswer
  DEF StatusCommand, AgentListCommand, ToolListCommand, ChatListCommand, Command
<1> QED
  BY <1>4, <1>5, <1>6, <1>7, <1>8, <1>9

(***************************************************************************)
(* A call of a built-in tool that fails is blamed on nobody.               *)
(***************************************************************************)
LEMMA ToolCallsAreFair ==
  ASSUME HttpInvokeTool \/ ToolInvokeCommand \/ McpCallTool
           \/ \E front \in HttpFronts \cup {"mcp"} : AnswerScan(front)
  PROVE  AnswersFairly
<1> DEFINE tools == {"Ok", "ToolNotFound", "ToolInvocationFailed", "InternalUnexpected"}
<1>1. ASSUME NEW front \in {"http", "cli", "mcp"}, NEW k \in tools, Read(front, "call_tool", k)
      PROVE  AnswersFairly
  <2>1. Possible(front, "call_tool", k)
    BY DEF Possible, Callers, Shared, CallersFault, NotFound, HttpOutcome, Error, Internal
  <2> QED
    BY <1>1, <2>1, PossibleReply DEF Read
<1>2. \A tool, p : CodeToolOutcome(tool, p) \in tools
  BY DEF CodeToolOutcome
<1>3. ASSUME NEW front \in {"http", "cli", "mcp"}, CallTool(front)
      PROVE  AnswersFairly
  BY <1>1, <1>2, <1>3 DEF CallTool
<1>4. CASE ToolInvokeCommand
  <2>1. CASE Cut("call_tool")
    <3>1. UNCHANGED submission
      BY <2>1 DEF Cut
    <3> QED
      BY <2>1, <3>1, NoAnswer DEF Cut
  <2>2. CASE /\ reply' = [front |-> "cli", op |-> "call_tool", outcome |-> "InvalidInput",
                          answer |-> "local"]
             /\ UNCHANGED <<managers, submission, walk>>
    <3>1. /\ reply'.answer = "local" /\ reply'.op # "none" /\ UNCHANGED submission
          /\ ~CliSucceeds(reply'.op, reply'.answer)
      BY <2>2 DEF CliSucceeds, CheckStatus, SplitResponse
    <3> QED
      BY <3>1 DEF AnswersFairly, AnswerIsFair, BlamesCaller
  <2> QED
    BY <1>3, <1>4, <2>1, <2>2 DEF ToolInvokeCommand, Command
<1>5. ASSUME NEW front \in HttpFronts \cup {"mcp"}, AnswerScan(front)
      PROVE  AnswersFairly
  BY <1>1, <1>5 DEF AnswerScan, HttpFronts
<1> QED
  BY <1>3, <1>4, <1>5 DEF HttpInvokeTool, McpCallTool

(***************************************************************************)
(* Every step of the daemon answers fairly, or answers nobody: a           *)
(* submission that is under way ends with a success.                       *)
(***************************************************************************)
LEMMA StepsAnswerFairly ==
  ASSUME SubmissionIsCallers, Next \/ UNCHANGED vars
  PROVE  AnswersFairly
<1>1. CASE UNCHANGED <<reply, submission>>
  BY <1>1 DEF AnswersFairly
<1>2. CASE FinishSubmit
  <2>1. submission.front \in Callers /\ "Ok" \in Ordinary
    BY <1>2 DEF FinishSubmit, SubmissionIsCallers, Ordinary
  <2>2. Possible(submission.front, "submit_task", "Ok")
    BY <2>1 DEF Possible, HttpOutcome
  <2>3. AnswerIsFair'
    BY <1>2, <2>2, FairAnswer DEF FinishSubmit
  <2> QED
    BY <1>2, <2>3 DEF FinishSubmit, AnswersFairly
<1>3. CASE AgentRequests
  <2>1. CASE \E a \in AgentIds : AgentFallsSilent(a)
    BY <1>1, <2>1 DEF AgentFallsSilent
  <2> QED
    BY <1>3, <2>1, RoutesAreFair, McpIsFair, CommandsAreFair DEF AgentRequests
<1>4. CASE ChatRequests
  BY <1>4, RoutesAreFair, McpIsFair, CommandsAreFair DEF ChatRequests
<1>5. CASE SubmitRequests
  BY <1>5, RoutesAreFair, McpIsFair, CommandsAreFair, A2aRequestsAreFair DEF SubmitRequests
<1>6. CASE TaskRequestsOnly
  BY <1>6, RoutesAreFair, McpIsFair, CommandsAreFair, A2aRequestsAreFair DEF TaskRequestsOnly
<1>7. CASE PageRequests
  BY <1>7, A2aRequestsAreFair DEF PageRequests
<1>8. CASE ListRequests
  <2>1. CASE \E op \in {"submit_task", "send_message", "call_tool"} : BodyTooLarge(op)
    BY <2>1, RoutesAreFair
  <2> QED
    BY <1>8, <2>1, RoutesAreFair, McpIsFair, CommandsAreFair, A2aRequestsAreFair
    DEF ListRequests
<1>9. CASE WebhookRequests
  BY <1>9, A2aRequestsAreFair DEF WebhookRequests
<1>10. CASE HttpGetTool
  BY <1>10, RoutesAreFair
<1>11. CASE ToolRequest
  BY <1>1, <1>11, ToolCallsAreFair DEF ToolRequest
<1>12. CASE Loads
  BY <1>1, <1>12 DEF Loads
<1>13. CASE ManagerRequest
  BY <1>2, <1>3, <1>4, <1>5, <1>6, <1>7, <1>8, <1>9, <1>10, <1>13 DEF ManagerRequest
<1>14. CASE UNCHANGED vars
  BY <1>1, <1>14 DEF vars
<1> QED
  BY <1>11, <1>12, <1>13, <1>14 DEF Next

(***************************************************************************)
(* Every answer ever given is fair, and every submission under way is one  *)
(* of a front end that will be answered.                                   *)
(***************************************************************************)
LEMMA EveryAnswerIsFair ==
  Spec => [](AnswerIsFair /\ SubmissionIsCallers)
<1>1. Init => AnswerIsFair /\ SubmissionIsCallers
  BY DEF Init, AnswerIsFair, SubmissionIsCallers, None
<1>2. ASSUME AnswerIsFair, SubmissionIsCallers, [Next]_vars
      PROVE  AnswerIsFair' /\ SubmissionIsCallers'
  <2>1. AnswersFairly
    BY <1>2, StepsAnswerFairly
  <2>2. AnswerIsFair'
    BY <1>2, <2>1 DEF AnswersFairly, AnswerIsFair, None
  <2>3. SubmissionIsCallers'
    BY <1>2, <2>1 DEF AnswersFairly, SubmissionIsCallers, None
  <2> QED
    BY <2>2, <2>3
<1> QED
  BY <1>1, <1>2, PTL DEF Spec

(***************************************************************************)
(* Whatever the managers hold and whoever asks in whatever order, no front *)
(* end blames a caller for what is not the caller's fault.                 *)
(***************************************************************************)
THEOREM NobodyIsBlamed == Spec => []CallersAreNotBlamed
<1>1. AnswerIsFair => CallersAreNotBlamed
  BY DEF AnswerIsFair, CallersAreNotBlamed
<1> QED
  BY <1>1, EveryAnswerIsFair, PTL

(***************************************************************************)
(* No command ends with success for a request that was refused, lost, cut  *)
(* or left by a panic, except status, cancel, heartbeat and deregister     *)
(* when they read no status line at all (cli/client.rs split_response).    *)
(***************************************************************************)
THEOREM CommandsAreHonest == Spec => []SuccessMeansDone
<1>1. AnswerIsFair => SuccessMeansDone
  BY DEF AnswerIsFair, SuccessMeansDone
<1> QED
  BY <1>1, EveryAnswerIsFair, PTL

-----------------------------------------------------------------------------
(* The pages of the task list *)

\* The maps of the task manager have their keys, and what is indexed is there.
IndexedAreBorn ==
  /\ tasks = [t \in TaskIds |-> tasks[t]]
  /\ \A t \in TaskIds : "state" \in DOMAIN tasks[t]
  /\ contextIndex = [c \in Contexts |-> contextIndex[c]]
  /\ \A c \in Contexts : contextIndex[c] \in Seq(TaskIds) /\ ToSet(contextIndex[c]) \subseteq Born

\* The tasks of the walk that lasted so far.
Lasting == walk.first \cap ListFiltered(walk.context, walk.state)

(***************************************************************************)
(* What was there when a client began and still is has been read or comes  *)
(* behind the last id that was.                                            *)
(***************************************************************************)
WalkKeepsUp ==
  walk # None =>
    /\ walk.op \in {"walking", "walked"}
    /\ walk.context \in Contexts \cup {NoContext}
    /\ walk.state \in {AnyState, "Submitted"}
    /\ walk.read \in Seq(TaskIds) /\ Ascends(walk.read)
    /\ walk.first \subseteq Born
    /\ walk.op = "walking" =>
         /\ walk.read # <<>>
         /\ \A t \in Lasting : t \in ToSet(walk.read) \/ t > Last(walk.read)
    /\ walk.op = "walked" => Lasting \subseteq ToSet(walk.read)

\* No task comes, and the client does not read on.
TasksMove ==
  \/ UNCHANGED <<tasks, contextIndex, walk>>
  \/ UNCHANGED walk /\ \E id \in Born : Cancel(id)

(***************************************************************************)
(* Every request but a submission and a page leaves the task list alone,   *)
(* or cancels a task of it.                                                *)
(***************************************************************************)
LEMMA ReadsMoveNothing ==
  ASSUME NEW front, NEW op, NEW k, Read(front, op, k) \/ Refuse(front, op, k)
  PROVE  TasksMove
BY DEF Read, Refuse, managers, TasksMove

\* The requests of the front ends, one by one.
LEMMA RequestsMoveTasks ==
  ASSUME NEW front,
         \/ \E a : RegisterRequest(front, a)
         \/ \E id : HeartbeatRequest(front, id) \/ DeregisterRequest(front, id)
         \/ \E ids : CreateConversationRequest(front, ids)
         \/ \E c, sender : SendMessageRequest(front, c, sender)
         \/ \E c, a, ms, at : SubmitRequest(front, c, a, ms, at)
         \/ \E id : GetTask(front, id) \/ CancelRequest(front, id)
         \/ \E c, s : ListTasks(front, c, s)
         \/ \E t, url : CreateWebhook(t, url)
         \/ \E t, w : GetWebhook(t, w) \/ DeleteWebhook(t, w) \/ ListWebhooks(t)
         \/ A2aSendMessage
         \/ \E op : Cut(op)
  PROVE  TasksMove
<1> USE ReadsMoveNothing DEF Done
<1>1. CASE \/ \E a : RegisterRequest(front, a)
           \/ \E id : HeartbeatRequest(front, id) \/ DeregisterRequest(front, id)
  BY <1>1 DEF RegisterRequest, HeartbeatRequest, DeregisterRequest, TasksMove
<1>2. CASE \/ \E ids : CreateConversationRequest(front, ids)
           \/ \E c, sender : SendMessageRequest(front, c, sender)
  BY <1>2 DEF CreateConversationRequest, SendMessageRequest, TasksMove
<1>3. CASE (\E c, a, ms, at : SubmitRequest(front, c, a, ms, at)) \/ A2aSendMessage
  BY <1>3 DEF SubmitRequest, A2aSendMessage, GrpcSubmit, Accept, managers, TasksMove
<1>4. CASE (\E id : GetTask(front, id) \/ CancelRequest(front, id)) \/ \E c, s : ListTasks(front, c, s)
  BY <1>4 DEF GetTask, CancelRequest, ListTasks, TasksMove
<1>5. CASE \/ \E t, url : CreateWebhook(t, url)
           \/ \E t, w : GetWebhook(t, w) \/ DeleteWebhook(t, w) \/ ListWebhooks(t)
  BY <1>5 DEF CreateWebhook, GetWebhook, DeleteWebhook, ListWebhooks, TasksMove
<1>6. CASE \E op : Cut(op)
  BY <1>6 DEF Cut, managers, TasksMove
<1> QED
  BY <1>1, <1>2, <1>3, <1>4, <1>5, <1>6

(***************************************************************************)
(* Every step is a move of the tasks, the end of a submission or a page.   *)
(***************************************************************************)
LEMMA StepsMoveTasks ==
  ASSUME Next \/ UNCHANGED vars
  PROVE  \/ TasksMove
         \/ FinishSubmit
         \/ \E c \in Contexts \cup {NoContext}, s \in {AnyState, "Submitted"}, size \in PageSizes :
              ReadPage(c, s, size)
<1> USE ReadsMoveNothing, RequestsMoveTasks
<1>1. CASE UNCHANGED <<managers, walk>>
  BY <1>1 DEF managers, TasksMove
<1>2. CASE AgentRequests
  BY <1>2
  DEF AgentRequests, HttpRegisterAgent, HttpHeartbeatAgent, HttpDeregisterAgent,
      McpRegisterAgent, McpHeartbeatAgent, McpDeregisterAgent, AgentRegisterCommand,
      AgentHeartbeatCommand, AgentDeregisterCommand, AgentGetCommand, Command,
      AgentFallsSilent, TasksMove
<1>3. CASE ChatRequests
  BY <1>3
  DEF ChatRequests, HttpCreateConversation, HttpGetConversation, HttpSendMessage,
      HttpGetMessages, McpCreateConversation, McpSendMessage, McpGetMessages,
      ChatNewCommand, ChatSendCommand, ChatHistoryCommand, Command
<1>4. CASE SubmitRequests
  BY <1>4 DEF SubmitRequests, HttpSubmitTask, McpSubmitTask, TaskSubmitCommand, Command
<1>5. CASE TaskRequestsOnly
  BY <1>5
  DEF TaskRequestsOnly, HttpGetTask, McpGetTask, TaskGetCommand, A2aGetTask, HttpCancelTask,
      McpCancelTask, TaskCancelCommand, A2aCancelTask, Command
<1>6. CASE ListRequests
  <2>1. CASE ForeignPeer
    BY <2>1 DEF ForeignPeer, managers, TasksMove
  <2>2. CASE \/ HealthCheck \/ HttpListTasks \/ HttpListAgents \/ HttpListConversations
             \/ HttpListTools \/ Unauthenticated \/ GetCard
             \/ \E op \in {"submit_task", "send_message", "call_tool"} : BodyTooLarge(op)
    BY <2>2
    DEF HealthCheck, HttpListTasks, HttpListAgents, HttpListConversations, HttpListTools,
        Unauthenticated, GetCard, BodyTooLarge
  <2>3. CASE \/ McpListTasks \/ McpListAgents \/ McpListConversations \/ McpListTools
             \/ McpListResources \/ McpReadResource \/ McpListPrompts \/ McpGetPrompt
    BY <2>3
    DEF McpListTasks, McpListAgents, McpListConversations, McpListTools, McpListResources,
        McpReadResource, McpListPrompts, McpGetPrompt
  <2>4. CASE TaskListCommand \/ AgentListCommand \/ ChatListCommand \/ ToolListCommand \/ StatusCommand
    BY <2>4
    DEF TaskListCommand, AgentListCommand, ChatListCommand, ToolListCommand, StatusCommand, Command
  <2> QED
    BY <1>6, <2>1, <2>2, <2>3, <2>4 DEF ListRequests
<1>7. CASE WebhookRequests
  BY <1>7 DEF WebhookRequests
<1>8. CASE ToolRequest
  <2>1. CASE HttpInvokeTool \/ McpCallTool \/ ToolInvokeCommand
    BY <1>1, <2>1 DEF HttpInvokeTool, McpCallTool, ToolInvokeCommand, Command, CallTool, managers
  <2>2. CASE \E front \in HttpFronts \cup {"mcp"} : AnswerScan(front)
    BY <2>2 DEF AnswerScan
  <2> QED
    BY <1>1, <1>8, <2>1, <2>2 DEF ToolRequest
<1>9. CASE ManagerRequest
  BY <1>2, <1>3, <1>4, <1>5, <1>6, <1>7, <1>9 DEF ManagerRequest, PageRequests, HttpGetTool
<1>10. CASE Loads
  BY <1>1, <1>10 DEF Loads
<1>11. CASE UNCHANGED vars
  BY <1>1, <1>11 DEF vars
<1> QED
  BY <1>8, <1>9, <1>10, <1>11 DEF Next

(***************************************************************************)
(* The ids of tasks are numbers, and a page holds at least one task.       *)
(***************************************************************************)
LEMMA Numbers == TaskIds \subseteq Nat /\ PageSizes \subseteq Nat \ {0}
  BY FrontendsAssumption

(***************************************************************************)
(* A page of tasks is an ascending list of some of them; if it has not all *)
(* of them then it has one, and the others come behind its last.           *)
(***************************************************************************)
LEMMA PageIsPrefix ==
  ASSUME NEW rest \in SUBSET TaskIds, NEW size \in PageSizes, NEW page \in Pages(rest, size)
  PROVE  /\ page \in Seq(rest) /\ Ascends(page) /\ ToSet(page) \subseteq rest
         /\ rest # ToSet(page) =>
              page # <<>> /\ \A t \in rest \ ToSet(page) : t > Last(page)
<1>1. PICK m \in 0 .. size : page \in [1 .. m -> rest]
  BY DEF Pages, BoundedSeq, SeqOf
<1>2. size \in Nat /\ size > 0
  BY Numbers
<1>3. page \in Seq(rest) /\ Len(page) = m /\ DOMAIN page = 1 .. m
  BY <1>1, <1>2
<1>4. ToSet(page) = {page[i] : i \in 1 .. m}
  BY <1>3 DEF ToSet
<1>5. ToSet(page) \subseteq rest
  BY <1>1, <1>4
<1>6. ASSUME rest # ToSet(page)
      PROVE  page # <<>> /\ \A t \in rest \ ToSet(page) : t > Last(page)
  <2>1. PICK t \in rest : t \notin ToSet(page)
    BY <1>5, <1>6
  <2>2. m = size
    BY <1>3, <2>1 DEF Pages
  <2>3. m \in 1 .. m /\ Last(page) = page[m] /\ page[m] \in ToSet(page)
    BY <1>2, <1>3, <1>4, <2>2 DEF Last
  <2>4. ASSUME NEW u \in rest \ ToSet(page)
        PROVE  u > Last(page)
    <3>1. page[m] < u
      BY <2>3 DEF Pages
    <3>2. page[m] \in Nat /\ u \in Nat
      BY <1>5, <2>3, Numbers
    <3> QED
      BY <2>3, <3>1, <3>2
  <2> QED
    BY <1>2, <1>3, <2>2, <2>4
<1> QED
  BY <1>3, <1>5, <1>6 DEF Pages

\* The items of a sequence by their places.
LEMMA ItemsOfSequence ==
  ASSUME NEW S, NEW s \in Seq(S)
  PROVE  ToSet(s) = {s[i] : i \in 1 .. Len(s)}
BY DEF ToSet

(***************************************************************************)
(* What was read and a page behind it ascend together.                     *)
(***************************************************************************)
LEMMA PagesAscend ==
  ASSUME NEW read \in Seq(TaskIds), NEW page \in Seq(TaskIds), Ascends(read), Ascends(page),
         read = <<>> \/ \A t \in ToSet(page) : t > Last(read)
  PROVE  /\ read \o page \in Seq(TaskIds)
         /\ ToSet(read \o page) = ToSet(read) \cup ToSet(page)
         /\ Ascends(read \o page)
         /\ page # <<>> => read \o page # <<>> /\ Last(read \o page) = Last(page)
<1> DEFINE m == Len(read)
           n == Len(page)
           all == read \o page
<1>1. /\ m \in Nat /\ n \in Nat /\ all \in Seq(TaskIds) /\ Len(all) = m + n
      /\ \A i \in 1 .. m : read[i] \in TaskIds /\ all[i] = read[i]
      /\ \A i \in 1 .. n : page[i] \in TaskIds /\ all[m + i] = page[i]
  OBVIOUS
<1>2. ToSet(read) = {read[i] : i \in 1 .. m} /\ ToSet(page) = {page[i] : i \in 1 .. n}
      /\ ToSet(all) = {all[i] : i \in 1 .. m + n}
  BY <1>1, ItemsOfSequence
<1>3. \A i \in 1 .. m + n : i \in 1 .. m \/ (i - m \in 1 .. n /\ i = m + (i - m))
  BY <1>1
<1> HIDE DEF m, n, all
<1>4. ToSet(all) = ToSet(read) \cup ToSet(page)
  <2>1. ASSUME NEW i \in 1 .. m + n
        PROVE  all[i] \in ToSet(read) \cup ToSet(page)
    <3>1. CASE i \in 1 .. m
      BY <1>1, <1>2, <3>1
    <3>2. ASSUME NEW j \in 1 .. n, i = m + j
          PROVE  all[i] \in ToSet(page)
      BY <1>1, <1>2, <3>2
    <3> QED
      BY <1>3, <3>1, <3>2
  <2>2. \A i \in 1 .. m : i \in 1 .. m + n
    BY <1>1
  <2>3. \A i \in 1 .. n : m + i \in 1 .. m + n
    BY <1>1
  <2> QED
    BY <1>1, <1>2, <2>1, <2>2, <2>3, SMTT(40)
<1>5. ASSUME NEW i \in 1 .. m + n, NEW j \in 1 .. m + n, i < j
      PROVE  all[i] < all[j]
  <2>1. CASE j \in 1 .. m
    <3>1. i \in 1 .. m
      BY <1>1, <1>5, <2>1
    <3> QED
      BY <1>1, <1>5, <2>1, <3>1 DEF Ascends, m
  <2>2. CASE i \notin 1 .. m
    <3> DEFINE a == i - m
               b == j - m
    <3>1. a \in 1 .. n /\ b \in 1 .. n /\ a < b /\ i = m + a /\ j = m + b
      BY <1>1, <1>3, <1>5, <2>2
    <3> HIDE DEF a, b
    <3>2. page[a] < page[b]
      BY <3>1 DEF Ascends, n
    <3> QED
      BY <1>1, <3>1, <3>2
  <2>3. CASE i \in 1 .. m /\ j \notin 1 .. m
    <3> DEFINE b == j - m
    <3>1. b \in 1 .. n /\ j = m + b /\ m \in 1 .. m /\ read # <<>>
      BY <1>1, <1>3, <1>5, <2>3 DEF m
    <3> HIDE DEF b
    <3>2. page[b] > Last(read) /\ Last(read) = read[m]
      BY <1>2, <3>1 DEF Last, m
    <3>3. i = m \/ read[i] < read[m]
      BY <1>1, <2>3, <3>1 DEF Ascends, m
    <3>4. read[i] \in Nat /\ read[m] \in Nat /\ page[b] \in Nat
      BY <1>1, <2>3, <3>1, Numbers
    <3>5. read[i] < page[b]
      BY <3>2, <3>3, <3>4
    <3> QED
      BY <1>1, <2>3, <3>1, <3>5
  <2> QED
    BY <2>1, <2>2, <2>3
<1>6. page # <<>> => all # <<>> /\ Last(all) = Last(page)
  <2> SUFFICES ASSUME page # <<>>
               PROVE  all # <<>> /\ Last(all) = Last(page)
    OBVIOUS
  <2>1. n \in 1 .. n
    BY <1>1 DEF n
  <2>2. all[m + n] = page[n] /\ m + n # 0
    BY <1>1, <2>1
  <2> QED
    BY <1>1, <2>2 DEF Last, n
<1> QED
  BY <1>1, <1>4, <1>5, <1>6 DEF Ascends, all

(***************************************************************************)
(* A task once born stays, and the list takes up no task it did not have   *)
(* before but the new ones: no task gets back to Submitted.                *)
(***************************************************************************)
ListOnlyGrowsAhead ==
  /\ IndexedAreBorn'
  /\ Born \subseteq Born'
  /\ \A c \in Contexts \cup {NoContext}, s \in {AnyState, "Submitted"} :
       ListFiltered(c, s)' \cap Born \subseteq ListFiltered(c, s)

\* A canceled task leaves the list of the submitted ones and joins none of them.
LEMMA CancelKeepsList ==
  ASSUME IndexedAreBorn, NEW id \in Born, Cancel(id)
  PROVE  ListOnlyGrowsAhead
<1>1. StateOf(id) \in Live /\ id \in TaskIds /\ CanTransition(StateOf(id), "Canceled")
  BY DEF Cancel, UpdateStatus, CanTransition, Live, TaskState, Terminal, Interrupted, Born
<1>2. /\ tasks' = [t \in TaskIds |->
                     IF t = id THEN [tasks[t] EXCEPT !.state = "Canceled"] ELSE tasks[t]]
      /\ UNCHANGED contextIndex
  BY <1>1 DEF Cancel, UpdateStatus, UpdateStatuses
<1>3. \A t \in TaskIds : /\ "state" \in DOMAIN tasks'[t]
                         /\ StateOf(t)' = IF t = id THEN "Canceled" ELSE StateOf(t)
  BY <1>2 DEF IndexedAreBorn, StateOf
<1>4. Born' = Born
  BY <1>1, <1>3 DEF Born
<1>5. IndexedAreBorn'
  BY <1>2, <1>3, <1>4 DEF IndexedAreBorn
<1>6. ASSUME NEW c \in Contexts \cup {NoContext}, NEW s \in {AnyState, "Submitted"}
      PROVE  ListFiltered(c, s)' \subseteq ListFiltered(c, s)
  <2>1. \A t \in TaskIds : s \in {AnyState, StateOf(t)'} => s \in {AnyState, StateOf(t)}
    BY <1>3
  <2>2. c \in Contexts => ToSet(contextIndex[c]) \subseteq TaskIds
    BY DEF IndexedAreBorn, Born
  <2>3. Born \subseteq TaskIds
    BY DEF Born
  <2> QED
    BY <1>2, <1>4, <2>1, <2>2, <2>3 DEF ListFiltered
<1> QED
  BY <1>4, <1>5, <1>6 DEF ListOnlyGrowsAhead

\* A new task is the only one that comes to a list.
LEMMA CreateKeepsList ==
  ASSUME IndexedAreBorn, NEW t \in TaskIds, NEW c, NEW a, NEW d, CreateTask(t, c, a, d)
  PROVE  ListOnlyGrowsAhead
<1>1. StateOf(t) = "Unborn" /\ t \notin Born
  BY DEF CreateTask, Born
<1>2. /\ tasks' = [tasks EXCEPT ![t] = [state |-> "Submitted", context |-> c, assignee |-> a,
                                        deadline |-> d, artifacts |-> 0]]
      /\ contextIndex' = [contextIndex EXCEPT ![c] = Append(@, t)]
  BY DEF CreateTask
<1>3. \A u \in TaskIds : /\ "state" \in DOMAIN tasks'[u]
                         /\ StateOf(u)' = IF u = t THEN "Submitted" ELSE StateOf(u)
  BY <1>2 DEF IndexedAreBorn, StateOf
<1>4. Born' = Born \cup {t}
  BY <1>3 DEF Born
<1>5. tasks' = [u \in TaskIds |-> tasks'[u]] /\ contextIndex' = [x \in Contexts |-> contextIndex'[x]]
  BY <1>2 DEF IndexedAreBorn
<1>6. ASSUME NEW x \in Contexts
      PROVE  /\ contextIndex'[x] \in Seq(TaskIds)
             /\ ToSet(contextIndex'[x]) \subseteq ToSet(contextIndex[x]) \cup {t}
  <2>1. contextIndex[x] \in Seq(TaskIds)
    BY DEF IndexedAreBorn
  <2>2. contextIndex'[x] \in {contextIndex[x], Append(contextIndex[x], t)}
    BY <1>2 DEF IndexedAreBorn
  <2>3. Append(contextIndex[x], t) \in Seq(TaskIds)
    BY <2>1
  <2>4. ToSet(Append(contextIndex[x], t)) \subseteq ToSet(contextIndex[x]) \cup {t}
    BY <2>1, AppendProperties DEF ToSet
  <2> QED
    BY <2>1, <2>2, <2>3, <2>4
<1>7. IndexedAreBorn'
  BY <1>3, <1>4, <1>5, <1>6 DEF IndexedAreBorn
<1>8. ASSUME NEW x \in Contexts \cup {NoContext}, NEW s \in {AnyState, "Submitted"}
      PROVE  ListFiltered(x, s)' \cap Born \subseteq ListFiltered(x, s)
  <2>1. x \in Contexts => ToSet(contextIndex[x])' \subseteq ToSet(contextIndex[x]) \cup {t}
    BY <1>6 DEF ToSet
  <2>2. \A u \in Born : u \in TaskIds /\ u # t
    BY <1>1 DEF Born
  <2>3. \A u \in Born : StateOf(u)' = StateOf(u)
    BY <1>3, <2>2
  <2> QED
    BY <1>4, <2>1, <2>2, <2>3 DEF ListFiltered
<1> QED
  BY <1>4, <1>7, <1>8 DEF ListOnlyGrowsAhead

(***************************************************************************)
(* A walk keeps up with a list that grows by new tasks only.               *)
(***************************************************************************)
LEMMA WalkWaits ==
  ASSUME WalkKeepsUp, ListOnlyGrowsAhead, UNCHANGED walk
  PROVE  WalkKeepsUp'
<1> SUFFICES ASSUME walk # None
             PROVE  WalkKeepsUp'
  BY DEF WalkKeepsUp, None
<1>1. /\ walk.context \in Contexts \cup {NoContext} /\ walk.state \in {AnyState, "Submitted"}
      /\ walk.first \subseteq Born
  BY DEF WalkKeepsUp
<1>2. ListFiltered(walk.context, walk.state)' \cap Born \subseteq
        ListFiltered(walk.context, walk.state)
  BY <1>1 DEF ListOnlyGrowsAhead, ListFiltered, StateOf, ToSet
<1>3. Lasting' \subseteq Lasting
  BY <1>1, <1>2 DEF Lasting
<1> QED
  BY <1>3 DEF WalkKeepsUp, ListOnlyGrowsAhead, ToSet, Ascends, Last, None

(***************************************************************************)
(* A page that is read takes the tasks that come first behind the last id, *)
(* and when it takes them all nothing that lasts is left.                  *)
(***************************************************************************)
LEMMA PageKeepsUp ==
  ASSUME IndexedAreBorn, WalkKeepsUp,
         NEW c \in Contexts \cup {NoContext}, NEW s \in {AnyState, "Submitted"},
         NEW size \in PageSizes, ReadPage(c, s, size)
  PROVE  WalkKeepsUp'
<1> DEFINE listed == ListFiltered(c, s)
           read == IF walk = None THEN <<>> ELSE walk.read
           first == IF walk = None THEN listed ELSE walk.first
           rest == After(listed, read)
<1>1. PICK page \in Pages(rest, size) :
        walk' = [op      |-> IF rest = ToSet(page) THEN "walked" ELSE "walking",
                 context |-> c,
                 state   |-> s,
                 read    |-> read \o page,
                 first   |-> first]
  BY DEF ReadPage
<1>2. UNCHANGED <<tasks, contextIndex>>
  BY DEF ReadPage, managers
<1>3. walk = None \/ (walk # None /\ walk.op = "walking" /\ walk.context = c /\ walk.state = s)
  BY DEF ReadPage, WalkKeepsUp
<1>4. listed \subseteq Born /\ Born \subseteq TaskIds
  BY DEF ListFiltered, IndexedAreBorn, Born
<1>5. /\ read \in Seq(TaskIds) /\ Ascends(read) /\ first \subseteq Born
      /\ \A t \in first \cap listed : t \in ToSet(read) \/ t \in rest
  <2>1. CASE walk = None
    <3>1. read = <<>> /\ first = listed /\ rest = listed
      BY <2>1 DEF After
    <3>2. \A i \in 1 .. Len(<<>>) : FALSE
      OBVIOUS
    <3>3. Ascends(<<>>)
      BY <3>2 DEF Ascends
    <3> HIDE DEF read, first, rest, listed
    <3>4. read \in Seq(TaskIds) /\ first \subseteq Born
      BY <1>4, <3>1
    <3>5. Ascends(read)
      BY <3>1, <3>3, Zenon
    <3>6. \A t \in first \cap listed : t \in rest
      BY <3>1
    <3> QED
      BY <3>4, <3>5, <3>6
  <2>2. CASE walk # None
    <3>1. read = walk.read /\ first = walk.first /\ walk.op = "walking"
          /\ walk.context = c /\ walk.state = s
      BY <1>3, <2>2
    <3>2. first \cap listed = Lasting
      BY <3>1 DEF Lasting
    <3> QED
      BY <2>2, <3>1, <3>2 DEF WalkKeepsUp, After
  <2> QED
    BY <2>1, <2>2
<1>6. rest \in SUBSET TaskIds /\ (read = <<>> \/ \A t \in rest : t > Last(read))
  BY <1>4 DEF After
<1> HIDE DEF listed, read, first, rest
<1>7. /\ page \in Seq(rest) /\ Ascends(page) /\ ToSet(page) \subseteq rest
      /\ rest # ToSet(page) => page # <<>> /\ \A t \in rest \ ToSet(page) : t > Last(page)
  BY <1>6, PageIsPrefix
<1>8. page \in Seq(TaskIds)
  BY <1>6, <1>7
<1>9. /\ read \o page \in Seq(TaskIds)
      /\ ToSet(read \o page) = ToSet(read) \cup ToSet(page)
      /\ Ascends(read \o page)
      /\ page # <<>> => read \o page # <<>> /\ Last(read \o page) = Last(page)
  BY <1>5, <1>6, <1>7, <1>8, PagesAscend
<1>10. Born' = Born /\ ListFiltered(c, s)' = listed
  BY <1>2 DEF Born, StateOf, ListFiltered, ToSet, listed
<1>11. Lasting' = first \cap listed
  <2>1. walk'.first = first /\ walk'.context = c /\ walk'.state = s
    BY <1>1
  <2> QED
    BY <1>10, <2>1, <1>2 DEF Lasting, ListFiltered, ToSet, Born, StateOf, listed
<1>12. \A t \in Lasting' : t \in ToSet(read \o page) \/ t \in rest \ ToSet(page)
  BY <1>5, <1>9, <1>11
<1>13. /\ walk'.op = IF rest = ToSet(page) THEN "walked" ELSE "walking"
       /\ walk'.context = c /\ walk'.state = s /\ walk'.first = first
       /\ walk'.read = read \o page
  BY <1>1
<1>14. walk'.op = "walking" =>
         /\ walk'.read # <<>>
         /\ \A t \in Lasting' : t \in ToSet(walk'.read) \/ t > Last(walk'.read)
  BY <1>7, <1>9, <1>12, <1>13
<1>15. walk'.op = "walked" => Lasting' \subseteq ToSet(walk'.read)
  BY <1>12, <1>13
<1>16. /\ walk'.op \in {"walking", "walked"} /\ walk'.first \subseteq Born'
       /\ walk'.read \in Seq(TaskIds)
  BY <1>5, <1>9, <1>10, <1>13
<1>17. Ascends(walk'.read)
  BY <1>9, <1>13
<1>18. /\ walk'.context \in Contexts \cup {NoContext} /\ walk'.state \in {AnyState, "Submitted"}
  BY <1>13
<1> QED
  BY <1>14, <1>15, <1>16, <1>17, <1>18 DEF WalkKeepsUp, ToSet, Ascends, Last

(***************************************************************************)
(* The walk keeps up, whatever is created and canceled between its pages.  *)
(***************************************************************************)
LEMMA WalksKeepUp == Spec => [](IndexedAreBorn /\ WalkKeepsUp)
<1>1. ASSUME Init
      PROVE  IndexedAreBorn /\ WalkKeepsUp
  <2>1. tasks = [t \in TaskIds |-> NoTask] /\ contextIndex = [c \in Contexts |-> <<>>]
    BY <1>1 DEF Init, TaskInit
  <2>2. \A t \in TaskIds : "state" \in DOMAIN tasks[t]
    BY <2>1 DEF NoTask
  <2>3. \A c \in Contexts : contextIndex[c] \in Seq(TaskIds) /\ ToSet(contextIndex[c]) = {}
    BY <2>1 DEF ToSet
  <2> QED
    BY <1>1, <2>1, <2>2, <2>3 DEF Init, IndexedAreBorn, WalkKeepsUp
<1>2. ASSUME IndexedAreBorn, WalkKeepsUp, [Next]_vars
      PROVE  IndexedAreBorn' /\ WalkKeepsUp'
  <2>1. CASE TasksMove
    <3>1. CASE UNCHANGED <<tasks, contextIndex, walk>>
      <4>1. Born' = Born /\ \A c, s : ListFiltered(c, s)' = ListFiltered(c, s)
        BY <3>1 DEF Born, StateOf, ListFiltered, ToSet
      <4>2. IndexedAreBorn'
        BY <1>2, <3>1, <4>1 DEF IndexedAreBorn, ToSet
      <4>3. ListOnlyGrowsAhead
        BY <4>1, <4>2 DEF ListOnlyGrowsAhead
      <4> QED
        BY <1>2, <3>1, <4>3, WalkWaits DEF ListOnlyGrowsAhead
    <3>2. CASE UNCHANGED walk /\ \E id \in Born : Cancel(id)
      BY <1>2, <3>2, CancelKeepsList, WalkWaits DEF ListOnlyGrowsAhead
    <3> QED
      BY <2>1, <3>1, <3>2 DEF TasksMove
  <2>2. CASE FinishSubmit
    <3>1. UNCHANGED walk /\ ListOnlyGrowsAhead
      BY <1>2, <2>2, CreateKeepsList DEF FinishSubmit
    <3> QED
      BY <1>2, <3>1, WalkWaits DEF ListOnlyGrowsAhead
  <2>3. ASSUME NEW c \in Contexts \cup {NoContext}, NEW s \in {AnyState, "Submitted"},
               NEW size \in PageSizes, ReadPage(c, s, size)
        PROVE  IndexedAreBorn' /\ WalkKeepsUp'
    <3>1. UNCHANGED <<tasks, contextIndex>>
      BY <2>3 DEF ReadPage, managers
    <3>2. IndexedAreBorn'
      BY <1>2, <3>1 DEF IndexedAreBorn, Born, StateOf, ToSet
    <3> QED
      BY <1>2, <2>3, <3>2, PageKeepsUp
  <2> QED
    BY <1>2, <2>1, <2>2, <2>3, StepsMoveTasks
<1> QED
  BY <1>1, <1>2, PTL DEF Spec

(***************************************************************************)
(* A client that walks through the pages of the list, of any sizes, gets   *)
(* every task that lasts once and in order, while tasks are submitted and  *)
(* canceled between its requests (grpc/service.rs list_tasks).             *)
(***************************************************************************)
THEOREM WalksMissNothing == Spec => []WalkSeesAllThatLasts
<1>1. WalkKeepsUp => WalkSeesAllThatLasts
  BY DEF WalkKeepsUp, WalkSeesAllThatLasts, Lasting, None
<1> QED
  BY <1>1, WalksKeepUp, PTL

-----------------------------------------------------------------------------
(* The layers of the configuration *)

\* A process that has loaded its configuration has what its layers give.
ConfigIsLoaded == layers \in LayerChoices /\ config \in {Unloaded, Load(layers)}

\* A configuration is loaded once, from layers that stay.
LEMMA ConfigStaysLoaded == Spec => []ConfigIsLoaded
<1>1. Init => ConfigIsLoaded
  BY DEF Init, ConfigInit, ConfigIsLoaded
<1>2. ASSUME ConfigIsLoaded, [Next]_vars
      PROVE  ConfigIsLoaded'
  <2>1. UNCHANGED layers /\ config' \in {config, Load(layers)}
    BY <1>2 DEF Next, vars, Loads, LoadConfig, ManagerRequest, ToolRequest, outside
  <2>2. Load(layers)' = Load(layers)
    BY <2>1
  <2> QED
    BY <1>2, <2>1, <2>2 DEF ConfigIsLoaded
<1> QED
  BY <1>1, <1>2, PTL DEF Spec

(***************************************************************************)
(* A merge over a section gives each key what the overlay says of it, and  *)
(* what was below where it says nothing.                                   *)
(***************************************************************************)
LEMMA MergeByKey ==
  ASSUME NEW base, NEW overlay, NEW s \in DOMAIN base, Merge(base, overlay)[s] # WrongType,
         NEW k \in DOMAIN Merge(base, overlay)[s]
  PROVE  /\ Says(overlay, s, k) => Merge(base, overlay)[s][k] = overlay[s][k]
         /\ ~Says(overlay, s, k) =>
              base[s] # WrongType /\ k \in DOMAIN base[s] /\ Merge(base, overlay)[s][k] = base[s][k]
<1> DEFINE merged == Merge(base, overlay)
<1>1. merged[s] = IF s \notin DOMAIN overlay THEN base[s]
                  ELSE IF base[s] # WrongType /\ overlay[s] # WrongType
                       THEN Over(overlay[s], base[s])
                       ELSE overlay[s]
  BY DEF Merge
<1> HIDE DEF merged
<1>2. merged[s] # WrongType /\ k \in DOMAIN merged[s]
  BY DEF merged
<1>3. CASE s \notin DOMAIN overlay
  BY <1>1, <1>2, <1>3 DEF Says, merged
<1>4. CASE s \in DOMAIN overlay /\ base[s] # WrongType /\ overlay[s] # WrongType
  <2>1. merged[s] = [x \in DOMAIN overlay[s] \cup DOMAIN base[s] |->
                       IF x \in DOMAIN overlay[s] THEN overlay[s][x] ELSE base[s][x]]
    BY <1>1, <1>4 DEF Over
  <2>2. k \in DOMAIN overlay[s] \cup DOMAIN base[s]
    BY <1>2, <2>1
  <2>3. merged[s][k] = IF k \in DOMAIN overlay[s] THEN overlay[s][k] ELSE base[s][k]
    BY <2>1, <2>2
  <2> QED
    BY <1>4, <2>2, <2>3 DEF Says, merged
<1>5. CASE s \in DOMAIN overlay /\ ~(base[s] # WrongType /\ overlay[s] # WrongType)
  BY <1>1, <1>2, <1>5 DEF Says, merged
<1> QED
  BY <1>3, <1>4, <1>5

\* What a section comes to by well-spelt layers.
IsSection(table, s) ==
  /\ table # WrongType /\ DOMAIN table = DOMAIN Defaults[s]
  /\ \A k \in DOMAIN Defaults[s] : table[k] # WrongType /\ table[k] \in Values(s)

(***************************************************************************)
(* Laying a well-spelt file over a well-typed table leaves it well typed.  *)
(***************************************************************************)
LEMMA MergeStaysTyped ==
  ASSUME NEW base, NEW file, file.table \in LayerTables, ~Misspelt(file),
         NEW s \in DOMAIN Defaults, s \in DOMAIN base, IsSection(base[s], s)
  PROVE  s \in DOMAIN Merge(base, file.table) /\ IsSection(Merge(base, file.table)[s], s)
<1> DEFINE t == file.table
<1>1. /\ s \in DOMAIN Merge(base, t)
      /\ Merge(base, t)[s] = IF s \notin DOMAIN t THEN base[s]
                             ELSE IF base[s] # WrongType /\ t[s] # WrongType
                                  THEN Over(t[s], base[s]) ELSE t[s]
  BY DEF Merge
<1>2. CASE s \notin DOMAIN t
  BY <1>1, <1>2
<1>3. CASE s \in DOMAIN t
  <2>1. /\ t[s] # WrongType /\ \A k \in DOMAIN t[s] : t[s][k] # WrongType
        /\ DOMAIN t[s] \subseteq DOMAIN Defaults[s]
    BY <1>3, ConfigurationAssumption DEF Misspelt
  <2>2. \A k \in DOMAIN t[s] : t[s][k] \in Values(s)
    BY <1>3, <2>1 DEF Values
  <2>3. Merge(base, t)[s] = Over(t[s], base[s])
    BY <1>1, <1>3, <2>1 DEF IsSection
  <2>4. Over(t[s], base[s]) =
          [k \in DOMAIN Defaults[s] |-> IF k \in DOMAIN t[s] THEN t[s][k] ELSE base[s][k]]
    BY <2>1 DEF Over, IsSection
  <2> DEFINE over == [k \in DOMAIN Defaults[s] |->
                        IF k \in DOMAIN t[s] THEN t[s][k] ELSE base[s][k]]
  <2>5. \A k \in DOMAIN Defaults[s] : over[k] # WrongType /\ over[k] \in Values(s)
    BY <2>1, <2>2 DEF IsSection
  <2>6. over \in [DOMAIN Defaults[s] -> Values(s)]
    BY <2>5
  <2>7. over # WrongType
    BY <2>6, ConfigurationAssumption
  <2>8. DOMAIN over = DOMAIN Defaults[s]
    OBVIOUS
  <2> HIDE DEF over
  <2>9. Merge(base, t)[s] = over
    BY <2>3, <2>4 DEF over
  <2> QED
    BY <1>1, <2>5, <2>7, <2>8, <2>9 DEF IsSection
<1> QED
  BY <1>2, <1>3

(***************************************************************************)
(* Layers whose files are all well spelt are never refused together.       *)
(***************************************************************************)
LEMMA OnlyMisspeltIsRefused ==
  ASSUME NEW l \in LayerChoices, Load(l) = Failed("InvalidToml")
  PROVE  Misspelt(l.user) \/ Misspelt(l.project)
<1> SUFFICES ASSUME ~Misspelt(l.user), ~Misspelt(l.project)
             PROVE  FALSE
  OBVIOUS
<1> DEFINE lower == Merge(Defaults, l.user.table)
           merged == Merge(lower, l.project.table)
<1>1. l.user.table \in LayerTables /\ l.project.table \in LayerTables
  BY DEF LayerTables
<1>2. ASSUME NEW s \in DOMAIN Defaults
      PROVE  IsSection(merged[s], s)
  <2>1. IsSection(Defaults[s], s)
    BY ConfigurationAssumption DEF IsSection, Values
  <2>2. s \in DOMAIN lower /\ IsSection(lower[s], s)
    BY <1>1, <2>1, MergeStaysTyped
  <2> QED
    BY <1>1, <2>2, MergeStaysTyped
<1>3. WellTyped(merged)
  BY <1>2 DEF WellTyped, IsSection
<1> HIDE DEF lower, merged
<1>4. FileError(l.user) # "InvalidToml" /\ FileError(l.project) # "InvalidToml"
  BY DEF FileError, Misspelt
<1>5. \A a, b : Failed(a) = Failed(b) => a = b
  <2> SUFFICES ASSUME NEW a, NEW b, Failed(a) = Failed(b)
               PROVE  a = b
    OBVIOUS
  <2>1. Failed(a).error = a /\ Failed(b).error = b
    BY DEF Failed
  <2> QED
    BY <2>1
<1> DEFINE loaded == Resolve(WithEnv(merged, l.env))
<1> HIDE DEF loaded
<1>6. Load(l) \in {Failed("ValidationFailed"), Failed(FileError(l.user)),
                   Failed(FileError(l.project)), Failed("InvalidEnvVar"), loaded}
  BY <1>3 DEF Load, lower, merged, loaded
<1>7. Load(l) = loaded
  BY <1>4, <1>5, <1>6
<1>8. DOMAIN Defaults \subseteq DOMAIN loaded
  <2>1. DOMAIN Defaults \subseteq DOMAIN lower
    BY DEF lower, Merge
  <2>2. DOMAIN lower \subseteq DOMAIN merged
    BY DEF merged, Merge
  <2>3. DOMAIN WithEnv(merged, l.env) = DOMAIN merged
    BY DEF WithEnv
  <2>4. DOMAIN loaded = DOMAIN WithEnv(merged, l.env)
    BY DEF loaded, Resolve
  <2> QED
    BY <2>1, <2>2, <2>3, <2>4
<1>9. "daemon" \in DOMAIN Defaults /\ DOMAIN Failed("InvalidToml") = {"error"}
  BY DEF Defaults, Failed
<1> QED
  BY <1>7, <1>8, <1>9

(***************************************************************************)
(* In a configuration that loads each key is what the highest layer says   *)
(* of it, moved if it is a compiled path or no root.                       *)
(***************************************************************************)
LEMMA KeyByKey ==
  ASSUME NEW l \in LayerChoices, layers = l, config = Load(l), HasConfig,
         NEW s \in DOMAIN Defaults, NEW k \in DOMAIN Defaults[s]
  PROVE  LET value == config[s][k]
             said  == Highest(s, k)
         IN  /\ value # Compiled
             /\ value = said \/ (said = Compiled /\ value = UnderHome)
                             \/ (said = NoPath /\ value = Cwd)
<1> DEFINE lower == Merge(Defaults, l.user.table)
           merged == Merge(lower, l.project.table)
           full == WithEnv(merged, l.env)
           said == Highest(s, k)
<1>1. config = Resolve(full) /\ WellTyped(merged)
  <2>1. \A kind : config # Failed(kind)
    BY DEF HasConfig, Failed
  <2> QED
    BY <2>1 DEF Load
<1>2. s \in DOMAIN lower /\ s \in DOMAIN merged /\ s \in DOMAIN full
  BY DEF Merge, WithEnv
<1>3. merged[s] # WrongType /\ k \in DOMAIN merged[s]
  BY <1>1 DEF WellTyped
<1>4. /\ Says(l.project.table, s, k) => merged[s][k] = l.project.table[s][k]
      /\ ~Says(l.project.table, s, k) =>
           lower[s] # WrongType /\ k \in DOMAIN lower[s] /\ merged[s][k] = lower[s][k]
  BY <1>2, <1>3, MergeByKey
<1>5. ~Says(l.project.table, s, k) =>
        /\ Says(l.user.table, s, k) => lower[s][k] = l.user.table[s][k]
        /\ ~Says(l.user.table, s, k) => lower[s][k] = Defaults[s][k]
  BY <1>4, MergeByKey
<1>6. /\ k \in DOMAIN full[s]
      /\ Says(l.env, s, k) => full[s][k] = l.env[s][k]
      /\ ~Says(l.env, s, k) => full[s][k] = merged[s][k]
  <2>1. full[s] = IF s \in DOMAIN l.env THEN Over(l.env[s], merged[s]) ELSE merged[s]
    BY <1>2 DEF WithEnv
  <2>2. CASE s \notin DOMAIN l.env
    BY <1>3, <2>1, <2>2 DEF Says
  <2>3. CASE s \in DOMAIN l.env
    <3>1. l.env[s] # WrongType
      BY <2>3, ConfigurationAssumption
    <3>2. full[s] = [x \in DOMAIN l.env[s] \cup DOMAIN merged[s] |->
                       IF x \in DOMAIN l.env[s] THEN l.env[s][x] ELSE merged[s][x]]
      BY <2>1, <2>3 DEF Over
    <3> HIDE DEF full, merged
    <3>3. k \in DOMAIN full[s] /\ full[s][k] = IF k \in DOMAIN l.env[s] THEN l.env[s][k]
                                                                   ELSE merged[s][k]
      BY <1>3, <3>2
    <3> QED
      BY <2>3, <3>1, <3>3 DEF Says
  <2> QED
    BY <2>2, <2>3
<1> HIDE DEF lower, merged, full
<1>7. full[s][k] = said
  BY <1>4, <1>5, <1>6 DEF Highest
<1>8. said = Compiled => <<s, k>> \in PathKeys
  <2>1. {l.env, l.user.table, l.project.table} \subseteq LayerTables
    BY DEF LayerTables
  <2>2. \A t \in LayerTables : Says(t, s, k) /\ t[s][k] = Compiled => <<s, k>> \in PathKeys
    BY ConfigurationAssumption DEF Says, OnlyPathsAreCompiled
  <2>3. Defaults[s][k] = Compiled => <<s, k>> \in PathKeys
    BY ConfigurationAssumption DEF OnlyPathsAreCompiled
  <2> QED
    BY <2>1, <2>2, <2>3 DEF Highest
<1>9. config[s][k] = IF <<s, k>> \in PathKeys THEN Under(said)
                     ELSE IF <<s, k>> = <<"code_tools", "workspace_root">> /\ said = NoPath THEN Cwd
                     ELSE said
  <2>1. config[s] = [x \in DOMAIN full[s] |->
                       IF <<s, x>> \in PathKeys THEN Under(full[s][x])
                       ELSE IF <<s, x>> = <<"code_tools", "workspace_root">> /\ full[s][x] = NoPath
                            THEN Cwd
                       ELSE full[s][x]]
    BY <1>1, <1>2 DEF Resolve
  <2> QED
    BY <1>6, <1>7, <2>1
<1> HIDE DEF said
<1>10. Compiled \notin {UnderHome, Cwd}
  BY ConfigurationAssumption
<1>11. config[s][k] # Compiled
  BY <1>8, <1>9, <1>10 DEF Under
<1>12. \/ config[s][k] = said \/ (said = Compiled /\ config[s][k] = UnderHome)
       \/ (said = NoPath /\ config[s][k] = Cwd)
  BY <1>9 DEF Under
<1> QED
  BY <1>11, <1>12 DEF said

(***************************************************************************)
(* Whatever files and variables a process finds, key by key the highest    *)
(* layer wins, and well-spelt layers are never refused together.           *)
(***************************************************************************)
THEOREM LayersRank == Spec => []HighestLayerWins
<1>1. ASSUME ConfigIsLoaded
      PROVE  HighestLayerWins
  <2>1. CASE config = Unloaded
    <3>1. Unloaded.error # Failed("InvalidToml").error /\ "error" \in DOMAIN Unloaded
      BY DEF Unloaded, Failed
    <3> QED
      BY <2>1, <3>1 DEF HighestLayerWins, HasConfig
  <2>2. CASE config = Load(layers)
    <3>1. \A key \in Keys : \E s \in DOMAIN Defaults : \E k \in DOMAIN Defaults[s] : key = <<s, k>>
      BY DEF Keys
    <3> QED
      BY <1>1, <2>2, <3>1, KeyByKey, OnlyMisspeltIsRefused DEF ConfigIsLoaded, HighestLayerWins
  <2> QED
    BY <1>1, <2>1, <2>2 DEF ConfigIsLoaded
<1> QED
  BY <1>1, ConfigStaysLoaded, PTL

-----------------------------------------------------------------------------
(* The scan of a tree: the places of a workspace *)

(***************************************************************************)
(* The directories a place is in are its parent and the ones that is in.   *)
(***************************************************************************)
LEMMA AboveByParent ==
  ASSUME NEW n \in Nodes \ {Root}
  PROVE  /\ Parent[n] \in Nodes
         /\ Above[n] = {Parent[n]} \cup Above[Parent[n]]
         /\ Above[Root] = {}
<1> DEFINE p == Parent[n]
           Closed(S) == \A m \in S \ {Root} : Parent[m] \in S
<1>1. p \in Nodes /\ Root \in Nodes /\ \A m \in Nodes \ {Root} : Parent[m] \in Nodes
  BY CodeScanAssumption
<1>2. /\ Above[Root] = {}
      /\ \A m \in Nodes \ {Root} : Above[m] = {d \in Nodes : \A S \in SUBSET Nodes :
                                                 Parent[m] \in S /\ Closed(S) => d \in S}
  BY <1>1 DEF Above
<1> HIDE DEF Closed, p
<1>3. \A m \in Nodes \ {Root}, d \in Nodes, S \in SUBSET Nodes :
        d \in Above[m] /\ Parent[m] \in S /\ Closed(S) => d \in S
  BY <1>2
<1>4. \A m \in Nodes \ {Root}, d \in Nodes :
        (\A S \in SUBSET Nodes : Parent[m] \in S /\ Closed(S) => d \in S) => d \in Above[m]
  BY <1>2
<1>5. p = Parent[n]
  BY DEF p
<1>6. \A m \in Nodes : Above[m] \subseteq Nodes
  BY <1>2
<1>7. {p} \cup Above[p] \subseteq Above[n]
  <2>1. p \in Above[n]
    BY <1>1, <1>4, <1>5
  <2>2. ASSUME NEW d \in Above[p]
        PROVE  d \in Above[n]
    <3>1. p # Root /\ d \in Nodes
      BY <1>1, <1>2, <1>6
    <3>2. ASSUME NEW S \in SUBSET Nodes, p \in S, Closed(S)
          PROVE  d \in S
      <4>1. Parent[p] \in S
        BY <3>1, <3>2 DEF Closed
      <4> QED
        BY <1>1, <1>3, <3>1, <3>2, <4>1
    <3> QED
      BY <1>4, <1>5, <3>1, <3>2
  <2> QED
    BY <2>1, <2>2
<1>8. Above[n] \subseteq {p} \cup Above[p]
  <2> DEFINE T == {p} \cup Above[p]
  <2>1. ASSUME NEW m \in T \ {Root}
        PROVE  Parent[m] \in T
    <3>1. CASE m = p
      <4>1. p \in Nodes \ {Root} /\ Parent[p] \in Nodes
        BY <1>1, <2>1, <3>1
      <4>2. Parent[p] \in Above[p]
        BY <1>4, <4>1
      <4> QED
        BY <3>1, <4>2
    <3>2. CASE m \in Above[p]
      <4>1. p \in Nodes \ {Root} /\ m \in Nodes /\ Parent[m] \in Nodes
        BY <1>1, <1>2, <1>6, <2>1, <3>2
      <4>2. \A S \in SUBSET Nodes : Parent[p] \in S /\ Closed(S) => Parent[m] \in S
        BY <1>3, <2>1, <3>2, <4>1 DEF Closed
      <4> QED
        BY <1>4, <4>1, <4>2
    <3> QED
      BY <2>1, <3>1, <3>2
  <2>2. T \in SUBSET Nodes /\ p \in T
    BY <1>1, <1>6
  <2>3. Closed(T)
    BY <2>1 DEF Closed
  <2> HIDE DEF T
  <2>4. Above[n] \subseteq T
    BY <1>3, <1>5, <1>6, <2>2, <2>3
  <2> QED
    BY <2>4 DEF T
<1> QED
  BY <1>1, <1>2, <1>5, <1>7, <1>8

(***************************************************************************)
(* What holds of the parent of a place, and of the parent of whatever it   *)
(* holds of, holds of every directory the place is in.                     *)
(***************************************************************************)
LEMMA AboveIsLeast ==
  ASSUME NEW n \in Nodes, NEW S \in SUBSET Nodes,
         n # Root => Parent[n] \in S, \A m \in S \ {Root} : Parent[m] \in S
  PROVE  Above[n] \subseteq S
BY CodeScanAssumption DEF Above

\* Nothing is above itself, and what is above a directory is above its entries.
LEMMA AboveFacts ==
  /\ \A n \in Nodes : Above[n] \subseteq Nodes /\ n \notin Above[n]
  /\ \A n \in Nodes, d \in Nodes : d \in Above[n] => Above[d] \subseteq Above[n]
  /\ \A d \in Nodes : \A n \in Children(d) : n \in Nodes \ {Root} /\ Above[n] = {d} \cup Above[d]
<1>1. \A n \in Nodes : Above[n] \subseteq Nodes /\ n \notin Above[n]
  BY CodeScanAssumption DEF Above
<1>2. ASSUME NEW n \in Nodes
      PROVE  \A d \in Above[n] : Above[d] \subseteq Above[n]
  <2> DEFINE S == {d \in Above[n] : Above[d] \subseteq Above[n]}
  <2>1. S \in SUBSET Nodes
    BY <1>1
  <2>2. n # Root => Parent[n] \in S
    BY AboveByParent
  <2>3. ASSUME NEW m \in S \ {Root}
        PROVE  Parent[m] \in S
    <3>1. m \in Nodes \ {Root} /\ Above[m] \subseteq Above[n]
      BY <2>1, <2>3
    <3>2. Above[m] = {Parent[m]} \cup Above[Parent[m]]
      BY <3>1, AboveByParent
    <3> QED
      BY <3>1, <3>2
  <2> HIDE DEF S
  <2>4. Above[n] \subseteq S
    BY <2>1, <2>2, <2>3, AboveIsLeast
  <2> QED
    BY <2>4 DEF S
<1>3. ASSUME NEW d \in Nodes, NEW n \in Children(d)
      PROVE  n \in Nodes \ {Root} /\ Above[n] = {d} \cup Above[d]
  BY AboveByParent DEF Children
<1> QED
  BY <1>1, <1>2, <1>3

(***************************************************************************)
(* On the way from a directory to a place below it is an entry of it.      *)
(***************************************************************************)
LEMMA EntryOnTheWay ==
  ASSUME NEW n \in Nodes, NEW d \in Above[n]
  PROVE  \E x \in Children(d) : x = n \/ x \in Above[n]
<1> DEFINE S == {e \in Above[n] : \E x \in Children(e) : x = n \/ x \in Above[n]}
<1>1. S \in SUBSET Nodes /\ \A m \in S : m \in Above[n] /\ m \in Nodes
  BY AboveFacts
<1>2. n # Root => Parent[n] \in S
  BY AboveByParent DEF Children
<1>3. ASSUME NEW m \in S \ {Root}
      PROVE  Parent[m] \in S
  <2>1. m \in Nodes \ {Root} /\ m \in Above[n] /\ Above[m] \subseteq Above[n]
    BY <1>1, <1>3, AboveFacts
  <2>2. Parent[m] \in Above[n] /\ m \in Children(Parent[m])
    BY <2>1, AboveByParent DEF Children
  <2> QED
    BY <2>1, <2>2
<1> HIDE DEF S
<1>4. d \in S
  BY <1>1, <1>2, <1>3, AboveIsLeast
<1> QED
  BY <1>4 DEF S

-----------------------------------------------------------------------------
(* The scan of a tree: the number of lines *)

(***************************************************************************)
(* A set of natural numbers that is not empty has a least one.             *)
(***************************************************************************)
LEMMA LeastNatural ==
  ASSUME NEW T \in SUBSET Nat, T # {}
  PROVE  \E n \in T : \A m \in T : n <= m
<1> DEFINE R == {ss \in Nat \X Nat : ss[1] < ss[2]}
<1>1. IsWellFoundedOn(R, Nat)
  BY NatLessThanWellFounded DEF OpToRel
<1>2. \A x, y \in Nat : x < y => <<x, y>> \in R
  OBVIOUS
<1> HIDE DEF R
<1>3. PICK x \in T : \A y \in T : ~(<<y, x>> \in R)
  BY <1>1, WFMin, Zenon
<1>4. \A y \in T : x \in Nat /\ y \in Nat /\ ~(y < x)
  BY <1>2, <1>3
<1>5. \A y \in T : x <= y
  BY <1>4
<1> QED
  BY <1>5

\* The line feeds among the first m bytes.
FeedsUpTo(s, m) == {i \in 1 .. m : s[i] = NewLine}

(***************************************************************************)
(* The line feeds up to the end of a chunk are the ones before it and the  *)
(* ones in it.                                                             *)
(***************************************************************************)
LEMMA ChunkCounts ==
  ASSUME NEW s \in Seq(Nat), NEW at \in 1 .. Len(s), NEW begin \in 0 .. at - 1
  PROVE  /\ IsFiniteSet(FeedsUpTo(s, at))
         /\ Cardinality(FeedsUpTo(s, at)) \in Nat
         /\ Cardinality(FeedsUpTo(s, at)) =
              Cardinality(FeedsUpTo(s, begin)) + Count(SubSeq(s, begin + 1, at), NewLine)
         /\ LET chunk == SubSeq(s, begin + 1, at) IN chunk[Len(chunk)] = s[at]
<1> DEFINE chunk == SubSeq(s, begin + 1, at)
           C == {i \in DOMAIN chunk : chunk[i] = NewLine}
           D == {i \in begin + 1 .. at : s[i] = NewLine}
           A == FeedsUpTo(s, begin)
           B == FeedsUpTo(s, at)
<1>1. /\ at \in Nat /\ begin \in Nat /\ begin < at /\ at <= Len(s)
      /\ Len(chunk) = at - begin /\ DOMAIN chunk = 1 .. at - begin
      /\ \A i \in 1 .. at - begin : chunk[i] = s[begin + i]
  <2>1. at \in Nat /\ begin \in Nat /\ begin < at /\ at <= Len(s) /\ Len(s) \in Nat
    OBVIOUS
  <2>2. /\ chunk \in Seq(Nat)
        /\ Len(chunk) = IF begin + 1 <= at THEN at - (begin + 1) + 1 ELSE 0
        /\ \A i \in 1 .. at - (begin + 1) + 1 : chunk[i] = s[begin + 1 + i - 1]
    <3>1. begin + 1 \in Int /\ at \in Int
      BY <2>1
    <3>2. \A i \in begin + 1 .. at : s[i] \in Nat
      <4>1. \A i \in begin + 1 .. at : i \in 1 .. Len(s)
        BY <2>1
      <4> QED
        BY <4>1
    <3> QED
      BY <3>1, <3>2, SubSeqProperties, SMTT(40)
  <2>3. begin + 1 <= at /\ at - (begin + 1) + 1 = at - begin
    BY <2>1
  <2>4. \A i \in 1 .. at - begin : begin + 1 + i - 1 = begin + i
    BY <2>1
  <2>5. DOMAIN chunk = 1 .. Len(chunk)
    BY <2>2
  <2> QED
    BY <2>1, <2>2, <2>3, <2>4, <2>5
<1>2. chunk[Len(chunk)] = s[at]
  <2>1. at - begin \in 1 .. at - begin /\ begin + (at - begin) = at
    BY <1>1
  <2> HIDE DEF chunk
  <2> QED
    BY <1>1, <2>1
<1>3. IsFiniteSet(A) /\ IsFiniteSet(B) /\ IsFiniteSet(C) /\ IsFiniteSet(D)
  <2>1. IsFiniteSet(1 .. at) /\ IsFiniteSet(1 .. at - begin)
    BY <1>1, FS_Interval
  <2>2. A \in SUBSET (1 .. at) /\ B \in SUBSET (1 .. at) /\ D \in SUBSET (1 .. at)
    BY <1>1 DEF FeedsUpTo
  <2>3. C \in SUBSET (1 .. at - begin)
    BY <1>1
  <2> HIDE DEF A, B, C, D
  <2> QED
    BY <2>1, <2>2, <2>3, FS_Subset
<1>4. Cardinality(C) = Cardinality(D)
  <2> DEFINE f == [i \in C |-> begin + i]
  <2>1. \A i \in C : f[i] \in D
    BY <1>1, SMTT(40)
  <2>2. \A i, j \in C : f[i] = f[j] => i = j
    BY <1>1
  <2>3. ASSUME NEW j \in D
        PROVE  \E i \in C : f[i] = j
    <3>1. j - begin \in 1 .. at - begin /\ begin + (j - begin) = j
      BY <1>1
    <3>2. j - begin \in C
      BY <1>1, <3>1
    <3> QED
      BY <3>1, <3>2
  <2>4. f \in [C -> D]
    BY <2>1
  <2> HIDE DEF f, C, D
  <2>5. f \in Bijection(C, D)
    BY <2>2, <2>3, <2>4, Fun_IsBij
  <2>6. ExistsBijection(C, D)
    BY <2>5 DEF ExistsBijection
  <2> QED
    BY <1>3, <2>6, FS_Bijection
<1>5. B = A \cup D /\ A \cap D = {}
  <2>1. ASSUME NEW i \in Int
        PROVE  i \in 1 .. at <=> i \in 1 .. begin \/ i \in begin + 1 .. at
    <3>1. at \in Nat /\ begin \in Nat /\ begin < at
      BY <1>1
    <3>2. (i >= 1 /\ i <= at) <=> (i >= 1 /\ i <= begin) \/ (i >= begin + 1 /\ i <= at)
      BY <3>1
    <3> QED
      BY <3>1, <3>2
  <2>2. \A i \in Int : ~(i \in 1 .. begin /\ i \in begin + 1 .. at)
    BY <1>1
  <2>3. 1 .. at \subseteq Int /\ 1 .. begin \subseteq Int /\ begin + 1 .. at \subseteq Int
    OBVIOUS
  <2> QED
    BY <2>1, <2>2, <2>3 DEF FeedsUpTo
<1>6. Count(chunk, NewLine) = Cardinality(C)
  BY DEF Count
<1> HIDE DEF A, B, C, D, chunk
<1>7. Cardinality(B) = Cardinality(A) + Cardinality(D) - Cardinality({})
  BY <1>3, <1>5, FS_Union
<1>8. Cardinality({}) = 0 /\ Cardinality(A) \in Nat /\ Cardinality(D) \in Nat /\ Cardinality(B) \in Nat
  BY <1>3, FS_EmptySet, FS_CardinalityType
<1> QED
  BY <1>2, <1>3, <1>4, <1>6, <1>7, <1>8 DEF A, B, chunk

(***************************************************************************)
(* Reading a file chunk by chunk gives the number of lines reading it at   *)
(* once gives, whatever the size of a chunk: after a chunk the newlines up *)
(* to there are counted and its last byte is remembered.                   *)
(***************************************************************************)
LEMMA ChunksCountLines ==
  ASSUME NEW s \in Seq(Nat)
  PROVE  CountLinesStreaming(s) = CountLines(s) /\ CountLines(s) \in Nat
<1> DEFINE L == Len(s)
           begin(at) == at - ((at - 1) % Chunk) - 1
           count(at) == Cardinality(FeedsUpTo(s, at))
           inChunk(at) == Count(SubSeq(s, begin(at) + 1, at), NewLine)
           lastOf(at) == LET chunk == SubSeq(s, begin(at) + 1, at) IN chunk[Len(chunk)]
           Reads(f) == [at \in 0 .. L |->
                          IF at = 0 THEN [newlines |-> 0, last |-> <<>>]
                          ELSE [newlines |-> f[begin(at)].newlines + inChunk(at),
                                last     |-> <<lastOf(at)>>]]
           exact == [at \in 0 .. L |-> [newlines |-> count(at),
                                        last     |-> IF at = 0 THEN <<>> ELSE <<s[at]>>]]
           read == ReadTo(s)
<1>1. L \in Nat /\ DOMAIN s = 1 .. L
  OBVIOUS
<1>2. \A at \in 1 .. L : begin(at) \in 0 .. at - 1
  <2> SUFFICES ASSUME NEW at \in 1 .. L
               PROVE  begin(at) \in 0 .. at - 1
    OBVIOUS
  <2>1. at - 1 \in Nat /\ Chunk \in Nat \ {0}
    BY <1>1, CodeScanAssumption
  <2>2. \A x \in Nat, c \in Nat \ {0} : x % c \in 0 .. x
    OBVIOUS
  <2>3. (at - 1) % Chunk \in 0 .. at - 1
    BY <2>1, <2>2
  <2>4. \A x, r \in Int : r \in 0 .. x - 1 => x - r - 1 \in 0 .. x - 1
    OBVIOUS
  <2> QED
    BY <1>1, <2>3, <2>4
<1>3. \A at \in 1 .. L : /\ count(at) = count(begin(at)) + inChunk(at)
                         /\ lastOf(at) = s[at] /\ count(at) \in Nat
  BY <1>2, ChunkCounts
<1>4. count(0) = 0
  <2>1. FeedsUpTo(s, 0) = {}
    BY DEF FeedsUpTo
  <2> QED
    BY <2>1, FS_EmptySet
<1>5. read = CHOOSE f : f = Reads(f)
  BY DEF ReadTo
<1> HIDE DEF begin, count, inChunk, lastOf, L, read
<1>6. \A at \in 1 .. L : begin(at) \in 0 .. L /\ at # 0
  <2> SUFFICES ASSUME NEW at \in 1 .. L
               PROVE  begin(at) \in 0 .. L /\ at # 0
    OBVIOUS
  <2>1. begin(at) \in 0 .. at - 1
    BY <1>2
  <2>2. \A b \in Int : b \in 0 .. at - 1 => b \in 0 .. L
    BY <1>1
  <2> QED
    BY <1>1, <2>1, <2>2
<1>7. exact = Reads(exact)
  <2>1. ASSUME NEW at \in 0 .. L
        PROVE  exact[at] = Reads(exact)[at]
    <3>1. CASE at = 0
      BY <1>4, <2>1, <3>1
    <3>2. CASE at # 0
      <4>1. at \in 1 .. L
        BY <1>1, <3>2
      <4>2. exact[begin(at)].newlines = count(begin(at))
        BY <1>6, <4>1
      <4> QED
        BY <1>3, <3>2, <4>1, <4>2
    <3> QED
      BY <3>1, <3>2
  <2> QED
    BY <2>1
<1>8. read = Reads(read)
  BY <1>5, <1>7
<1>9. \A at \in 0 .. L : read[at] = exact[at]
  <2> DEFINE T == {at \in 0 .. L : read[at] # exact[at]}
  <2> SUFFICES ASSUME T # {}
               PROVE  FALSE
    OBVIOUS
  <2>1. T \in SUBSET Nat
    BY <1>1
  <2> HIDE DEF T
  <2>2. PICK at \in T : \A b \in T : at <= b
    BY <2>1, LeastNatural
  <2>3. at \in 0 .. L /\ read[at] # exact[at]
    BY <2>2 DEF T
  <2>4. read[at] = Reads(read)[at] /\ exact[at] = Reads(exact)[at]
    BY <1>7, <1>8
  <2>5. at # 0
    BY <2>3, <2>4
  <2>6. at \in 1 .. L /\ at \in Int
    BY <1>1, <2>3, <2>5
  <2>7. begin(at) \in 0 .. at - 1 /\ begin(at) \in 0 .. L
    BY <1>2, <1>6, <2>6
  <2>8. begin(at) \notin T
    BY <1>1, <2>2, <2>6, <2>7
  <2>9. read[begin(at)] = exact[begin(at)]
    BY <2>7, <2>8 DEF T
  <2> HIDE DEF exact
  <2>10. Reads(read)[at] = Reads(exact)[at]
    BY <2>3, <2>9
  <2> QED
    BY <2>3, <2>4, <2>10
<1>10. read[L] = [newlines |-> count(L), last |-> IF L = 0 THEN <<>> ELSE <<s[L]>>]
  BY <1>1, <1>9
<1>11. CASE L = 0
  <2>1. s = <<>>
    BY <1>1, <1>11 DEF L
  <2>2. read[L].last = <<>>
    BY <1>10, <1>11
  <2> QED
    BY <2>1, <2>2 DEF CountLinesStreaming, CountLines, L, read
<1>12. CASE L # 0
  <2>1. s # <<>> /\ L \in 1 .. L
    BY <1>1, <1>12 DEF L
  <2>2. read[L].newlines = count(L) /\ read[L].last = <<s[L]>> /\ <<s[L]>> # <<>>
    BY <1>10, <1>12
  <2>3. <<s[L]>> = <<NewLine>> <=> s[L] = NewLine
    OBVIOUS
  <2>4. Count(s, NewLine) = count(L) /\ count(L) \in Nat
    BY <1>1, <1>3, <2>1 DEF Count, FeedsUpTo, count
  <2>5. CountLines(s) = count(L) + IF s[L] = NewLine THEN 0 ELSE 1
    BY <2>1, <2>4 DEF CountLines, L
  <2>6. CountLinesStreaming(s) = IF s[L] = NewLine THEN count(L) ELSE count(L) + 1
    BY <2>2, <2>3 DEF CountLinesStreaming, L, read
  <2> QED
    BY <2>4, <2>5, <2>6
<1> QED
  BY <1>11, <1>12

-----------------------------------------------------------------------------
(* The scan of a tree: what it has counted and what is ahead of it *)

Level == [dir : Nodes, left : SUBSET Nodes, listed : SUBSET Nodes]

\* Entries that are still to come, and the places that may come by them.
Left(stack) == UNION {stack[i].left : i \in DOMAIN stack}

Ahead(stack) == {n \in Nodes : \E x \in Left(stack) : x = n \/ x \in Above[n]}

\* No entry that is to come is another one, or below another one.
Apart(stack) ==
  \A i, j \in DOMAIN stack : \A x \in stack[i].left, y \in stack[j].left :
    x \notin Above[y] /\ (x = y => i = j)

\* An entry is one of the scan, and was seen if it was there and did not move.
Entry(x, listed) == x \in Nodes /\ InScan(x) /\ (Steady(x) => (x \in listed <=> tree[x] # "gone"))

Entries(stack) == \A i \in DOMAIN stack : \A x \in stack[i].left : Entry(x, stack[i].listed)

Moving == {n \in Nodes : InScan(n) /\ ~Steady(n)}

(***************************************************************************)
(* C is what has been counted: of what has to be counted nothing is        *)
(* missing but what is ahead, and nothing comes twice.                     *)
(***************************************************************************)
Counts(C, stack, total) ==
  /\ C \subseteq Due \cup Moving /\ IsFiniteSet(C) /\ Cardinality(C) = total
  /\ Due \subseteq C \cup Ahead(stack) /\ C \cap Ahead(stack) = {}

ListedIn(files) == {files[i].node : i \in DOMAIN files}

\* The list holds what was counted, as long as there was room.
Lists(C, files, total) ==
  /\ files \in Seq([node : Nodes, lines : Nat]) /\ total \in Nat
  /\ ListedIn(files) \subseteq C
  /\ IsFiniteSet(ListedIn(files)) /\ Cardinality(ListedIn(files)) = Len(files)
  /\ Len(files) <= MaxFiles /\ Len(files) <= total
  /\ Len(files) < total => Len(files) = MaxFiles
  /\ Len(files) = total => ListedIn(files) = C
  /\ \A i \in DOMAIN files : files[i].lines = CountLines(Content[files[i].node])

ScanRecord == [op : {"scanning"}, root : Nodes, stack : Seq(Level),
               files : Seq([node : Nodes, lines : Nat]), total : Nat]

Scanning(C) ==
  /\ scan \in ScanRecord
  /\ scan.stack # <<>> /\ Apart(scan.stack) /\ Entries(scan.stack)
  /\ Counts(C, scan.stack, scan.total) /\ Lists(C, scan.files, scan.total)

ScanKept ==
  /\ tree \in [Nodes -> Kind] /\ IsWhole(tree)
  /\ scan.op = "scanning" => \E C : Scanning(C)
  /\ ScanIsExact

(***************************************************************************)
(* A file that was not counted is, and is listed while there is room.      *)
(***************************************************************************)
LEMMA OneMoreFile ==
  ASSUME NEW C, NEW files, NEW total, IsFiniteSet(C), Cardinality(C) = total,
         Lists(C, files, total), NEW n \in Nodes, n \notin C
  PROVE  /\ IsFiniteSet(C \cup {n}) /\ Cardinality(C \cup {n}) = total + 1
         /\ Lists(C \cup {n},
                  IF Len(files) < MaxFiles
                  THEN Append(files, [node |-> n, lines |-> CountLinesStreaming(Content[n])])
                  ELSE files,
                  total + 1)
<1> DEFINE entry == [node |-> n, lines |-> CountLinesStreaming(Content[n])]
           File == [node : Nodes, lines : Nat]
           longer == Append(files, entry)
<1>1. IsFiniteSet(C \cup {n}) /\ Cardinality(C \cup {n}) = total + 1
  BY FS_AddElement
<1>2. MaxFiles \in Nat /\ total \in Nat /\ Len(files) \in Nat /\ files \in Seq(File)
  BY CodeScanAssumption DEF Lists
<1>3. CASE ~(Len(files) < MaxFiles)
  <2>1. Lists(C \cup {n}, files, total + 1)
    BY <1>2, <1>3 DEF Lists
  <2> QED
    BY <1>1, <1>3, <2>1
<1>4. CASE Len(files) < MaxFiles
  <2>1. Len(files) = total /\ ListedIn(files) = C
    BY <1>2, <1>4 DEF Lists
  <2>2. Content[n] \in Seq(Nat)
    BY CodeScanAssumption
  <2>3. entry \in File /\ entry.node = n /\ entry.lines = CountLines(Content[n])
    BY <2>2, ChunksCountLines
  <2> HIDE DEF entry
  <2>4. /\ longer \in Seq(File) /\ Len(longer) = Len(files) + 1
        /\ \A i \in 1 .. Len(files) : longer[i] = files[i]
        /\ longer[Len(files) + 1] = entry
    BY <1>2, <2>3, AppendProperties
  <2> HIDE DEF longer
  <2>5. DOMAIN longer = 1 .. Len(files) + 1 /\ DOMAIN files = 1 .. Len(files)
    BY <1>2, <2>4
  <2>6. \A i \in 1 .. Len(files) + 1 : i \in 1 .. Len(files) \/ i = Len(files) + 1
    BY <1>2
  <2>7. \A i \in 1 .. Len(files) : i \in 1 .. Len(files) + 1
    BY <1>2
  <2>8. ListedIn(longer) = C \cup {n}
    <3>1. ListedIn(longer) = {longer[i].node : i \in 1 .. Len(files) + 1}
      BY <2>5 DEF ListedIn
    <3>2. C = {files[i].node : i \in 1 .. Len(files)}
      BY <2>1, <2>5 DEF ListedIn
    <3>3. Len(files) + 1 \in 1 .. Len(files) + 1
      BY <1>2
    <3>4. \A i \in 1 .. Len(files) + 1 : longer[i].node \in C \cup {n}
      BY <2>3, <2>4, <2>6, <3>2
    <3>5. C \subseteq {longer[i].node : i \in 1 .. Len(files) + 1}
      BY <2>4, <2>7, <3>2
    <3>6. n \in {longer[i].node : i \in 1 .. Len(files) + 1}
      BY <2>3, <2>4, <3>3
    <3> QED
      BY <3>1, <3>4, <3>5, <3>6
  <2>9. \A i \in DOMAIN longer : longer[i].lines = CountLines(Content[longer[i].node])
    BY <2>3, <2>4, <2>5, <2>6 DEF Lists
  <2>10. Lists(C \cup {n}, longer, total + 1)
    BY <1>1, <1>2, <1>4, <2>1, <2>4, <2>8, <2>9 DEF Lists
  <2> QED
    BY <1>1, <1>4, <2>10 DEF longer, entry
<1> QED
  BY <1>3, <1>4

\* The stack without the entry n of its head.
Without(stack, n) == <<[Head(stack) EXCEPT !.left = @ \ {n}]>> \o Tail(stack)

(***************************************************************************)
(* When an entry is taken the others are ahead as before.                  *)
(***************************************************************************)
LEMMA EntryTaken ==
  ASSUME NEW stack \in Seq(Level), stack # <<>>, Apart(stack), Entries(stack),
         NEW n \in Head(stack).left
  PROVE  LET rest == Without(stack, n)
         IN  /\ rest \in Seq(Level) /\ rest # <<>> /\ Apart(rest) /\ Entries(rest)
             /\ Left(rest) = Left(stack) \ {n} /\ n \in Left(stack)
             /\ \A y \in Left(rest) : y # n /\ y \notin Above[n] /\ n \notin Above[y]
<1> DEFINE rest == Without(stack, n)
           first == [Head(stack) EXCEPT !.left = @ \ {n}]
<1>1. /\ Head(stack) \in Level /\ Tail(stack) \in Seq(Level)
      /\ Len(Tail(stack)) = Len(stack) - 1 /\ Len(stack) \in Nat \ {0}
      /\ \A i \in 1 .. Len(stack) - 1 : Tail(stack)[i] = stack[i + 1]
      /\ Head(stack) = stack[1] /\ DOMAIN stack = 1 .. Len(stack)
  BY HeadTailProperties, EmptySeq
<1>2. first \in Level /\ first.left = stack[1].left \ {n} /\ first.listed = stack[1].listed
  BY <1>1 DEF Level
<1> HIDE DEF first
<1>3. /\ rest \in Seq(Level) /\ Len(rest) = Len(stack) /\ rest[1] = first
      /\ \A i \in 2 .. Len(stack) : rest[i] = stack[i]
  <2>1. rest = <<first>> \o Tail(stack)
    BY DEF Without, first
  <2>2. <<first>> \in Seq(Level) /\ Len(<<first>>) = 1 /\ <<first>>[1] = first
    BY <1>2
  <2> HIDE DEF rest
  <2>3. /\ rest \in Seq(Level) /\ Len(rest) = 1 + (Len(stack) - 1)
        /\ \A i \in 1 .. 1 + (Len(stack) - 1) :
             rest[i] = IF i <= 1 THEN <<first>>[i] ELSE Tail(stack)[i - 1]
    BY <1>1, <2>1, <2>2, ConcatProperties
  <2>4. \A i \in 2 .. Len(stack) : /\ i \in 1 .. 1 + (Len(stack) - 1) /\ ~(i <= 1)
                                   /\ i - 1 \in 1 .. Len(stack) - 1 /\ (i - 1) + 1 = i
    BY <1>1
  <2>5. 1 \in 1 .. 1 + (Len(stack) - 1) /\ 1 + (Len(stack) - 1) = Len(stack)
    BY <1>1
  <2>6. rest[1] = first
    BY <2>2, <2>3, <2>5
  <2>7. ASSUME NEW i \in 2 .. Len(stack)
        PROVE  rest[i] = stack[i]
    BY <1>1, <2>3, <2>4
  <2> QED
    BY <2>3, <2>5, <2>6, <2>7
<1> HIDE DEF rest
<1>4. DOMAIN rest = DOMAIN stack /\ 1 \in DOMAIN stack /\ DOMAIN rest = 1 .. Len(stack)
  BY <1>1, <1>3
<1>5. \A i \in DOMAIN stack : i = 1 \/ i \in 2 .. Len(stack)
  BY <1>1
<1>6. ASSUME NEW i \in DOMAIN stack
      PROVE  /\ rest[i].listed = stack[i].listed /\ rest[i].left \subseteq stack[i].left
             /\ rest[i].left = stack[i].left \ {n}
  <2>1. CASE i = 1
    BY <1>2, <1>3, <2>1
  <2>2. CASE i \in 2 .. Len(stack)
    <3>1. rest[i] = stack[i]
      BY <1>3, <2>2
    <3>2. i # 1
      BY <2>2
    <3>3. n \notin stack[i].left
      BY <1>1, <1>4, <3>2 DEF Apart
    <3> QED
      BY <3>1, <3>3
  <2> QED
    BY <1>5, <2>1, <2>2
<1>7. Apart(rest)
  BY <1>4, <1>6 DEF Apart
<1>8. Entries(rest)
  BY <1>4, <1>6 DEF Entries
<1>9. Left(rest) = Left(stack) \ {n} /\ n \in Left(stack)
  BY <1>1, <1>4, <1>6 DEF Left
<1>10. ASSUME NEW y \in Left(rest)
       PROVE  y # n /\ y \notin Above[n] /\ n \notin Above[y]
  <2>1. PICK i \in DOMAIN stack : y \in stack[i].left
    BY <1>9 DEF Left
  <2>2. n \in stack[1].left /\ y # n
    BY <1>1, <1>9
  <2> QED
    BY <1>4, <2>1, <2>2 DEF Apart
<1>11. rest # <<>>
  BY <1>1, <1>3
<1> QED
  BY <1>3, <1>7, <1>8, <1>9, <1>10, <1>11 DEF rest

(***************************************************************************)
(* Something due behind an entry that is taken is that entry, a file to    *)
(* count, or the entry is a directory to enter.                            *)
(***************************************************************************)
LEMMA DueBehindEntry ==
  ASSUME tree \in [Nodes -> Kind], IsWhole(tree), NEW n, NEW listed, Entry(n, listed)
  PROVE  /\ n \in Due => n \in listed /\ tree[n] # "gone" /\ Scannable(n)
         /\ \A m \in Due : n \in Above[m] =>
              n \in listed /\ tree[n] \in {"dir", "locked_dir"} /\ n \notin SkippedDirs
<1>1. n \in Nodes /\ InScan(n)
  BY DEF Entry
<1>2. ASSUME n \in Due
      PROVE  n \in listed /\ tree[n] # "gone" /\ Scannable(n)
  BY <1>2 DEF Due, Scannable, Entry
<1>3. ASSUME NEW m \in Due, n \in Above[m]
      PROVE  n \in listed /\ tree[n] \in {"dir", "locked_dir"} /\ n \notin SkippedDirs
  <2>1. m \in Nodes /\ InScan(m) /\ Steady(m) /\ tree[m] # "gone"
    BY DEF Due, Scannable
  <2>2. Above[n] \subseteq Above[m]
    BY <1>1, <1>3, <2>1, AboveFacts
  <2>3. Steady(n)
    BY <1>3, <2>1, <2>2 DEF Steady
  <2>4. tree[n] \in {"dir", "locked_dir"}
    BY <1>3, <2>1 DEF IsWhole
  <2>5. scan.root \in Above[n]
    BY <1>1 DEF InScan
  <2>6. n \notin SkippedDirs
    BY <1>3, <2>1, <2>5 DEF InScan
  <2>7. tree[n] # "gone"
    BY <2>4
  <2> QED
    BY <2>3, <2>4, <2>6, <2>7 DEF Entry
<1> QED
  BY <1>2, <1>3

\* The scan under way, with other things ahead and counted.
At(stack, files, total) ==
  [op |-> "scanning", root |-> scan.root, stack |-> stack, files |-> files, total |-> total]

(***************************************************************************)
(* While the tree stands still so does what is due and what moves.         *)
(***************************************************************************)
LEMMA StandsStill ==
  ASSUME UNCHANGED <<tree, touched>>, scan'.root = scan.root
  PROVE  /\ \A x : InScan(x)' <=> InScan(x)
         /\ \A x : Steady(x)' <=> Steady(x)
         /\ Due' = Due /\ Moving' = Moving
<1>1. /\ \A x : InScan(x)' <=> InScan(x)
      /\ \A x : Steady(x)' <=> Steady(x)
      /\ \A x : Scannable(x)' <=> Scannable(x)
  BY DEF InScan, Steady, Scannable
<1> QED
  BY <1>1 DEF Due, Moving

\* A scan whose counts and list are right with its new stack goes on.
LEMMA ScansOn ==
  ASSUME UNCHANGED <<tree, touched>>, scan.root \in Nodes, tree \in [Nodes -> Kind], IsWhole(tree),
         NEW stack \in Seq(Level), stack # <<>>, Apart(stack), Entries(stack),
         NEW D, NEW files, NEW total, Counts(D, stack, total), Lists(D, files, total),
         scan' = At(stack, files, total)
  PROVE  ScanKept'
<1>1. /\ scan'.op = "scanning" /\ scan'.root = scan.root /\ scan'.stack = stack
      /\ scan'.files = files /\ scan'.total = total
      /\ scan' \in ScanRecord
  BY DEF At, Lists, ScanRecord
<1>2. /\ \A x : InScan(x)' <=> InScan(x)
      /\ \A x : Steady(x)' <=> Steady(x)
      /\ Due' = Due /\ Moving' = Moving
  BY <1>1, StandsStill
<1>3. Entries(scan.stack)'
  BY <1>1, <1>2 DEF Entries, Entry
<1>4. Apart(scan.stack)' /\ Ahead(scan.stack)' = Ahead(stack)
  BY <1>1 DEF Apart, Ahead, Left
<1>5. \E C : Scanning(C)'
  <2>1. Counts(D, stack, total)
    OBVIOUS
  <2>2. Counts(D, scan.stack, scan.total)'
    BY <1>1, <1>2, <1>4, <2>1 DEF Counts
  <2>3. Lists(D, scan.files, scan.total)'
    BY <1>1
  <2>4. (scan.stack # <<>>)'
    BY <1>1
  <2> QED
    BY <1>1, <1>3, <1>4, <2>2, <2>3, <2>4 DEF Scanning
<1> QED
  BY <1>1, <1>5 DEF ScanKept, ScanIsExact, IsWhole

(***************************************************************************)
(* What the next entry makes of the scan: it is left out, it ends the scan *)
(* with an error, it is entered, or it is counted.                         *)
(***************************************************************************)
LEMMA EntryCases ==
  ASSUME scan \in ScanRecord, NEW n, TakeEntry(n)
  PROVE  LET level == Head(scan.stack)
             rest == Without(scan.stack, n)
         IN  /\ n \in level.left
             /\ \/ /\ scan' = At(rest, scan.files, scan.total)
                   /\ \/ n \notin level.listed \/ tree[n] = "gone"
                      \/ tree[n] \in {"dir", "locked_dir"} /\ n \in SkippedDirs
                      \/ tree[n] \notin {"dir", "locked_dir"} /\ ~Scannable(n)
                \/ /\ scan' = [scan EXCEPT !.op = "failed"]
                   /\ \/ n \in level.listed /\ tree[n] = "gone"
                      \/ tree[n] = "locked_dir" /\ n \notin SkippedDirs
                \/ /\ scan' = At(<<Frame(n)>> \o rest, scan.files, scan.total)
                   /\ tree[n] = "dir" /\ n \notin SkippedDirs
                \/ /\ scan' = At(rest,
                                 IF Len(scan.files) < MaxFiles
                                 THEN Append(scan.files, [node |-> n, lines |-> CountLinesStreaming(Content[n])])
                                 ELSE scan.files,
                                 scan.total + 1)
                   /\ Scannable(n)
<1> DEFINE rest == Without(scan.stack, n)
           after == [scan EXCEPT !.stack = rest]
           more == IF Len(scan.files) < MaxFiles
                   THEN Append(scan.files, [node |-> n, lines |-> CountLinesStreaming(Content[n])])
                   ELSE scan.files
           inner == <<Frame(n)>> \o rest
<1>0. scan = At(scan.stack, scan.files, scan.total)
  BY DEF At, ScanRecord
<1> HIDE DEF rest
<1>1. after = At(rest, scan.files, scan.total)
  BY <1>0 DEF At
<1>2. [after EXCEPT !.stack = <<Frame(n)>> \o @] = At(inner, scan.files, scan.total)
  <2>1. after.stack = rest
    BY <1>1 DEF At
  <2> HIDE DEF inner, after
  <2>2. [after EXCEPT !.stack = <<Frame(n)>> \o @] = [after EXCEPT !.stack = inner]
    BY <2>1 DEF inner
  <2> QED
    BY <1>1, <2>2 DEF At
<1>3. WithFile(after, n) = At(rest, more, scan.total + 1)
  <2>1. after.files = scan.files /\ after.total = scan.total
    BY <1>1 DEF At
  <2> HIDE DEF after, more
  <2>2. WithFile(after, n) = [after EXCEPT !.total = scan.total + 1, !.files = more]
    BY <2>1 DEF WithFile, more
  <2> QED
    BY <1>1, <2>2 DEF At
<1>4. rest = <<[Head(scan.stack) EXCEPT !.left = @ \ {n}]>> \o Tail(scan.stack)
  BY DEF Without, rest
<1>5. [scan EXCEPT !.stack = <<[Head(scan.stack) EXCEPT !.left = @ \ {n}]>> \o Tail(@)] = after
  BY <1>4 DEF ScanRecord
<1> QED
  BY <1>1, <1>2, <1>3, <1>5 DEF TakeEntry, rest

(***************************************************************************)
(* What is ahead of the scan is behind the entry that is taken or another  *)
(* one, and the entry itself is not behind another one.                    *)
(***************************************************************************)
LEMMA AheadOfEntry ==
  ASSUME NEW stack \in Seq(Level), stack # <<>>, Apart(stack), Entries(stack),
         NEW n \in Head(stack).left
  PROVE  LET rest == Without(stack, n)
         IN  /\ Ahead(rest) \subseteq Ahead(stack) /\ n \notin Ahead(rest) /\ n \in Nodes
             /\ \A m \in Nodes : n = m \/ n \in Above[m] => m \in Ahead(stack)
             /\ \A m \in Ahead(stack) : m \in Ahead(rest) \/ m = n \/ n \in Above[m]
<1> DEFINE rest == Without(stack, n)
<1>1. /\ rest \in Seq(Level) /\ rest # <<>>
      /\ Left(rest) = Left(stack) \ {n} /\ n \in Left(stack)
      /\ \A y \in Left(rest) : y # n /\ y \notin Above[n] /\ n \notin Above[y]
  BY EntryTaken
<1>2. \A x \in Left(stack) : x \in Nodes
  BY DEF Left, Entries, Entry
<1> HIDE DEF rest
<1>3. n \in Nodes
  BY <1>1, <1>2
<1> QED
  BY <1>1, <1>3 DEF Ahead, rest

(***************************************************************************)
(* A directory of the scan that is entered brings its entries instead of   *)
(* itself: all that is due behind it is behind one of them.                *)
(***************************************************************************)
LEMMA DirectoryEntered ==
  ASSUME NEW stack \in Seq(Level), stack # <<>>, Apart(stack), Entries(stack),
         NEW n \in Head(stack).left, n \notin SkippedDirs
  PROVE  LET inner == <<Frame(n)>> \o Without(stack, n)
         IN  /\ inner \in Seq(Level) /\ inner # <<>> /\ Apart(inner) /\ Entries(inner)
             /\ Ahead(inner) \subseteq Ahead(stack)
             /\ \A m \in Ahead(stack) : m \in Ahead(inner) \/ m = n
<1> DEFINE rest == Without(stack, n)
           inner == <<Frame(n)>> \o rest
<1>1. /\ rest \in Seq(Level) /\ rest # <<>> /\ Apart(rest) /\ Entries(rest)
      /\ Left(rest) = Left(stack) \ {n} /\ n \in Left(stack)
      /\ \A y \in Left(rest) : y # n /\ y \notin Above[n] /\ n \notin Above[y]
  BY EntryTaken
<1>2. /\ Ahead(rest) \subseteq Ahead(stack) /\ n \in Nodes
      /\ \A m \in Nodes : n = m \/ n \in Above[m] => m \in Ahead(stack)
      /\ \A m \in Ahead(stack) : m \in Ahead(rest) \/ m = n \/ n \in Above[m]
  BY AheadOfEntry
<1>3. /\ InScan(n) /\ \A y \in Left(rest) : y \in Nodes
  BY <1>1 DEF Left, Entries, Entry
<1>4. /\ Frame(n) \in Level /\ Frame(n).left = Children(n)
      /\ Frame(n).listed = {x \in Children(n) : tree[x] # "gone"}
  BY <1>2 DEF Frame, Level, Children
<1>5. /\ \A x \in Children(n) : x \in Nodes /\ Above[x] = {n} \cup Above[n]
      /\ n \notin Above[n]
      /\ \A x \in Nodes, y \in Nodes : x \in Above[y] => Above[x] \subseteq Above[y]
  BY <1>2, AboveFacts
<1> HIDE DEF rest
<1>6. /\ inner \in Seq(Level) /\ Len(inner) = 1 + Len(rest) /\ Len(rest) \in Nat
      /\ inner[1] = Frame(n) /\ \A i \in 1 .. Len(rest) : inner[i + 1] = rest[i]
  <2>1. <<Frame(n)>> \in Seq(Level) /\ Len(<<Frame(n)>>) = 1 /\ <<Frame(n)>>[1] = Frame(n)
    BY <1>4
  <2> DEFINE one == <<Frame(n)>>
  <2>2. inner = one \o rest
    OBVIOUS
  <2> HIDE DEF inner, one
  <2>3. /\ inner \in Seq(Level) /\ Len(inner) = 1 + Len(rest)
        /\ \A i \in 1 .. 1 + Len(rest) : inner[i] = IF i <= 1 THEN one[i] ELSE rest[i - 1]
    BY <1>1, <2>1, <2>2, ConcatProperties DEF one
  <2>4. Len(rest) \in Nat
    BY <1>1
  <2>5. \A i \in 1 .. Len(rest) : i + 1 \in 1 .. 1 + Len(rest) /\ ~(i + 1 <= 1) /\ (i + 1) - 1 = i
    BY <2>4
  <2>6. 1 \in 1 .. 1 + Len(rest)
    BY <2>4
  <2>7. inner[1] = Frame(n)
    BY <2>1, <2>3, <2>6 DEF one
  <2>8. ASSUME NEW i \in 1 .. Len(rest)
        PROVE  inner[i + 1] = rest[i]
    BY <2>3, <2>5
  <2> QED
    BY <2>3, <2>4, <2>7, <2>8
<1> HIDE DEF inner
<1>7. /\ DOMAIN inner = 1 .. 1 + Len(rest) /\ DOMAIN rest = 1 .. Len(rest)
      /\ 1 \in DOMAIN inner
  BY <1>1, <1>6
<1>8. \A i \in DOMAIN inner : \/ i = 1 /\ inner[i] = Frame(n)
                              \/ i # 1 /\ i - 1 \in DOMAIN rest /\ inner[i] = rest[i - 1]
  <2> SUFFICES ASSUME NEW i \in DOMAIN inner, i # 1
               PROVE  i - 1 \in DOMAIN rest /\ inner[i] = rest[i - 1]
    BY <1>6
  <2>1. i - 1 \in 1 .. Len(rest) /\ (i - 1) + 1 = i
    BY <1>6, <1>7
  <2> QED
    BY <1>6, <1>7, <2>1
<1>9. \A i \in DOMAIN rest : i + 1 \in DOMAIN inner /\ inner[i + 1] = rest[i]
  BY <1>6, <1>7
<1>10. Left(inner) = Children(n) \cup Left(rest)
  <2>1. Left(inner) \subseteq Children(n) \cup Left(rest)
    BY <1>4, <1>8 DEF Left
  <2>2. Children(n) \subseteq Left(inner)
    BY <1>4, <1>6, <1>7 DEF Left
  <2>3. Left(rest) \subseteq Left(inner)
    BY <1>9 DEF Left
  <2> QED
    BY <2>1, <2>2, <2>3
<1>11. \A x \in Children(n), y \in Left(rest) : x # y /\ x \notin Above[y] /\ y \notin Above[x]
  BY <1>1, <1>3, <1>5
<1>12. \A x \in Children(n), y \in Children(n) : x \notin Above[y]
  BY <1>2, <1>5
<1>13. Apart(inner)
  <2> SUFFICES ASSUME NEW i \in DOMAIN inner, NEW j \in DOMAIN inner,
                      NEW x \in inner[i].left, NEW y \in inner[j].left
               PROVE  x \notin Above[y] /\ (x = y => i = j)
    BY DEF Apart
  <2>1. CASE i = 1 /\ j = 1
    BY <1>4, <1>6, <1>12, <2>1
  <2>2. CASE i = 1 /\ j # 1
    <3>1. x \in Children(n) /\ y \in Left(rest)
      BY <1>4, <1>6, <1>8, <2>2 DEF Left
    <3> QED
      BY <1>11, <3>1
  <2>3. CASE i # 1 /\ j = 1
    <3>1. y \in Children(n) /\ x \in Left(rest)
      BY <1>4, <1>6, <1>8, <2>3 DEF Left
    <3> QED
      BY <1>11, <3>1
  <2>4. CASE i # 1 /\ j # 1
    <3>1. /\ i - 1 \in DOMAIN rest /\ x \in rest[i - 1].left
          /\ j - 1 \in DOMAIN rest /\ y \in rest[j - 1].left
      BY <1>8, <2>4
    <3>2. x \notin Above[y] /\ (x = y => i - 1 = j - 1)
      BY <1>1, <3>1 DEF Apart
    <3>3. i \in Int /\ j \in Int
      BY <1>7
    <3> QED
      BY <3>2, <3>3
  <2> QED
    BY <2>1, <2>2, <2>3, <2>4
<1>14. ASSUME NEW x \in Children(n)
       PROVE  Entry(x, Frame(n).listed)
  <2>1. InScan(x)
    BY <1>3, <1>5 DEF InScan
  <2> QED
    BY <1>4, <1>5, <2>1 DEF Entry
<1>15. Entries(inner)
  <2> SUFFICES ASSUME NEW i \in DOMAIN inner, NEW x \in inner[i].left
               PROVE  Entry(x, inner[i].listed)
    BY DEF Entries
  <2>1. CASE i = 1
    BY <1>4, <1>6, <1>14, <2>1
  <2>2. CASE i # 1
    BY <1>1, <1>8, <2>2 DEF Entries
  <2> QED
    BY <2>1, <2>2
<1>16. Ahead(inner) \subseteq Ahead(stack)
  <2> SUFFICES ASSUME NEW m \in Nodes, NEW x \in Left(inner), x = m \/ x \in Above[m]
               PROVE  m \in Ahead(stack)
    BY DEF Ahead
  <2>1. CASE x \in Children(n)
    <3>1. n \in Above[m]
      BY <1>5, <2>1
    <3> QED
      BY <1>2, <3>1
  <2>2. CASE x \in Left(rest)
    BY <1>2, <2>2 DEF Ahead
  <2> QED
    BY <1>10, <2>1, <2>2
<1>17. ASSUME NEW m \in Ahead(stack), m # n
       PROVE  m \in Ahead(inner)
  <2>1. CASE m \in Ahead(rest)
    BY <1>10, <2>1 DEF Ahead
  <2>2. CASE n \in Above[m]
    <3>1. m \in Nodes
      BY DEF Ahead
    <3>2. \E x \in Children(n) : x = m \/ x \in Above[m]
      BY <2>2, <3>1, EntryOnTheWay
    <3> QED
      BY <1>10, <3>1, <3>2 DEF Ahead
  <2> QED
    BY <1>2, <1>17, <2>1, <2>2
<1>18. inner # <<>>
  BY <1>7
<1> QED
  BY <1>6, <1>13, <1>15, <1>16, <1>17, <1>18 DEF inner, rest

(***************************************************************************)
(* Whatever the next entry turns out to be, nothing due is lost, nothing   *)
(* is counted twice and the list stays what it has to be.                  *)
(***************************************************************************)
LEMMA EntryKeepsScan ==
  ASSUME ScanKept, scan.op = "scanning", NEW n, TakeEntry(n), UNCHANGED <<tree, touched>>
  PROVE  ScanKept'
<1> DEFINE stack == scan.stack
           level == Head(stack)
           rest == Without(stack, n)
           inner == <<Frame(n)>> \o rest
           more == IF Len(scan.files) < MaxFiles
                   THEN Append(scan.files, [node |-> n, lines |-> CountLinesStreaming(Content[n])])
                   ELSE scan.files
<1>1. PICK C : Scanning(C)
  BY DEF ScanKept
<1>2. /\ scan \in ScanRecord /\ scan.root \in Nodes /\ stack \in Seq(Level) /\ stack # <<>>
      /\ Apart(stack) /\ Entries(stack)
      /\ Counts(C, stack, scan.total) /\ Lists(C, scan.files, scan.total)
      /\ tree \in [Nodes -> Kind] /\ IsWhole(tree)
  BY <1>1 DEF Scanning, ScanRecord, ScanKept
<1>3. /\ n \in level.left
      /\ \/ /\ scan' = At(rest, scan.files, scan.total)
            /\ \/ n \notin level.listed \/ tree[n] = "gone"
               \/ tree[n] \in {"dir", "locked_dir"} /\ n \in SkippedDirs
               \/ tree[n] \notin {"dir", "locked_dir"} /\ ~Scannable(n)
         \/ /\ scan' = [scan EXCEPT !.op = "failed"]
            /\ \/ n \in level.listed /\ tree[n] = "gone"
               \/ tree[n] = "locked_dir" /\ n \notin SkippedDirs
         \/ /\ scan' = At(inner, scan.files, scan.total)
            /\ tree[n] = "dir" /\ n \notin SkippedDirs
         \/ /\ scan' = At(rest, more, scan.total + 1)
            /\ Scannable(n)
  BY <1>2, EntryCases
<1>4. /\ level = stack[1] /\ 1 \in DOMAIN stack
  BY <1>2, HeadTailProperties, EmptySeq
<1>5. Entry(n, level.listed)
  BY <1>2, <1>3, <1>4 DEF Entries
<1>6. /\ n \in Due => n \in level.listed /\ tree[n] # "gone" /\ Scannable(n)
      /\ \A m \in Due : n \in Above[m] =>
           n \in level.listed /\ tree[n] \in {"dir", "locked_dir"} /\ n \notin SkippedDirs
  BY <1>2, <1>5, DueBehindEntry
<1>7. /\ rest \in Seq(Level) /\ rest # <<>> /\ Apart(rest) /\ Entries(rest)
  BY <1>2, <1>3, EntryTaken
<1>8. /\ Ahead(rest) \subseteq Ahead(stack) /\ n \notin Ahead(rest) /\ n \in Nodes
      /\ n \in Ahead(stack)
      /\ \A m \in Ahead(stack) : m \in Ahead(rest) \/ m = n \/ n \in Above[m]
  BY <1>2, <1>3, AheadOfEntry
<1>9. InScan(n)
  BY <1>5 DEF Entry
<1> HIDE DEF stack, level, rest, inner, more
<1>10. CASE /\ scan' = At(rest, scan.files, scan.total)
            /\ \/ n \notin level.listed \/ tree[n] = "gone"
               \/ tree[n] \in {"dir", "locked_dir"} /\ n \in SkippedDirs
               \/ tree[n] \notin {"dir", "locked_dir"} /\ ~Scannable(n)
  <2>1. n \notin Due /\ \A m \in Due : n \notin Above[m]
    BY <1>6, <1>10 DEF Scannable
  <2>2. Counts(C, rest, scan.total)
    BY <1>2, <1>8, <2>1 DEF Counts
  <2> QED
    BY <1>2, <1>7, <1>10, <2>2, ScansOn
<1>11. CASE /\ scan' = [scan EXCEPT !.op = "failed"]
            /\ \/ n \in level.listed /\ tree[n] = "gone"
               \/ tree[n] = "locked_dir" /\ n \notin SkippedDirs
  <2>1. scan'.op = "failed" /\ scan'.root = scan.root
    BY <1>2, <1>11 DEF ScanRecord
  <2>2. /\ \A x : InScan(x)' <=> InScan(x)
        /\ \A x : Steady(x)' <=> Steady(x)
    BY <2>1, StandsStill
  <2>3. ~Steady(n) \/ (tree[n] = "locked_dir" /\ n \notin SkippedDirs)
    BY <1>5, <1>11 DEF Entry
  <2>4. (\E x \in Nodes : InScan(x) /\ (~Steady(x) \/ (tree[x] = "locked_dir" /\ x \notin SkippedDirs)))'
    BY <1>8, <1>9, <2>2, <2>3
  <2> QED
    BY <1>2, <2>1, <2>4 DEF ScanKept, ScanIsExact, IsWhole
<1>12. CASE scan' = At(inner, scan.files, scan.total) /\ tree[n] = "dir" /\ n \notin SkippedDirs
  <2>1. /\ inner \in Seq(Level) /\ inner # <<>> /\ Apart(inner) /\ Entries(inner)
        /\ Ahead(inner) \subseteq Ahead(stack)
        /\ \A m \in Ahead(stack) : m \in Ahead(inner) \/ m = n
    BY <1>2, <1>3, <1>12, DirectoryEntered DEF inner, rest, level
  <2>2. n \notin Due
    BY <1>12 DEF Due, Scannable
  <2>3. Counts(C, inner, scan.total)
    BY <1>2, <2>1, <2>2 DEF Counts
  <2> QED
    BY <1>2, <1>12, <2>1, <2>3, ScansOn
<1>13. CASE scan' = At(rest, more, scan.total + 1) /\ Scannable(n)
  <2>1. n \notin C
    BY <1>2, <1>8 DEF Counts
  <2>2. n \in Due \cup Moving
    BY <1>8, <1>9, <1>13 DEF Due, Moving
  <2>3. \A m \in Due : n \notin Above[m]
    BY <1>6, <1>13 DEF Scannable
  <2>4. /\ IsFiniteSet(C \cup {n}) /\ Cardinality(C \cup {n}) = scan.total + 1
        /\ Lists(C \cup {n}, more, scan.total + 1)
    BY <1>2, <1>8, <2>1, OneMoreFile DEF Counts, more
  <2>5. Counts(C \cup {n}, rest, scan.total + 1)
    BY <1>2, <1>8, <2>2, <2>3, <2>4 DEF Counts
  <2> QED
    BY <1>2, <1>7, <1>13, <2>4, <2>5, ScansOn
<1> QED
  BY <1>3, <1>10, <1>11, <1>12, <1>13

(***************************************************************************)
(* A directory that is read to its end has nothing ahead: the scan goes on *)
(* above it, or it has counted all that is due.                            *)
(***************************************************************************)
LEMMA LeavingKeepsScan ==
  ASSUME ScanKept, scan.op = "scanning", LeaveDir, UNCHANGED <<tree, touched>>
  PROVE  ScanKept'
<1> DEFINE stack == scan.stack
           rest == Tail(stack)
<1>1. PICK C : Scanning(C)
  BY DEF ScanKept
<1>2. /\ scan \in ScanRecord /\ scan.root \in Nodes /\ stack \in Seq(Level) /\ stack # <<>>
      /\ Apart(stack) /\ Entries(stack)
      /\ Counts(C, stack, scan.total) /\ Lists(C, scan.files, scan.total)
      /\ tree \in [Nodes -> Kind] /\ IsWhole(tree)
  BY <1>1 DEF Scanning, ScanRecord, ScanKept
<1>3. /\ rest \in Seq(Level) /\ Len(rest) = Len(stack) - 1 /\ Len(stack) \in Nat \ {0}
      /\ \A i \in 1 .. Len(stack) - 1 : rest[i] = stack[i + 1]
      /\ stack[1].left = {} /\ DOMAIN stack = 1 .. Len(stack)
  <2>1. Head(stack).left = {}
    BY DEF LeaveDir
  <2> QED
    BY <1>2, <2>1, HeadTailProperties, EmptySeq
<1>4. scan = At(stack, scan.files, scan.total)
  BY <1>2 DEF At, ScanRecord
<1>5. CASE Len(stack) > 1
  <2>1. scan' = [scan EXCEPT !.stack = rest]
    BY <1>5 DEF LeaveDir
  <2> HIDE DEF stack, rest
  <2>2. scan' = At(rest, scan.files, scan.total)
    BY <1>4, <2>1 DEF At
  <2>3. DOMAIN rest = 1 .. Len(stack) - 1 /\ rest # <<>>
    BY <1>3, <1>5
  <2>4. \A i \in DOMAIN rest : i \in Int /\ i + 1 \in DOMAIN stack /\ rest[i] = stack[i + 1]
    BY <1>3, <2>3
  <2>5. \A i \in DOMAIN stack : \/ stack[i].left = {}
                                \/ i - 1 \in DOMAIN rest /\ rest[i - 1] = stack[i]
    <3> SUFFICES ASSUME NEW i \in DOMAIN stack, i # 1
                 PROVE  i - 1 \in DOMAIN rest /\ rest[i - 1] = stack[i]
      BY <1>3
    <3>1. i - 1 \in 1 .. Len(stack) - 1 /\ (i - 1) + 1 = i
      BY <1>3
    <3> QED
      BY <1>3, <2>3, <3>1
  <2>6. Apart(rest)
    <3> SUFFICES ASSUME NEW i \in DOMAIN rest, NEW j \in DOMAIN rest,
                        NEW x \in rest[i].left, NEW y \in rest[j].left
                 PROVE  x \notin Above[y] /\ (x = y => i = j)
      BY DEF Apart
    <3>1. x \notin Above[y] /\ (x = y => i + 1 = j + 1)
      BY <1>2, <2>4 DEF Apart
    <3>2. i \in Int /\ j \in Int
      BY <2>4
    <3> QED
      BY <3>1, <3>2
  <2>7. Entries(rest)
    BY <1>2, <2>4 DEF Entries
  <2>8. Left(rest) = Left(stack)
    <3>1. Left(rest) \subseteq Left(stack)
      BY <2>4 DEF Left
    <3>2. Left(stack) \subseteq Left(rest)
      BY <2>5 DEF Left
    <3> QED
      BY <3>1, <3>2
  <2>9. Counts(C, rest, scan.total)
    BY <1>2, <2>8 DEF Counts, Ahead
  <2> QED
    BY <1>2, <1>3, <2>2, <2>3, <2>6, <2>7, <2>9, ScansOn
<1>6. CASE ~(Len(stack) > 1)
  <2>1. scan' = [op |-> "scanned", root |-> scan.root, files |-> scan.files,
                 total |-> scan.total, truncated |-> scan.total > MaxFiles]
    BY <1>6 DEF LeaveDir
  <2> HIDE DEF stack, rest
  <2>2. \A i \in DOMAIN stack : i = 1
    BY <1>3, <1>6
  <2>3. Ahead(stack) = {}
    BY <1>3, <2>2 DEF Ahead, Left
  <2>4. Due \subseteq C /\ C \subseteq Due \cup Moving /\ IsFiniteSet(C) /\ Cardinality(C) = scan.total
    BY <1>2, <2>3 DEF Counts
  <2>5. IsFiniteSet(Due \cup Moving)
    <3>1. Due \cup Moving \subseteq Nodes
      BY DEF Due, Moving
    <3> QED
      BY <3>1, CodeScanAssumption, FS_Subset
  <2>6. /\ Cardinality(Due) \in Nat /\ Cardinality(Due \cup Moving) \in Nat /\ scan.total \in Nat
        /\ Cardinality(Due) <= scan.total /\ scan.total <= Cardinality(Due \cup Moving)
    BY <2>4, <2>5, FS_Subset, FS_CardinalityType
  <2>7. scan.total \in Cardinality(Due) .. Cardinality(Due \cup Moving)
    BY <2>6
  <2>8. /\ scan.files \in Seq([node : Nodes, lines : Nat])
        /\ ListedIn(scan.files) \subseteq C /\ Cardinality(ListedIn(scan.files)) = Len(scan.files)
        /\ Len(scan.files) <= MaxFiles /\ Len(scan.files) <= scan.total
        /\ Len(scan.files) < scan.total => Len(scan.files) = MaxFiles
        /\ Len(scan.files) = scan.total => ListedIn(scan.files) = C
        /\ \A i \in DOMAIN scan.files : scan.files[i].lines = CountLines(Content[scan.files[i].node])
    BY <1>2 DEF Lists
  <2>9. Len(scan.files) \in Nat /\ MaxFiles \in Nat
    BY <2>8, CodeScanAssumption
  <2>10. scan.total > MaxFiles <=> Len(scan.files) < scan.total
    BY <2>6, <2>8, <2>9
  <2>11. ~(scan.total > MaxFiles) => Due \subseteq ListedIn(scan.files)
    BY <2>4, <2>6, <2>8, <2>9, <2>10
  <2>12. Due' = Due /\ Moving' = Moving
    BY <2>1, StandsStill
  <2>13. scan'.op = "scanned" /\ scan'.files = scan.files /\ scan'.total = scan.total
    BY <2>1
  <2>14. scan'.truncated <=> Len(scan.files) < scan.total
    BY <2>1, <2>10
  <2>15. scan.truncated' <=> scan.total > MaxFiles
    BY <2>1
  <2>16. ScanIsExact'
    <3>1. {scan'.files[i].node : i \in DOMAIN scan'.files} = ListedIn(scan.files)
      BY <2>13 DEF ListedIn
    <3>2. {m \in Nodes : InScan(m)' /\ ~Steady(m)'} = Moving
      BY <2>12 DEF Moving
    <3>3. Due' = Due
      BY <2>12
    <3> QED
      BY <2>4, <2>7, <2>8, <2>11, <2>13, <2>14, <2>15, <3>1, <3>2, <3>3 DEF ScanIsExact
  <2> QED
    BY <1>2, <2>13, <2>16 DEF ScanKept, IsWhole
<1> QED
  BY <1>5, <1>6

(***************************************************************************)
(* A scan begins with everything that is due ahead of it.                  *)
(***************************************************************************)
LEMMA BeginningKeepsScan ==
  ASSUME ScanKept, NEW p, BeginScan(p)
  PROVE  ScanKept'
<1> DEFINE d == Canonical(p)
           stack == <<Frame(d)>>
<1>1. d \in Nodes
  BY DEF BeginScan, CodeToolOutcome, Resolves
<1>2. /\ scan' = [op |-> "scanning", root |-> d, stack |-> stack, files |-> <<>>, total |-> 0]
      /\ touched' = {} /\ tree' = tree
  BY DEF BeginScan
<1> HIDE DEF d
<1>3. /\ Frame(d) \in Level /\ Frame(d).left = Children(d)
      /\ Frame(d).listed = {x \in Children(d) : tree[x] # "gone"}
  BY <1>1 DEF Frame, Level, Children
<1>4. /\ stack \in Seq(Level) /\ stack # <<>> /\ Len(stack) = 1 /\ DOMAIN stack = {1}
      /\ stack[1] = Frame(d)
  BY <1>3
<1> HIDE DEF stack
<1>5. /\ scan'.op = "scanning" /\ scan'.root = d /\ scan'.stack = stack
      /\ scan'.files = <<>> /\ scan'.total = 0 /\ scan' \in ScanRecord
  BY <1>1, <1>2, <1>4 DEF ScanRecord
<1>6. Left(stack) = Children(d)
  BY <1>3, <1>4 DEF Left
<1>7. /\ \A x \in Children(d) : x \in Nodes /\ Above[x] = {d} \cup Above[d]
      /\ d \notin Above[d]
      /\ \A x \in Nodes, y \in Nodes : x \in Above[y] => Above[x] \subseteq Above[y]
      /\ \A x \in Nodes : Above[x] \subseteq Nodes /\ x \notin Above[x]
  BY <1>1, AboveFacts
<1>8. \A x, y \in Children(d) : x \notin Above[y]
  BY <1>1, <1>7
<1>9. Apart(stack)
  BY <1>3, <1>4, <1>8 DEF Apart
<1>10. \A x \in Nodes : Steady(x)'
  BY <1>2 DEF Steady
<1>11. \A x : InScan(x)' <=> /\ d \in Above[x]
                             /\ \A e \in Above[x] : d \in Above[e] => e \notin SkippedDirs
  BY <1>5 DEF InScan
<1>12. \A x \in Children(d) : InScan(x)'
  BY <1>1, <1>7, <1>11
<1>13. Entries(scan.stack)'
  BY <1>2, <1>3, <1>4, <1>5, <1>7, <1>12 DEF Entries, Entry
<1>14. Due' \subseteq Ahead(stack)
  <2> SUFFICES ASSUME NEW m \in Due'
               PROVE  m \in Ahead(stack)
    OBVIOUS
  <2>1. m \in Nodes /\ d \in Above[m]
    BY <1>11 DEF Due
  <2>2. \E x \in Children(d) : x = m \/ x \in Above[m]
    BY <2>1, EntryOnTheWay
  <2> QED
    BY <1>6, <2>1, <2>2 DEF Ahead
<1>15. Ahead(scan.stack)' = Ahead(stack) /\ Apart(scan.stack)'
  BY <1>5, <1>9 DEF Ahead, Left, Apart
<1>16. Counts({}, scan.stack, scan.total)'
  BY <1>5, <1>14, <1>15, FS_EmptySet DEF Counts
<1>17. Lists({}, scan.files, scan.total)'
  <2> DEFINE none == <<>>
  <2>1. /\ none \in Seq([node : Nodes, lines : Nat]) /\ Len(none) = 0 /\ DOMAIN none = {}
        /\ ListedIn(none) = {}
    BY DEF ListedIn
  <2>2. scan'.files = none /\ scan'.total = 0
    BY <1>5
  <2> HIDE DEF none
  <2>3. MaxFiles \in Nat /\ Cardinality({}) = 0 /\ IsFiniteSet({})
    BY CodeScanAssumption, FS_EmptySet
  <2>4. Lists({}, none, 0)
    BY <2>1, <2>3 DEF Lists
  <2> QED
    BY <2>2, <2>4
<1>18. (scan.stack # <<>>)'
  BY <1>4, <1>5
<1>19. Scanning({})'
  BY <1>5, <1>13, <1>15, <1>16, <1>17, <1>18 DEF Scanning
<1> QED
  BY <1>2, <1>5, <1>19 DEF ScanKept, ScanIsExact, IsWhole

(***************************************************************************)
(* A place that changes under a scan, and all below it, is not due any     *)
(* more: whether it was counted or will be does not matter.                *)
(***************************************************************************)
LEMMA ChangesKeepScan ==
  ASSUME ScanKept, NEW n \in Nodes, NEW kind \in Kind, ChangeTree(n, kind)
  PROVE  ScanKept'
<1>1. PICK C : Scanning(C)
  BY DEF ScanKept, ChangeTree
<1>2. /\ tree \in [Nodes -> Kind] /\ IsWhole(tree) /\ scan' = scan /\ scan.op = "scanning"
      /\ n # Root /\ tree[Parent[n]] = "dir" /\ touched' = touched \cup {n}
      /\ tree' = [m \in Nodes |-> IF m = n THEN kind ELSE IF n \in Above[m] THEN "gone" ELSE tree[m]]
  BY DEF ScanKept, ChangeTree
<1>3. tree' \in [Nodes -> Kind]
  BY <1>2 DEF Kind
<1>4. /\ \A x \in Nodes : Above[x] \subseteq Nodes /\ x \notin Above[x]
      /\ \A x \in Nodes, y \in Nodes : x \in Above[y] => Above[x] \subseteq Above[y]
  BY AboveFacts
<1>5. /\ Parent[n] \in Nodes /\ Above[n] = {Parent[n]} \cup Above[Parent[n]]
  BY <1>2, AboveByParent
<1>6. IsWhole(tree)'
  <2> SUFFICES ASSUME NEW m \in Nodes, tree'[m] # "gone", NEW d \in Above[m]
               PROVE  tree'[d] \in {"dir", "locked_dir"}
    BY DEF IsWhole
  <2>1. d \in Nodes /\ d # m /\ Above[d] \subseteq Above[m] /\ n \notin Above[m]
    BY <1>2, <1>4
  <2>2. tree'[d] = tree[d]
    BY <1>2, <2>1
  <2>3. tree[d] \in {"dir", "locked_dir"}
    <3>1. CASE m = n
      <4>1. tree[Parent[n]] # "gone" /\ tree[Parent[n]] \in {"dir", "locked_dir"}
        BY <1>2
      <4> QED
        BY <1>2, <1>5, <3>1, <4>1 DEF IsWhole
    <3>2. CASE m # n
      <4>1. tree[m] # "gone"
        BY <1>2, <2>1, <3>2
      <4> QED
        BY <1>2, <4>1 DEF IsWhole
    <3> QED
      BY <3>1, <3>2
  <2> QED
    BY <2>2, <2>3
<1>7. \A x \in Nodes : Steady(x)' => Steady(x) /\ tree'[x] = tree[x]
  BY <1>2 DEF Steady
<1>8. \A x : InScan(x)' <=> InScan(x)
  BY <1>2 DEF InScan
<1>9. /\ Due' \subseteq Due /\ Moving \subseteq Moving'
      /\ Due \subseteq Due' \cup Moving'
  <2>1. Due' \subseteq Due
    BY <1>7, <1>8 DEF Due, Scannable
  <2>2. Moving \subseteq Moving'
    BY <1>7, <1>8 DEF Moving
  <2>3. Due \subseteq Due' \cup Moving'
    BY <1>7, <1>8 DEF Due, Moving, Scannable
  <2> QED
    BY <2>1, <2>2, <2>3
<1>10. Entries(scan.stack)'
  <2>1. Entries(scan.stack)
    BY <1>1 DEF Scanning
  <2> QED
    BY <1>2, <1>7, <1>8, <2>1 DEF Entries, Entry
<1>11. Counts(C, scan.stack, scan.total) /\ Lists(C, scan.files, scan.total)
  BY <1>1 DEF Scanning
<1>12. Ahead(scan.stack)' = Ahead(scan.stack) /\ (Apart(scan.stack)' <=> Apart(scan.stack))
  BY <1>2 DEF Ahead, Left, Apart
<1>13. Counts(C, scan.stack, scan.total)'
  BY <1>2, <1>9, <1>11, <1>12 DEF Counts
<1>14. Lists(C, scan.files, scan.total)'
  BY <1>2, <1>11
<1>15. Scanning(C)'
  BY <1>1, <1>2, <1>10, <1>12, <1>13, <1>14 DEF Scanning
<1> QED
  BY <1>2, <1>3, <1>6, <1>15 DEF ScanKept, ScanIsExact

(***************************************************************************)
(* A scan that succeeds has counted every text file that stayed where it   *)
(* was, once, and lists as many as it may with their lines; one that fails *)
(* met a directory it may not open or a change (core/code_tools.rs         *)
(* visit_dir, count_lines_streaming).                                      *)
(***************************************************************************)
THEOREM ScansAreExact == Spec => []ScanIsExact
<1>1. Init => ScanKept
  <2> SUFFICES ASSUME Init
               PROVE  ScanKept
    OBVIOUS
  <2>1. tree \in Trees /\ scan.op = "none"
    BY DEF Init, ScanInit, NoScan
  <2> QED
    BY <2>1, CodeScanAssumption DEF ScanKept, ScanIsExact
<1>2. ASSUME ScanKept, [Next]_vars
      PROVE  ScanKept'
  <2>1. CASE UNCHANGED scanVars
    <3>1. tree' = tree /\ scan' = scan /\ touched' = touched
      BY <2>1 DEF scanVars
    <3>2. /\ \A x : InScan(x)' <=> InScan(x)
          /\ \A x : Steady(x)' <=> Steady(x)
          /\ Due' = Due /\ Moving' = Moving
      BY <3>1, StandsStill
    <3>3. ASSUME NEW C, Scanning(C)
          PROVE  Scanning(C)'
      <4>1. Entries(scan.stack)' /\ Apart(scan.stack)' /\ Ahead(scan.stack)' = Ahead(scan.stack)
        BY <3>1, <3>2, <3>3 DEF Scanning, Entries, Entry, Apart, Ahead, Left
      <4>2. Counts(C, scan.stack, scan.total)'
        BY <3>1, <3>2, <3>3, <4>1 DEF Scanning, Counts
      <4>3. Lists(C, scan.files, scan.total)'
        BY <3>1, <3>3 DEF Scanning
      <4> QED
        BY <3>1, <3>3, <4>1, <4>2, <4>3 DEF Scanning
    <3>4. ScanIsExact'
      <4>1. ScanIsExact
        BY <1>2 DEF ScanKept
      <4>2. {m \in Nodes : InScan(m)' /\ ~Steady(m)'} = {m \in Nodes : InScan(m) /\ ~Steady(m)}
        BY <3>2
      <4> QED
        BY <3>1, <3>2, <4>1, <4>2 DEF ScanIsExact
    <3> QED
      BY <1>2, <3>1, <3>3, <3>4 DEF ScanKept, IsWhole
  <2>2. CASE \E p \in Paths : BeginScan(p)
    BY <1>2, <2>2, BeginningKeepsScan
  <2>3. CASE ScanNext
    BY <1>2, <2>3, LeavingKeepsScan, EntryKeepsScan DEF ScanNext
  <2>4. CASE \E n \in Nodes, kind \in {"gone", "file", "dir"} : ChangeTree(n, kind)
    <3>1. {"gone", "file", "dir"} \subseteq Kind
      BY DEF Kind
    <3> QED
      BY <1>2, <2>4, <3>1, ChangesKeepScan
  <2> QED
    BY <1>2, <2>1, <2>2, <2>3, <2>4 DEF Next, vars, Loads, ManagerRequest, ToolRequest, outside
<1>3. ScanKept => ScanIsExact
  BY DEF ScanKept
<1> QED
  BY <1>1, <1>2, <1>3, PTL DEF Spec

=============================================================================
