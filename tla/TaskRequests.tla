---------------------------- MODULE TaskRequests ----------------------------
(***************************************************************************)
(* Tasks and webhooks through the front ends: submission, cancellation,    *)
(* reading, the pages of the A2A task list, and the webhook calls of the   *)
(* A2A service.  An id of a task is a number, in the order UUIDs sort in;  *)
(* they are handed out in any order.                                       *)
(***************************************************************************)
EXTENDS Frontends, Conversions, SequencesExt

CONSTANTS WireMessages,   \* bound: the wire messages A2A clients send
          AnyState        \* no state in a list filter

ASSUME TaskRequestsAssumption ==
  WireMessages \subseteq ProtoMessage /\ AnyState \notin TaskState

-----------------------------------------------------------------------------
(* Deadlines *)

\* ms as i64
Signed(ms) == IF ms >= 2 ^ (Width - 1) THEN ms - 2 ^ Width ELSE ms

(***************************************************************************)
(* Utc::now() + Duration::try_milliseconds(ms as i64).  The smallest value *)
(* is no duration, and then there is no deadline; a time the clock type    *)
(* cannot hold panics, and the request ends without an answer.             *)
(***************************************************************************)
Counted(ms) == Signed(ms) # -(2 ^ (Width - 1))

Panics(ms) == Counted(ms) /\ Now + Signed(ms) \notin 0 .. MaxTime

DeadlineIn(ms) == IF Counted(ms) THEN Now + Signed(ms) ELSE NoDeadline

\* deadline_at, which only the HTTP body has, wins over deadline_ms.
DeadlineOf(ms, at) ==
  CASE at # NoDeadline -> at
    [] at = NoDeadline /\ ms # NoDeadline -> DeadlineIn(ms)
    [] OTHER -> NoDeadline

Overflows(ms, at) == at = NoDeadline /\ ms # NoDeadline /\ Panics(ms)

-----------------------------------------------------------------------------
(* Submission *)

\* What resolving the assignee comes to; without one the router may pick nobody.
AssigneeOutcome(a) ==
  CASE a = NoAgent -> "Ok"
    [] a \in AgentIds /\ a \notin Registered -> "AgentNotFound"
    [] a \in Disconnected -> "AgentDisconnected"
    [] OTHER -> "Ok"

Assignees(a) == IF a = NoAgent THEN SelectAgent({}) ELSE {a}

BadIdOutcome(front) == IF front \in HttpFronts THEN "InvalidInput" ELSE "Malformed"

\* The first critical section of the facade has let the request through.
Accept(front, c, a, d) ==
  /\ submission = None
  /\ AssigneeOutcome(a) = "Ok"
  /\ \E assignee \in Assignees(a) :
       submission' = [op |-> "submit_task", front |-> front, context |-> c,
                      assignee |-> assignee, deadline |-> d]
  /\ Silent
  /\ UNCHANGED <<managers, reply, walk>>

SubmitRequest(front, c, a, ms, at) ==
  \/ /\ BadId \in {c, a}
     /\ Refuse(front, "submit_task", BadIdOutcome(front))
  \/ /\ BadId \notin {c, a}
     /\ ~Overflows(ms, at)
     /\ \/ Accept(front, c, a, DeadlineOf(ms, at))
        \/ Refuse(front, "submit_task", AssigneeOutcome(a))
  \/ /\ BadId \notin {c, a}
     /\ Overflows(ms, at)
     /\ reply' = [front |-> front, op |-> "submit_task", outcome |-> "Panicked", answer |-> "none"]
     /\ Silent
     /\ UNCHANGED <<managers, submission, walk>>

\* SendMessage of the A2A service; SendStreamingMessage goes on as in TaskStream.
GrpcSubmit(m, c) ==
  \/ /\ MessageParses(m) /\ c # BadId
     /\ Accept("grpc", c, NoAgent, NoDeadline)
  \/ /\ ~MessageParses(m) \/ c = BadId
     /\ Refuse("grpc", "submit_task", "Malformed")

A2aSendMessage ==
  \E m \in WireMessages, c \in AnyContext : GrpcSubmit(m, c)

\* A submission without a context gets one that no task has had.
ContextsFor(c) == IF c = NoContext THEN {x \in Contexts : contextIndex[x] = <<>>} ELSE {c}

FinishSubmit ==
  /\ submission # None
  /\ \E t \in TaskIds, c \in ContextsFor(submission.context) :
       CreateTask(t, c, submission.assignee, submission.deadline)
  /\ Reply(submission.front, "submit_task", "Ok")
  /\ submission' = None
  /\ UNCHANGED <<agents, nameIndex, conversations, messages, hooks, walk>>

-----------------------------------------------------------------------------
(* Reading and canceling *)

TaskOutcome(id) == IF id \in Born THEN "Ok" ELSE "TaskNotFound"

\* HTTP takes a path that is no UUID for a task that is not there.
TaskIdOutcome(front, id) ==
  IF id = BadId /\ front \notin HttpFronts THEN "Malformed" ELSE TaskOutcome(id)

GetTask(front, id) == Read(front, "get_task", TaskIdOutcome(front, id))

CancelOutcome(front, id) ==
  IF TaskIdOutcome(front, id) # "Ok" THEN TaskIdOutcome(front, id)
  ELSE IF StateOf(id) \in Terminal THEN "TaskAlreadyTerminal"
  ELSE IF ~CanTransition(StateOf(id), "Canceled") THEN "TaskInvalidTransition"
  ELSE "Ok"

CancelRequest(front, id) ==
  \/ /\ id \in Born
     /\ Cancel(id)
     /\ Done(front, "cancel_task")
     /\ UNCHANGED <<agents, nameIndex, conversations, messages, hooks>>
  \/ Refuse(front, "cancel_task", CancelOutcome(front, id))

A2aGetTask    == \E id \in AnyTaskId : GetTask("grpc", id)
A2aCancelTask == \E id \in AnyTaskId : CancelRequest("grpc", id)

\* list_filtered: a context is looked up in its index, in place of a scan.
ListFiltered(c, s) ==
  {t \in IF c = NoContext THEN Born ELSE ToSet(contextIndex[c]) :
     s \in {AnyState, StateOf(t)}}

\* FromStr of TaskState takes the names Display writes.
StateFilter == TaskState \cup {AnyState}

ListTasks(front, c, s) ==
  Read(front, "list_tasks",
       IF c = BadId \/ s \notin StateFilter THEN BadIdOutcome(front) ELSE "Ok")

-----------------------------------------------------------------------------
(* The pages of the A2A task list *)

\* Mutant: the token is the number of tasks already sent.
AfterOffset(found, read) ==
  {t \in found : Cardinality({u \in found : u < t}) >= Len(read)}

\* The tasks behind the token, which is the last id of the page before.
After(found, read) == {t \in found : read = <<>> \/ t > Last(read)}

Ascends(s) == \A i, j \in 1 .. Len(s) : i < j => s[i] < s[j]

\* In the order of their ids the first tasks, as many as a page holds, or all.
Pages(rest, size) ==
  {page \in BoundedSeq(rest, size) :
     /\ Ascends(page)
     /\ \A t \in rest \ ToSet(page) : Len(page) = size /\ \A u \in ToSet(page) : u < t}

(***************************************************************************)
(* A client reads pages, of a size it may change, until one comes without  *)
(* a token.  first is what the list held when it began.                    *)
(***************************************************************************)
ReadPage(c, s, size) ==
  /\ walk.op = "walking" => walk.context = c /\ walk.state = s
  /\ walk.op # "walked"
  /\ LET read == IF walk = None THEN <<>> ELSE walk.read
         rest == After(ListFiltered(c, s), read)
     IN  \E page \in Pages(rest, size) :
           walk' = [op      |-> IF rest = ToSet(page) THEN "walked" ELSE "walking",
                    context |-> c,
                    state   |-> s,
                    read    |-> read \o page,
                    first   |-> IF walk = None THEN ListFiltered(c, s) ELSE walk.first]
  /\ Reply("grpc", "list_tasks", "Ok")
  /\ Silent
  /\ UNCHANGED <<managers, submission>>

-----------------------------------------------------------------------------
(* Webhooks of the A2A service *)

CreateWebhookOutcome(t, url) ==
  IF t = BadId THEN "Malformed"
  ELSE IF t \notin Born THEN "TaskNotFound"
  ELSE IF url = BadUrl THEN "InvalidInput" ELSE "Ok"

\* A task is never removed, so looking it up first is one step with create.
CreateWebhook(t, url) ==
  \/ /\ CreateWebhookOutcome(t, url) = "Ok"
     /\ \E w \in WebhookIds : CreateHook(t, w, url)
     /\ Done("grpc", "create_webhook")
     /\ Silent
     /\ UNCHANGED <<agents, nameIndex, tasks, contextIndex, conversations, messages>>
  \/ Refuse("grpc", "create_webhook", CreateWebhookOutcome(t, url))

WebhookOutcome(t, w) ==
  IF BadId \in {t, w} THEN "Malformed"
  ELSE IF Hook(t, w) = {} THEN "WebhookNotFound" ELSE "Ok"

GetWebhook(t, w) == Read("grpc", "get_webhook", WebhookOutcome(t, w))

ListWebhooks(t) == Read("grpc", "list_webhooks", IF t = BadId THEN "Malformed" ELSE "Ok")

DeleteWebhook(t, w) ==
  \/ /\ DeleteHook(t, w)
     /\ Done("grpc", "delete_webhook")
     /\ Silent
     /\ UNCHANGED <<agents, nameIndex, tasks, contextIndex, conversations, messages>>
  \/ Refuse("grpc", "delete_webhook", WebhookOutcome(t, w))

-----------------------------------------------------------------------------
(* The A2A service itself *)

GetCard == Read("grpc", "get_card", "Ok")

(***************************************************************************)
(* BearerTokenInterceptor: a call whose token is not the one in the slot   *)
(* does not get to the service.  One that passes, or any call when         *)
(* require_auth is off, is the call itself.                                *)
(***************************************************************************)
Unauthenticated == Refuse("grpc", "any", "Unauthenticated")

-----------------------------------------------------------------------------
(* Properties *)

(***************************************************************************)
(* A client that walks through the pages while tasks come and change gets  *)
(* every task that was in the list when it began and still is when it ends *)
(* once, and in order, whatever came in between or left, and whatever page *)
(* sizes it asks for (grpc/service.rs list_tasks).                         *)
(***************************************************************************)
WalkSeesAllThatLasts ==
  walk.op = "walked" =>
    /\ Ascends(walk.read)
    /\ walk.first \cap ListFiltered(walk.context, walk.state) \subseteq ToSet(walk.read)

=============================================================================
