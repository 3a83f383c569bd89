-------------------------- MODULE WebhookDelivery --------------------------
(***************************************************************************)
(* Webhooks (core/push_notifications.rs and the four RPCs of               *)
(* grpc/service.rs): the store of the configurations, the worker that      *)
(* takes the events of tasks from the bus, and the deliveries it starts.   *)
(*                                                                         *)
(* The worker reads the store under a lock of its own for each event, so a *)
(* webhook may come and go between the event and the look.  A delivery is  *)
(* a tokio task of its own: deliveries overtake each other, and outlive    *)
(* the webhook they were started for.                                      *)
(***************************************************************************)
EXTENDS TaskEvents

CONSTANTS Webhooks,     \* ids of configurations, each minted once
          MaxRetries,   \* MAX_RETRIES
          Worker        \* the receiver of the delivery worker

ASSUME WebhookAssumption ==
  /\ MaxRetries \in Nat
  /\ Worker \in Receivers

VARIABLES configs,      \* HashMap<TaskId, Vec<PushNotificationConfig>>
          hand,         \* place in the log of the event the worker looks at
          delivery,     \* deliver_with_retries for each webhook and event
          createdAt,    \* history: length of the log when a webhook came
          deletedAt,    \* history: and when it went
          skipped       \* history: places of the log lost to a lag

vars == <<eventVars, cursor, configs, hand, delivery, createdAt, deletedAt, skipped>>

Nothing == 0

Never == -1

Places == 1 .. MaxEvents

\* received is history: a post has reached the receiver.
Delivery == [at       : {"trying", "delivered", "failed"},
             attempt  : 0 .. MaxRetries,
             received : BOOLEAN]

NoDelivery == [at |-> "none"]

Configured(w) == \E t \in TaskIds : w \in configs[t]

Started(w, i) == delivery[w][i] # NoDelivery

Ended(w, i) == delivery[w][i].at \in {"delivered", "failed"}

TypeOK ==
  /\ TaskTypeOK
  /\ configs \in [TaskIds -> SUBSET Webhooks]
  /\ hand \in {Nothing} \cup DOMAIN log
  /\ delivery \in [Webhooks -> [Places -> Delivery \cup {NoDelivery}]]
  /\ \A w \in Webhooks : Configured(w) <=> createdAt[w] # Never /\ deletedAt[w] = Never
  /\ skipped \subseteq DOMAIN log

\* spawn_delivery_worker subscribes before the daemon serves anyone.
Init ==
  /\ TaskInit
  /\ published = {}
  /\ log = <<>>
  /\ cursor = [r \in Receivers |-> IF r = Worker THEN 0 ELSE Unsubscribed]
  /\ configs = [t \in TaskIds |-> {}]
  /\ hand = Nothing
  /\ delivery = [w \in Webhooks |-> [i \in Places |-> NoDelivery]]
  /\ createdAt = [w \in Webhooks |-> Never]
  /\ deletedAt = [w \in Webhooks |-> Never]
  /\ skipped = {}

-----------------------------------------------------------------------------
(* The store *)

\* create_task_push_notification_config: that the task exists is checked
\* under another lock before, but a task is never removed.
CreateWebhook(w, t) ==
  /\ createdAt[w] = Never
  /\ t \in Born
  /\ configs' = [configs EXCEPT ![t] = @ \cup {w}]
  /\ createdAt' = [createdAt EXCEPT ![w] = Len(log)]
  /\ NothingHappens
  /\ UNCHANGED <<cursor, hand, delivery, deletedAt, skipped>>

DeleteWebhook(w, t) ==
  /\ w \in configs[t]
  /\ configs' = [configs EXCEPT ![t] = @ \ {w}]
  /\ deletedAt' = [deletedAt EXCEPT ![w] = Len(log)]
  /\ NothingHappens
  /\ UNCHANGED <<cursor, hand, delivery, createdAt, skipped>>

-----------------------------------------------------------------------------
(* The worker *)

\* recv, and task_id_for_event: only the events of tasks are looked at.
TakeEvent ==
  /\ hand = Nothing
  /\ Recv(Worker)
  /\ hand' = IF IsTaskEvent(NextEvent(Worker)) THEN cursor'[Worker] ELSE Nothing
  /\ NothingHappens
  /\ UNCHANGED <<configs, delivery, createdAt, deletedAt, skipped>>

SkipLost ==
  /\ hand = Nothing
  /\ RecvLagged(Worker)
  /\ skipped' = skipped \cup (cursor[Worker] + 1 .. cursor'[Worker])
  /\ NothingHappens
  /\ UNCHANGED <<configs, hand, delivery, createdAt, deletedAt>>

Start(targets) ==
  /\ delivery' = [w \in Webhooks |->
       IF w \in targets
       THEN [delivery[w] EXCEPT ![hand] =
               [at |-> "trying", attempt |-> 0, received |-> FALSE]]
       ELSE delivery[w]]
  /\ hand' = Nothing
  /\ NothingHappens
  /\ UNCHANGED <<cursor, configs, createdAt, deletedAt, skipped>>

\* Mutant: the worker is done after the first webhook of the list.
DispatchFirst ==
  /\ hand # Nothing
  /\ LET found == configs[log[hand].task]
     IN  \/ found = {} /\ Start({})
         \/ \E w \in found : Start({w})

\* Mutant: the worker posts to every webhook it has ever seen.
DispatchRemembered ==
  /\ hand # Nothing
  /\ Start({w \in Webhooks : createdAt[w] # Never})

\* store.list, and one delivery spawned for each webhook found.
Dispatch ==
  /\ hand # Nothing
  /\ Start(configs[log[hand].task])

-----------------------------------------------------------------------------
(* The deliveries *)

\* Mutant: any answer of the receiver is taken for a success, none as well.
PostTrusting(w, i) ==
  LET d == delivery[w][i]
  IN  /\ d.at = "trying"
      /\ \E reached \in BOOLEAN :
           delivery' = [delivery EXCEPT ![w][i] =
                          [d EXCEPT !.received = @ \/ reached, !.at = "delivered"]]
      /\ NothingHappens
      /\ UNCHANGED <<cursor, configs, hand, createdAt, deletedAt, skipped>>

\* Mutant: after the last attempt the count starts over.
PostForever(w, i) ==
  LET d == delivery[w][i]
  IN  /\ d.at = "trying"
      /\ \E reached, success \in BOOLEAN :
           LET e == [d EXCEPT !.received = @ \/ reached]
           IN  /\ success => reached
               /\ delivery' = [delivery EXCEPT ![w][i] =
                    IF success THEN [e EXCEPT !.at = "delivered"]
                    ELSE [e EXCEPT !.attempt = IF @ < MaxRetries THEN @ + 1 ELSE 0]]
      /\ NothingHappens
      /\ UNCHANGED <<cursor, configs, hand, createdAt, deletedAt, skipped>>

(***************************************************************************)
(* deliver_once and its place in the loop of deliver_with_retries.  The    *)
(* post may reach the receiver and its answer be lost or late; the pause   *)
(* before a retry is only time.                                            *)
(***************************************************************************)
Post(w, i) ==
  LET d == delivery[w][i]
  IN  /\ d.at = "trying"
      /\ \E reached, success \in BOOLEAN :
           LET e == [d EXCEPT !.received = @ \/ reached]
           IN  /\ success => reached
               /\ delivery' = [delivery EXCEPT ![w][i] =
                    IF success THEN [e EXCEPT !.at = "delivered"]
                    ELSE IF d.attempt < MaxRetries THEN [e EXCEPT !.attempt = @ + 1]
                    ELSE [e EXCEPT !.at = "failed"]]
      /\ NothingHappens
      /\ UNCHANGED <<cursor, configs, hand, createdAt, deletedAt, skipped>>

-----------------------------------------------------------------------------

WorkerStep == TakeEvent \/ SkipLost \/ Dispatch

Next ==
  \/ /\ SomethingHappens
     /\ UNCHANGED <<cursor, configs, hand, delivery, createdAt, deletedAt, skipped>>
  \/ \E w \in Webhooks, t \in TaskIds : CreateWebhook(w, t) \/ DeleteWebhook(w, t)
  \/ WorkerStep
  \/ \E w \in Webhooks, i \in Places : Post(w, i)

Spec == Init /\ [][Next]_vars

\* The worker and every delivery are tokio tasks that run on: a post is
\* answered or times out.
Fairness ==
  /\ WF_vars(WorkerStep)
  /\ \A w \in Webhooks, i \in Places : WF_vars(Post(w, i))

FairSpec == Spec /\ Fairness

-----------------------------------------------------------------------------
(* Properties *)

(***************************************************************************)
(* A delivery is about an event from before the webhook was deleted: after *)
(* the deletion what was started runs on, and nothing new starts, whatever *)
(* the worker had in hand (spawn_delivery_worker, delete).                 *)
(***************************************************************************)
NothingNewAfterDelete ==
  \A w \in Webhooks, i \in Places :
    Started(w, i) /\ deletedAt[w] # Never => i <= deletedAt[w]

(***************************************************************************)
(* Every event of its task since a webhook was created has a delivery,     *)
(* unless the worker has not come to it yet or lost it to a lag            *)
(* (spawn_delivery_worker).                                                *)
(***************************************************************************)
EveryEventIsPosted ==
  \A t \in TaskIds : \A w \in configs[t] :
    \A i \in createdAt[w] + 1 .. cursor[Worker] :
      IsAbout(log[i], t) => Started(w, i) \/ i = hand \/ i \in skipped

(***************************************************************************)
(* A delivery counts as delivered only if the receiver has got the event,  *)
(* and as failed only after the last attempt (deliver_with_retries).       *)
(***************************************************************************)
OutcomeIsHonest ==
  \A w \in Webhooks, i \in Places :
    /\ delivery[w][i].at = "delivered" => delivery[w][i].received
    /\ delivery[w][i].at = "failed" => delivery[w][i].attempt = MaxRetries

Owed(w, i) ==
  /\ i \in DOMAIN log
  /\ IsTaskEvent(log[i])
  /\ w \in configs[log[i].task]
  /\ i > createdAt[w]

(***************************************************************************)
(* What a webhook is owed is delivered or given up in the end, however the *)
(* receiver behaves, unless a lag lost it or the webhook was deleted       *)
(* before its delivery began (spawn_delivery_worker, deliver_with_retries).*)
(***************************************************************************)
EveryDeliveryEnds ==
  \A w \in Webhooks, i \in Places :
    Owed(w, i) ~> \/ Ended(w, i)
                  \/ i \in skipped
                  \/ deletedAt[w] # Never /\ ~Started(w, i)

=============================================================================
