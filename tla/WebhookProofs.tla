--------------------------- MODULE WebhookProofs ----------------------------
(***************************************************************************)
(* Proofs about WebhookDelivery, for every set of tasks and webhooks,      *)
(* every number of retries and every capacity of the bus.                  *)
(***************************************************************************)
EXTENDS WebhookDelivery, TLAPS

\* The worker is subscribed, and what it has in hand it has received.
WorkerInvariant ==
  /\ \E S : log \in Seq(S)
  /\ Len(log) \in 0..MaxEvents
  /\ cursor \in [Receivers -> Int]
  /\ cursor[Worker] \in 0..Len(log)
  /\ hand \in 0..cursor[Worker]
  /\ \A i \in 1..Len(log) : IsTaskEvent(log[i]) => log[i].task \in TaskIds
  /\ hand # Nothing => IsTaskEvent(log[hand])

\* A webhook is in the store between its two events, and in no other time.
StoreInvariant ==
  /\ configs \in [TaskIds -> SUBSET Webhooks]
  /\ createdAt \in [Webhooks -> {Never} \cup 0..Len(log)]
  /\ deletedAt \in [Webhooks -> {Never} \cup 0..Len(log)]
  /\ \A w \in Webhooks : createdAt[w] = Never => deletedAt[w] = Never
  /\ \A t \in TaskIds : \A w \in configs[t] : createdAt[w] # Never /\ deletedAt[w] = Never
  /\ \A t, u \in TaskIds : \A w \in configs[t] : w \in configs[u] => t = u

\* A delivery is about an event the worker has received.
DeliveryInvariant ==
  /\ delivery \in [Webhooks -> [Places -> Delivery \cup {NoDelivery}]]
  /\ \A w \in Webhooks, i \in Places : Started(w, i) => i <= cursor[Worker]

WebhookInvariant ==
  /\ WorkerInvariant /\ StoreInvariant /\ DeliveryInvariant
  /\ NothingNewAfterDelete
  /\ EveryEventIsPosted
  /\ OutcomeIsHonest

(***************************************************************************)
(* Each event of a task names a task there is (the publishers of           *)
(* task_manager.rs).                                                       *)
(***************************************************************************)
LEMMA WhatIsPublished ==
  ASSUME SomethingHappens
  PROVE  /\ Len(log) < MaxEvents
         /\ \E e : Send(e) /\ (IsTaskEvent(e) => e.task \in TaskIds)
<1>1. CASE OtherEvent
  BY <1>1 DEF OtherEvent, IsTaskEvent
<1>2. ASSUME NEW t \in TaskIds, Create(t)
      PROVE  Len(log) < MaxEvents /\ \E e : Send(e) /\ e.task = t
  <2>1. published' = {TaskCreated(t)}
    BY <1>2 DEF Create, CreateTask, Publish
  <2> QED
    BY <1>2, <2>1 DEF Create, Announced, TaskCreated
<1>3. ASSUME NEW t \in TaskIds, ChangeTask(t)
      PROVE  Len(log) < MaxEvents /\ \E e : Send(e) /\ e.task = t
  <2>1. \A e \in published' : e.task = t
    <3>1. CASE AddArtifact(t)
      BY <3>1 DEF AddArtifact, Publish, ArtifactAdded
    <3>2. ASSUME NEW new, UpdateStatus(t, new)
          PROVE  \A e \in published' : e.task = t
      BY <3>2 DEF UpdateStatus, UpdateStatuses, Publish, StatusChanged
    <3> QED
      BY <1>3, <3>1, <3>2 DEF ChangeTask
  <2> QED
    BY <1>3, <2>1 DEF ChangeTask, Announced
<1> QED
  BY <1>1, <1>2, <1>3 DEF SomethingHappens

(***************************************************************************)
(* An event joins the end of the log and moves no other (publish).         *)
(***************************************************************************)
LEMMA LogGrows ==
  ASSUME WorkerInvariant, SomethingHappens
  PROVE  /\ \E S : log' \in Seq(S)
         /\ Len(log') = Len(log) + 1 /\ Len(log') \in 0..MaxEvents
         /\ \A i \in 1..Len(log) : log'[i] = log[i]
         /\ \A i \in 1..Len(log') : IsTaskEvent(log'[i]) => log'[i].task \in TaskIds
<1>1. PICK S : log \in Seq(S)
  BY DEF WorkerInvariant
<1>2. PICK e : /\ log' = Append(log, e) /\ Len(log) < MaxEvents
               /\ IsTaskEvent(e) => e.task \in TaskIds
  BY WhatIsPublished DEF Send
<1>3. log \in Seq(S \cup {e})
  BY <1>1
<1>4. Append(log, e) \in Seq(S \cup {e}) /\ Len(Append(log, e)) = Len(log) + 1
  BY <1>3
<1>5. \A i \in 1..Len(log) : Append(log, e)[i] = log[i]
  BY <1>3
<1>6. Len(log) \in Nat /\ MaxEvents \in Nat
  BY <1>1, EventsAssumption
<1>7. Len(log) + 1 \in 0..MaxEvents
  BY <1>2, <1>6
<1>8. Append(log, e)[Len(log) + 1] = e
  BY <1>3
<1>9. \A i \in 1..Len(log) + 1 : i \in 1..Len(log) \/ i = Len(log) + 1
  BY <1>6
<1>10. \A i \in 1..Len(log') : IsTaskEvent(log'[i]) => log'[i].task \in TaskIds
  BY <1>2, <1>4, <1>5, <1>8, <1>9 DEF WorkerInvariant
<1> QED
  BY <1>2, <1>4, <1>5, <1>7, <1>10

(***************************************************************************)
(* The numbers of an invariant state, for the arithmetic of the proofs.    *)
(***************************************************************************)
LEMMA Numbers ==
  ASSUME WorkerInvariant
  PROVE  /\ Len(log) \in Nat /\ cursor[Worker] \in Nat /\ hand \in Nat
         /\ hand <= cursor[Worker] /\ cursor[Worker] <= Len(log) /\ Len(log) <= MaxEvents
         /\ MaxEvents \in Nat
<1>1. MaxEvents \in Nat
  BY EventsAssumption
<1>2. Len(log) \in 0..MaxEvents /\ cursor[Worker] \in 0..Len(log) /\ hand \in 0..cursor[Worker]
  BY DEF WorkerInvariant
<1>3. Len(log) \in Nat /\ Len(log) <= MaxEvents
  BY <1>1, <1>2
<1>4. cursor[Worker] \in Nat /\ cursor[Worker] <= Len(log)
  BY <1>2, <1>3
<1> QED
  BY <1>1, <1>2, <1>3, <1>4

(***************************************************************************)
(* An event that is published changes nothing for the worker, the store    *)
(* and the deliveries.                                                     *)
(***************************************************************************)
LEMMA EventStep ==
  ASSUME WebhookInvariant, SomethingHappens,
         UNCHANGED <<cursor, configs, hand, delivery, createdAt, deletedAt, skipped>>
  PROVE  WebhookInvariant'
<1>1. WorkerInvariant /\ StoreInvariant /\ DeliveryInvariant
  BY DEF WebhookInvariant
<1>2. /\ \E S : log' \in Seq(S)
      /\ Len(log') = Len(log) + 1 /\ Len(log') \in 0..MaxEvents
      /\ \A i \in 1..Len(log) : log'[i] = log[i]
      /\ \A i \in 1..Len(log') : IsTaskEvent(log'[i]) => log'[i].task \in TaskIds
  BY <1>1, LogGrows
<1>3. /\ Len(log) \in Nat /\ cursor[Worker] \in Nat /\ hand \in Nat
      /\ hand <= cursor[Worker] /\ cursor[Worker] <= Len(log)
  BY <1>1, Numbers
<1>4. 0..Len(log) \subseteq 0..Len(log')
  BY <1>2, <1>3
<1>5. WorkerInvariant'
  <2>1. hand # Nothing => hand \in 1..Len(log)
    BY <1>3 DEF Nothing
  <2> QED
    BY <1>1, <1>2, <1>3, <1>4, <2>1 DEF WorkerInvariant
<1>6. StoreInvariant'
  BY <1>1, <1>4 DEF StoreInvariant
<1>7. DeliveryInvariant'
  BY <1>1 DEF DeliveryInvariant, Started
<1>8. EveryEventIsPosted'
  <2>1. ASSUME NEW t \in TaskIds, NEW w \in configs[t],
               NEW i \in createdAt[w] + 1 .. cursor[Worker], IsAbout(log'[i], t)
        PROVE  Started(w, i) \/ i = hand \/ i \in skipped
    <3>1. createdAt[w] \in 0..Len(log)
      BY <1>1 DEF StoreInvariant
    <3>2. i \in 1..Len(log)
      BY <1>3, <3>1
    <3>3. log'[i] = log[i]
      BY <1>2, <3>2
    <3> QED
      BY <2>1, <3>3 DEF WebhookInvariant, EveryEventIsPosted
  <2> QED
    BY <2>1 DEF EveryEventIsPosted, Started
<1>9. NothingNewAfterDelete' /\ OutcomeIsHonest'
  BY DEF WebhookInvariant, NothingNewAfterDelete, OutcomeIsHonest, Started
<1> QED
  BY <1>5, <1>6, <1>7, <1>8, <1>9 DEF WebhookInvariant

(***************************************************************************)
(* A webhook is owed nothing of what came before it (create).              *)
(***************************************************************************)
LEMMA CreateStep ==
  ASSUME WebhookInvariant, NEW w \in Webhooks, NEW t \in TaskIds, CreateWebhook(w, t)
  PROVE  WebhookInvariant'
<1>1. WorkerInvariant /\ StoreInvariant /\ DeliveryInvariant
  BY DEF WebhookInvariant
<1>2. /\ Len(log) \in Nat /\ cursor[Worker] \in Nat /\ cursor[Worker] <= Len(log)
      /\ Len(log) \in 0..Len(log) /\ Len(log) # Never
  <2>1. Len(log) \in Nat /\ cursor[Worker] \in Nat /\ cursor[Worker] <= Len(log)
    BY <1>1, Numbers
  <2> QED
    BY <2>1 DEF Never
<1>3. /\ createdAt' = [createdAt EXCEPT ![w] = Len(log)] /\ createdAt[w] = Never
      /\ configs' = [configs EXCEPT ![t] = @ \cup {w}]
      /\ UNCHANGED <<log, cursor, hand, delivery, deletedAt, skipped>>
  BY DEF CreateWebhook, NothingHappens
<1>4. deletedAt[w] = Never
  BY <1>1, <1>3 DEF StoreInvariant
<1>5. WorkerInvariant' /\ DeliveryInvariant'
  BY <1>1, <1>3 DEF WorkerInvariant, DeliveryInvariant, Started
<1>6. StoreInvariant'
  BY <1>1, <1>2, <1>3, <1>4 DEF StoreInvariant
<1>7. EveryEventIsPosted'
  <2>1. ASSUME NEW u \in TaskIds, NEW x \in configs'[u],
               NEW i \in createdAt'[x] + 1 .. cursor[Worker], IsAbout(log[i], u)
        PROVE  Started(x, i) \/ i = hand \/ i \in skipped
    <3>1. CASE x = w
      <4>1. createdAt'[x] = Len(log)
        BY <1>1, <1>3, <3>1 DEF StoreInvariant
      <4> QED
        BY <1>2, <4>1
    <3>2. CASE x # w
      BY <1>1, <1>3, <2>1, <3>2 DEF WebhookInvariant, EveryEventIsPosted, StoreInvariant
    <3> QED
      BY <3>1, <3>2
  <2> QED
    BY <1>3, <2>1 DEF EveryEventIsPosted, Started
<1>8. NothingNewAfterDelete' /\ OutcomeIsHonest'
  BY <1>3 DEF WebhookInvariant, NothingNewAfterDelete, OutcomeIsHonest, Started
<1> QED
  BY <1>5, <1>6, <1>7, <1>8 DEF WebhookInvariant

(***************************************************************************)
(* What was started for a webhook lies before its deletion (delete).       *)
(***************************************************************************)
LEMMA DeleteStep ==
  ASSUME WebhookInvariant, NEW w \in Webhooks, NEW t \in TaskIds, DeleteWebhook(w, t)
  PROVE  WebhookInvariant'
<1>1. WorkerInvariant /\ StoreInvariant /\ DeliveryInvariant
  BY DEF WebhookInvariant
<1>2. /\ Len(log) \in Nat /\ cursor[Worker] \in Nat /\ cursor[Worker] <= Len(log)
      /\ Len(log) \in 0..Len(log)
  <2>1. Len(log) \in Nat /\ cursor[Worker] \in Nat /\ cursor[Worker] <= Len(log)
    BY <1>1, Numbers
  <2> QED
    BY <2>1
<1>3. /\ deletedAt' = [deletedAt EXCEPT ![w] = Len(log)] /\ w \in configs[t]
      /\ configs' = [configs EXCEPT ![t] = @ \ {w}]
      /\ UNCHANGED <<log, cursor, hand, delivery, createdAt, skipped>>
  BY DEF DeleteWebhook, NothingHappens
<1>4. createdAt[w] # Never
  BY <1>1, <1>3 DEF StoreInvariant
<1>5. WorkerInvariant' /\ DeliveryInvariant'
  BY <1>1, <1>3 DEF WorkerInvariant, DeliveryInvariant, Started
<1>6. \A u \in TaskIds : w \notin configs'[u]
  BY <1>1, <1>3 DEF StoreInvariant
<1>7. StoreInvariant'
  BY <1>1, <1>2, <1>3, <1>4, <1>6 DEF StoreInvariant
<1>8. EveryEventIsPosted'
  BY <1>1, <1>3 DEF WebhookInvariant, EveryEventIsPosted, StoreInvariant, Started
<1>9. NothingNewAfterDelete'
  <2>1. ASSUME NEW x \in Webhooks, NEW i \in Places, Started(x, i), deletedAt'[x] # Never
        PROVE  i <= deletedAt'[x]
    <3>1. CASE x = w
      <4>1. deletedAt'[x] = Len(log) /\ i <= cursor[Worker] /\ i \in Int
        BY <1>1, <1>3, <2>1, <3>1 DEF StoreInvariant, DeliveryInvariant, Places
      <4> QED
        BY <1>2, <4>1
    <3>2. CASE x # w
      BY <1>1, <1>3, <2>1, <3>2 DEF WebhookInvariant, NothingNewAfterDelete, StoreInvariant
    <3> QED
      BY <3>1, <3>2
  <2> QED
    BY <1>3, <2>1 DEF NothingNewAfterDelete, Started
<1>10. OutcomeIsHonest'
  BY <1>3 DEF WebhookInvariant, OutcomeIsHonest
<1> QED
  BY <1>5, <1>7, <1>8, <1>9, <1>10 DEF WebhookInvariant

(***************************************************************************)
(* The worker has the event it received in hand, if it is one of a task    *)
(* (recv, task_id_for_event).                                              *)
(***************************************************************************)
LEMMA TakeStep ==
  ASSUME WebhookInvariant, TakeEvent
  PROVE  WebhookInvariant'
<1>1. WorkerInvariant /\ StoreInvariant /\ DeliveryInvariant
  BY DEF WebhookInvariant
<1>2. /\ Len(log) \in Nat /\ cursor[Worker] \in Nat
  BY <1>1, Numbers
<1> DEFINE k == cursor[Worker] + 1
<1>3. /\ cursor' = [cursor EXCEPT ![Worker] = k] /\ cursor[Worker] < Len(log)
      /\ hand = 0 /\ hand' = IF IsTaskEvent(log[k]) THEN cursor'[Worker] ELSE 0
      /\ UNCHANGED <<log, configs, delivery, createdAt, deletedAt, skipped>>
  BY DEF TakeEvent, Recv, Waiting, NextEvent, NothingHappens, Nothing
<1>4. cursor'[Worker] = k /\ k \in 0..Len(log) /\ 0 \in 0..k /\ k \in 0..k /\ cursor' \in [Receivers -> Int]
  BY <1>1, <1>2, <1>3, WebhookAssumption DEF WorkerInvariant
<1>5. WorkerInvariant'
  BY <1>1, <1>3, <1>4 DEF WorkerInvariant, Nothing
<1>6. StoreInvariant'
  BY <1>1, <1>3 DEF StoreInvariant
<1>7. DeliveryInvariant'
  <2>1. ASSUME NEW w \in Webhooks, NEW i \in Places, Started(w, i)
        PROVE  i <= k
    <3>1. i <= cursor[Worker] /\ i \in Int
      BY <1>1, <2>1 DEF DeliveryInvariant, Places
    <3> QED
      BY <1>2, <3>1
  <2> QED
    BY <1>1, <1>3, <1>4, <2>1 DEF DeliveryInvariant, Started
<1>8. EveryEventIsPosted'
  <2>1. ASSUME NEW t \in TaskIds, NEW w \in configs[t],
               NEW i \in createdAt[w] + 1 .. k, IsAbout(log[i], t)
        PROVE  Started(w, i) \/ i = hand' \/ i \in skipped
    <3>1. createdAt[w] \in Int
      BY <1>1 DEF StoreInvariant, Never
    <3>2. CASE i = k
      BY <1>3, <1>4, <2>1, <3>2 DEF IsAbout
    <3>3. CASE i # k
      <4>1. i \in createdAt[w] + 1 .. cursor[Worker]
        BY <1>2, <3>1, <3>3
      <4>2. i # 0
        <5>1. createdAt[w] \in 0..Len(log)
          BY <1>1 DEF StoreInvariant
        <5> QED
          BY <1>2, <4>1, <5>1
      <4> QED
        BY <1>3, <2>1, <4>1, <4>2 DEF WebhookInvariant, EveryEventIsPosted
    <3> QED
      BY <3>2, <3>3
  <2> QED
    BY <1>3, <1>4, <2>1 DEF EveryEventIsPosted, Started
<1>9. NothingNewAfterDelete' /\ OutcomeIsHonest'
  BY <1>3 DEF WebhookInvariant, NothingNewAfterDelete, OutcomeIsHonest, Started
<1> QED
  BY <1>5, <1>6, <1>7, <1>8, <1>9 DEF WebhookInvariant

(***************************************************************************)
(* What a lag loses is counted as skipped (RecvError::Lagged).             *)
(***************************************************************************)
LEMMA SkipStep ==
  ASSUME WebhookInvariant, SkipLost
  PROVE  WebhookInvariant'
<1>1. WorkerInvariant /\ StoreInvariant /\ DeliveryInvariant
  BY DEF WebhookInvariant
<1>2. /\ Len(log) \in Nat /\ cursor[Worker] \in Nat /\ Capacity \in Nat
  BY <1>1, Numbers, BroadcastAssumption
<1> DEFINE k == Len(log) - Capacity
<1>3. /\ cursor' = [cursor EXCEPT ![Worker] = k] /\ Len(log) - cursor[Worker] > Capacity
      /\ hand = 0 /\ skipped' = skipped \cup (cursor[Worker] + 1 .. cursor'[Worker])
      /\ UNCHANGED <<log, configs, hand, delivery, createdAt, deletedAt>>
  BY DEF SkipLost, RecvLagged, Lagging, NothingHappens, Nothing
<1>4. /\ k \in Nat /\ cursor[Worker] <= k /\ k \in 0..Len(log) /\ 0 \in 0..k
      /\ cursor[Worker] + 1 .. k \subseteq Nat
  BY <1>2, <1>3
<1>5. cursor'[Worker] = k /\ cursor' \in [Receivers -> Int]
  BY <1>1, <1>3, <1>4, WebhookAssumption DEF WorkerInvariant
<1>6. WorkerInvariant'
  BY <1>1, <1>3, <1>4, <1>5 DEF WorkerInvariant, Nothing
<1>7. StoreInvariant'
  BY <1>1, <1>3 DEF StoreInvariant
<1>8. DeliveryInvariant'
  <2>1. ASSUME NEW w \in Webhooks, NEW i \in Places, Started(w, i)
        PROVE  i <= k
    <3>1. i <= cursor[Worker] /\ i \in Int
      BY <1>1, <2>1 DEF DeliveryInvariant, Places
    <3> QED
      BY <1>2, <1>4, <3>1
  <2> QED
    BY <1>1, <1>3, <1>5, <2>1 DEF DeliveryInvariant, Started
<1>9. EveryEventIsPosted'
  <2>1. ASSUME NEW t \in TaskIds, NEW w \in configs[t],
               NEW i \in createdAt[w] + 1 .. k, IsAbout(log[i], t)
        PROVE  Started(w, i) \/ i = hand \/ i \in skipped'
    <3>1. createdAt[w] \in Int /\ i \in Int
      BY <1>1 DEF StoreInvariant, Never
    <3>2. CASE i <= cursor[Worker]
      <4>1. i \in createdAt[w] + 1 .. cursor[Worker]
        BY <1>2, <3>1, <3>2
      <4> QED
        BY <1>3, <2>1, <4>1 DEF WebhookInvariant, EveryEventIsPosted
    <3>3. CASE ~(i <= cursor[Worker])
      <4>1. i \in cursor[Worker] + 1 .. k
        BY <1>2, <1>4, <3>1, <3>3
      <4> QED
        BY <1>3, <1>5, <4>1
    <3> QED
      BY <3>2, <3>3
  <2> QED
    BY <1>3, <1>5, <2>1 DEF EveryEventIsPosted, Started
<1>10. NothingNewAfterDelete' /\ OutcomeIsHonest'
  BY <1>3 DEF WebhookInvariant, NothingNewAfterDelete, OutcomeIsHonest, Started
<1> QED
  BY <1>6, <1>7, <1>8, <1>9, <1>10 DEF WebhookInvariant

(***************************************************************************)
(* Each webhook that is there gets a delivery of the event in hand, and no *)
(* other does (store.list, the spawns).                                    *)
(***************************************************************************)
LEMMA DispatchStep ==
  ASSUME WebhookInvariant, Dispatch
  PROVE  WebhookInvariant'
<1>1. WorkerInvariant /\ StoreInvariant /\ DeliveryInvariant
  BY DEF WebhookInvariant
<1>2. hand \in Places /\ hand <= cursor[Worker] /\ 0 \in 0..cursor[Worker]
  <2>1. hand # 0
    BY DEF Dispatch, Nothing
  <2> QED
    BY <1>1, <2>1, Numbers DEF Places
<1> DEFINE targets == configs[log[hand].task]
           begun   == [at |-> "trying", attempt |-> 0, received |-> FALSE]
<1>3. /\ delivery' = [w \in Webhooks |-> IF w \in targets
                                         THEN [delivery[w] EXCEPT ![hand] = begun] ELSE delivery[w]]
      /\ hand' = 0
      /\ UNCHANGED <<log, cursor, configs, createdAt, deletedAt, skipped>>
  BY DEF Dispatch, Start, NothingHappens, Nothing
<1>4. begun \in Delivery /\ begun # NoDelivery /\ begun.at = "trying"
  <2>1. 0 \in 0..MaxRetries
    BY WebhookAssumption
  <2>2. begun.at # NoDelivery.at
    BY DEF NoDelivery
  <2> QED
    BY <2>1, <2>2 DEF Delivery
<1>5. ASSUME NEW w \in Webhooks, NEW i \in Places
      PROVE  \/ delivery'[w][i] = delivery[w][i]
             \/ w \in targets /\ i = hand /\ delivery'[w][i] = begun
  BY <1>1, <1>3 DEF DeliveryInvariant
<1>6. \A w \in Webhooks : w \in targets => delivery'[w][hand] = begun
  BY <1>1, <1>2, <1>3 DEF DeliveryInvariant
<1>7. WorkerInvariant' /\ StoreInvariant'
  BY <1>1, <1>2, <1>3 DEF WorkerInvariant, StoreInvariant, Nothing
<1>8. DeliveryInvariant'
  <2>1. delivery' \in [Webhooks -> [Places -> Delivery \cup {NoDelivery}]]
    BY <1>1, <1>3, <1>4 DEF DeliveryInvariant
  <2>2. \A w \in Webhooks, i \in Places : Started(w, i)' => i <= cursor'[Worker]
    BY <1>1, <1>2, <1>3, <1>5 DEF DeliveryInvariant, Started
  <2> QED
    BY <2>1, <2>2 DEF DeliveryInvariant
<1>9. NothingNewAfterDelete'
  <2>1. ASSUME NEW w \in Webhooks, w \in targets
        PROVE  deletedAt[w] = Never
    <3>1. hand \in 1..Len(log) /\ IsTaskEvent(log[hand])
      <4>1. hand # Nothing
        BY DEF Dispatch
      <4> QED
        BY <1>1, <4>1, Numbers DEF WorkerInvariant, Nothing
    <3>2. log[hand].task \in TaskIds
      BY <1>1, <3>1 DEF WorkerInvariant
    <3> QED
      BY <1>1, <2>1, <3>2 DEF StoreInvariant
  <2> QED
    BY <1>3, <1>5, <2>1 DEF WebhookInvariant, NothingNewAfterDelete, Started
<1>10. EveryEventIsPosted'
  <2>1. ASSUME NEW t \in TaskIds, NEW w \in configs[t],
               NEW i \in createdAt[w] + 1 .. cursor[Worker], IsAbout(log[i], t)
        PROVE  Started(w, i)' \/ i \in skipped
    <3>1. w \in Webhooks /\ i \in Places
      <4>1. w \in Webhooks /\ createdAt[w] \in 0..Len(log)
        BY <1>1 DEF StoreInvariant
      <4> QED
        BY <1>1, <4>1, Numbers DEF Places
    <3>2. CASE i = hand
      BY <1>4, <1>6, <2>1, <3>1, <3>2 DEF IsAbout, Started
    <3>3. CASE Started(w, i)
      BY <1>4, <1>5, <3>1, <3>3 DEF Started
    <3> QED
      BY <2>1, <3>2, <3>3 DEF WebhookInvariant, EveryEventIsPosted
  <2> QED
    BY <1>3, <2>1 DEF EveryEventIsPosted
<1>11. OutcomeIsHonest'
  BY <1>4, <1>5 DEF WebhookInvariant, OutcomeIsHonest
<1> QED
  BY <1>7, <1>8, <1>9, <1>10, <1>11 DEF WebhookInvariant

(***************************************************************************)
(* A post moves its delivery on, to an end only as it is told              *)
(* (deliver_once, deliver_with_retries).                                   *)
(***************************************************************************)
LEMMA PostStep ==
  ASSUME WebhookInvariant, NEW w \in Webhooks, NEW i \in Places, Post(w, i)
  PROVE  WebhookInvariant'
<1> DEFINE d == delivery[w][i]
<1>1. WorkerInvariant /\ StoreInvariant /\ DeliveryInvariant
  BY DEF WebhookInvariant
<1>2. d \in Delivery /\ d.at = "trying" /\ d # NoDelivery
  BY <1>1 DEF Post, DeliveryInvariant, NoDelivery
<1>3. PICK reached \in BOOLEAN, success \in BOOLEAN :
        LET e == [d EXCEPT !.received = @ \/ reached]
        IN  /\ success => reached
            /\ delivery' = [delivery EXCEPT ![w][i] =
                 IF success THEN [e EXCEPT !.at = "delivered"]
                 ELSE IF d.attempt < MaxRetries THEN [e EXCEPT !.attempt = @ + 1]
                 ELSE [e EXCEPT !.at = "failed"]]
  BY DEF Post
<1>4. UNCHANGED <<log, cursor, configs, hand, createdAt, deletedAt, skipped>>
  BY DEF Post, NothingHappens
<1> DEFINE e == [d EXCEPT !.received = @ \/ reached]
           f == IF success THEN [e EXCEPT !.at = "delivered"]
                ELSE IF d.attempt < MaxRetries THEN [e EXCEPT !.attempt = @ + 1]
                ELSE [e EXCEPT !.at = "failed"]
<1>5. delivery' = [delivery EXCEPT ![w][i] = f]
  BY <1>3
<1>6. /\ e \in Delivery /\ e.at = "trying" /\ e.attempt = d.attempt
      /\ reached => e.received
      /\ d.attempt \in 0..MaxRetries /\ MaxRetries \in Nat
  BY <1>2, WebhookAssumption DEF Delivery
<1>7. /\ f \in Delivery
      /\ f.at = "delivered" => f.received
      /\ f.at = "failed" => f.attempt = MaxRetries
  <2>1. CASE success
    BY <1>3, <1>6, <2>1 DEF Delivery
  <2>2. CASE ~success /\ d.attempt < MaxRetries
    <3>1. d.attempt + 1 \in 0..MaxRetries
      BY <1>6, <2>2
    <3>2. f = [e EXCEPT !.attempt = d.attempt + 1]
      BY <1>6, <2>2
    <3> QED
      BY <1>6, <3>1, <3>2 DEF Delivery
  <2>3. CASE ~success /\ ~(d.attempt < MaxRetries)
    <3>1. d.attempt = MaxRetries
      BY <1>6, <2>3
    <3> QED
      BY <1>6, <2>3, <3>1 DEF Delivery
  <2> QED
    BY <2>1, <2>2, <2>3
<1> HIDE DEF e, f
<1>8. ASSUME NEW x \in Webhooks, NEW j \in Places
      PROVE  delivery'[x][j] = IF x = w /\ j = i THEN f ELSE delivery[x][j]
  BY <1>1, <1>5 DEF DeliveryInvariant
<1>9. WorkerInvariant' /\ StoreInvariant'
  BY <1>1, <1>4 DEF WorkerInvariant, StoreInvariant
<1>10. ASSUME NEW x \in Webhooks, NEW j \in Places
       PROVE  Started(x, j)' => Started(x, j)
  BY <1>2, <1>8 DEF Started
<1>11. ASSUME NEW x \in Webhooks, NEW j \in Places, Started(x, j)
       PROVE  Started(x, j)'
  <2>1. f # NoDelivery
    BY <1>7 DEF Delivery, NoDelivery
  <2> QED
    BY <1>8, <1>11, <2>1 DEF Started
<1>12. DeliveryInvariant'
  <2>1. delivery' \in [Webhooks -> [Places -> Delivery \cup {NoDelivery}]]
    BY <1>1, <1>5, <1>7 DEF DeliveryInvariant
  <2> QED
    BY <1>1, <1>4, <1>10, <2>1 DEF DeliveryInvariant
<1>13. NothingNewAfterDelete'
  BY <1>4, <1>10 DEF WebhookInvariant, NothingNewAfterDelete
<1>14. EveryEventIsPosted'
  <2>1. ASSUME NEW t \in TaskIds, NEW x \in configs[t],
               NEW j \in createdAt[x] + 1 .. cursor[Worker], IsAbout(log[j], t)
        PROVE  Started(x, j)' \/ j = hand \/ j \in skipped
    <3>1. x \in Webhooks /\ j \in Places
      <4>1. x \in Webhooks /\ createdAt[x] \in 0..Len(log)
        BY <1>1 DEF StoreInvariant
      <4> QED
        BY <1>1, <4>1, Numbers DEF Places
    <3> QED
      BY <1>11, <2>1, <3>1 DEF WebhookInvariant, EveryEventIsPosted
  <2> QED
    BY <1>4, <2>1 DEF EveryEventIsPosted
<1>15. OutcomeIsHonest'
  BY <1>7, <1>8 DEF WebhookInvariant, OutcomeIsHonest
<1> QED
  BY <1>9, <1>12, <1>13, <1>14, <1>15 DEF WebhookInvariant

(***************************************************************************)
(* The daemon starts with a worker that has seen nothing.                  *)
(***************************************************************************)
LEMMA InitWebhooks == Init => WebhookInvariant
<1> SUFFICES ASSUME Init
             PROVE  WebhookInvariant
  OBVIOUS
<1>1. log = <<>> /\ Len(log) = 0 /\ log \in Seq({}) /\ 0 \in 0..0 /\ 0 \in 0..MaxEvents
  BY EventsAssumption DEF Init
<1>2. cursor \in [Receivers -> Int] /\ cursor[Worker] = 0
  BY WebhookAssumption DEF Init, Unsubscribed
<1>3. WorkerInvariant
  BY <1>1, <1>2 DEF Init, WorkerInvariant, Nothing
<1>4. StoreInvariant
  BY DEF Init, StoreInvariant
<1>5. \A w \in Webhooks, i \in Places : delivery[w][i] = NoDelivery
  BY DEF Init
<1>6. DeliveryInvariant
  BY <1>5 DEF Init, DeliveryInvariant, Started
<1>7. NothingNewAfterDelete /\ OutcomeIsHonest
  BY <1>5 DEF NothingNewAfterDelete, OutcomeIsHonest, Started, NoDelivery
<1>8. EveryEventIsPosted
  BY DEF Init, EveryEventIsPosted
<1> QED
  BY <1>3, <1>4, <1>6, <1>7, <1>8 DEF WebhookInvariant

(***************************************************************************)
(* Every step of the publishers, the store, the worker and the deliveries  *)
(* keeps the invariant.                                                    *)
(***************************************************************************)
LEMMA WebhookStep ==
  ASSUME WebhookInvariant, [Next]_vars
  PROVE  WebhookInvariant'
<1>1. CASE UNCHANGED vars
  BY <1>1 DEF WebhookInvariant, WorkerInvariant, StoreInvariant, DeliveryInvariant,
     NothingNewAfterDelete, EveryEventIsPosted, OutcomeIsHonest, Started, vars, eventVars
<1>2. CASE /\ SomethingHappens
           /\ UNCHANGED <<cursor, configs, hand, delivery, createdAt, deletedAt, skipped>>
  BY <1>2, EventStep
<1>3. CASE \E w \in Webhooks, t \in TaskIds : CreateWebhook(w, t) \/ DeleteWebhook(w, t)
  BY <1>3, CreateStep, DeleteStep
<1>4. CASE WorkerStep
  BY <1>4, TakeStep, SkipStep, DispatchStep DEF WorkerStep
<1>5. CASE \E w \in Webhooks, i \in Places : Post(w, i)
  BY <1>5, PostStep
<1> QED
  BY <1>1, <1>2, <1>3, <1>4, <1>5 DEF Next

(***************************************************************************)
(* The invariant holds in every reachable state.                           *)
(***************************************************************************)
LEMMA WebhookInvariantHolds == Spec => []WebhookInvariant
<1>1. Init => WebhookInvariant
  BY InitWebhooks
<1>2. WebhookInvariant /\ [Next]_vars => WebhookInvariant'
  BY WebhookStep
<1> QED
  BY <1>1, <1>2, PTL DEF Spec

(***************************************************************************)
(* No delivery is about an event from after the deletion of its webhook,   *)
(* however the worker, the callers and the deliveries interleave           *)
(* (spawn_delivery_worker, delete).                                        *)
(***************************************************************************)
THEOREM NothingIsPostedAfterDelete == Spec => []NothingNewAfterDelete
<1>1. WebhookInvariant => NothingNewAfterDelete
  BY DEF WebhookInvariant
<1> QED
  BY <1>1, WebhookInvariantHolds, PTL

(***************************************************************************)
(* The worker passes over no event a webhook is owed, but for what a lag   *)
(* loses (spawn_delivery_worker).                                          *)
(***************************************************************************)
THEOREM NoEventIsPassedOver == Spec => []EveryEventIsPosted
<1>1. WebhookInvariant => EveryEventIsPosted
  BY DEF WebhookInvariant
<1> QED
  BY <1>1, WebhookInvariantHolds, PTL

(***************************************************************************)
(* A delivery ends as it went, for every number of retries                 *)
(* (deliver_with_retries).                                                 *)
(***************************************************************************)
THEOREM OutcomesAreHonest == Spec => []OutcomeIsHonest
<1>1. WebhookInvariant => OutcomeIsHonest
  BY DEF WebhookInvariant
<1> QED
  BY <1>1, WebhookInvariantHolds, PTL

=============================================================================
