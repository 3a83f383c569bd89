---------------------------- MODULE WebhookStore ----------------------------
(***************************************************************************)
(* PushNotificationStore (core/push_notifications.rs): the webhooks of     *)
(* each task, in the order they were created.  An entry of the map is      *)
(* never an empty list.  URLs, tokens and credentials are data; Urls are   *)
(* the ones that parse and are http or https.                              *)
(***************************************************************************)
EXTENDS Integers, Sequences, FiniteSets, Functions

CONSTANTS WebhookTasks,    \* tasks a webhook may be for
          WebhookIds,      \* the ids create may mint
          Urls

VARIABLE hooks             \* AHashMap<TaskId, Vec<PushNotificationConfig>>

WebhookConfig == [id : WebhookIds, task : WebhookTasks, url : Urls]

\* list: no entry and no webhook look the same.
Hooks(t) == IF t \in DOMAIN hooks THEN hooks[t] ELSE <<>>

\* get
Hook(t, w) == {c \in Range(Hooks(t)) : c.id = w}

\* The webhooks, each by its task and its place in the list of the task.
Places == UNION {{t} \X DOMAIN hooks[t] : t \in DOMAIN hooks}

\* An order has the places of a list one right after the other.
ListByList(order) ==
  \A j, k \in DOMAIN order : j < k /\ order[j][1] = order[k][1] =>
    order[j][2] < order[k][2] /\ \A m \in j .. k : order[m][1] = order[j][1]

\* all: the lists one after the other, in the order the hash map has them.
AllHooks ==
  {[k \in DOMAIN order |-> hooks[order[k][1]][order[k][2]]] :
     order \in {o \in Bijection(1 .. Cardinality(Places), Places) : ListByList(o)}}

Rank(i, places) == Cardinality({j \in places : j <= i})

\* What a sequence keeps of its places, in their order.
Kept(s, places) ==
  [k \in 1 .. Cardinality(places) |-> s[CHOOSE i \in places : Rank(i, places) = k]]

WebhookTypeOK ==
  /\ DOMAIN hooks \subseteq WebhookTasks
  /\ \A t \in DOMAIN hooks : hooks[t] \in Seq(WebhookConfig) \ {<<>>}

WebhookInit == hooks = [t \in {} |-> <<>>]

-----------------------------------------------------------------------------

\* create, with a fresh id, for any task: the caller has looked it up or not.
CreateHook(t, w, url) ==
  /\ \A u \in DOMAIN hooks : Hook(u, w) = {}
  /\ hooks' = [u \in DOMAIN hooks \cup {t} |->
       IF u = t THEN Append(Hooks(t), [id |-> w, task |-> t, url |-> url]) ELSE hooks[u]]

\* Mutant: the entry stays.
DeleteHookKeepsEntry(t, w) ==
  /\ Hook(t, w) # {}
  /\ hooks' = [hooks EXCEPT ![t] = Kept(@, {i \in DOMAIN @ : @[i].id # w})]

\* delete: the entry goes with its last webhook.
DeleteHook(t, w) ==
  /\ Hook(t, w) # {}
  /\ LET kept == Kept(hooks[t], {i \in DOMAIN hooks[t] : hooks[t][i].id # w})
     IN  hooks' = [u \in DOMAIN hooks \ {x \in {t} : kept = <<>>} |->
                     IF u = t THEN kept ELSE hooks[u]]

\* Mutant: of the webhooks of a task the last one replaces the others.
RestoreHooksLast(saved) ==
  hooks' = [t \in {saved[i].task : i \in DOMAIN saved} |->
              LET own == Kept(saved, {i \in DOMAIN saved : saved[i].task = t})
              IN  <<own[Len(own)]>>]

\* restore: each saved webhook goes to the end of its task's list.
RestoreHooks(saved) ==
  hooks' = [t \in {saved[i].task : i \in DOMAIN saved} |->
              Kept(saved, {i \in DOMAIN saved : saved[i].task = t})]

=============================================================================
