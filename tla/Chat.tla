-------------------------------- MODULE Chat --------------------------------
(***************************************************************************)
(* ChatManager (core/chat.rs): the conversations and, in a map of their    *)
(* own, the messages of each.  Names, contents and times are data; a       *)
(* message is its sender and its id.  Each operator with a primed variable *)
(* is one method, run under the write lock of the manager; a call that     *)
(* returns an error is a step that is not enabled.  Participants are not   *)
(* compared with the registry of agents.                                   *)
(***************************************************************************)
EXTENDS Naturals, Sequences, Identifiers, Bus

CONSTANTS ConversationIds,   \* the ids create_conversation may mint
          MessageIds         \* the ids send_message may mint

VARIABLES conversations,     \* HashMap<ConversationId, Conversation>: participants
          messages           \* HashMap<ConversationId, Vec<ChatMessage>>

ChatMessage == [id : MessageIds, sender : AgentIds]

ChatTypeOK ==
  /\ DOMAIN conversations \subseteq ConversationIds
  /\ conversations \in [DOMAIN conversations -> (SUBSET AgentIds) \ {{}}]
  /\ DOMAIN messages \subseteq ConversationIds
  /\ messages \in [DOMAIN messages -> Seq(ChatMessage)]

\* The map that has no key.
EmptyMap == [c \in {} |-> {}]

ChatInit == conversations = EmptyMap /\ messages = EmptyMap

With(map, c, value) == [d \in DOMAIN map \cup {c} |-> IF d = c THEN value ELSE map[d]]

\* The messages of all conversations.
Said == UNION {{messages[c][i] : i \in DOMAIN messages[c]} : c \in DOMAIN messages}

-----------------------------------------------------------------------------

\* create_conversation with a fresh id; the list of participants becomes a set.
CreateConversation(c, participants) ==
  /\ c \notin DOMAIN conversations
  /\ participants # {}
  /\ conversations' = With(conversations, c, participants)
  /\ messages' = With(messages, c, <<>>)
  /\ Silent

\* Mutant: the sender is not looked for among the participants.
SendMessageAnyone(c, sender, m) ==
  /\ c \in DOMAIN conversations
  /\ m \notin {said.id : said \in Said}
  /\ messages' = [messages EXCEPT ![c] = Append(@, [id |-> m, sender |-> sender])]
  /\ Publish({[type |-> "NewMessage", conversation |-> c, message |-> m]})
  /\ UNCHANGED conversations

\* send_message with a fresh id: only into a conversation one takes part in.
SendMessage(c, sender, m) ==
  /\ c \in DOMAIN conversations
  /\ sender \in conversations[c]
  /\ m \notin {said.id : said \in Said}
  /\ messages' = [messages EXCEPT ![c] = Append(@, [id |-> m, sender |-> sender])]
  /\ Publish({[type |-> "NewMessage", conversation |-> c, message |-> m]})
  /\ UNCHANGED conversations

\* What a snapshot takes: the conversations, and the messages of each of them.
SavedChat == [conversations |-> conversations,
              messages |-> [c \in DOMAIN conversations \cap DOMAIN messages |-> messages[c]]]

\* restore: both maps as they were saved.
RestoreChat(saved) ==
  /\ conversations' = saved.conversations
  /\ messages' = saved.messages

-----------------------------------------------------------------------------

(***************************************************************************)
(* Conversations and messages stay one: each conversation has its list of  *)
(* messages and no list is without its conversation, so get_messages never *)
(* fails for a conversation list_conversations shows; every message is by  *)
(* a participant and in one place only (chat.rs send_message and restore,  *)
(* state.rs to_snapshot, which saves the two maps apart).                  *)
(***************************************************************************)
ConversationsAreWhole ==
  /\ DOMAIN messages = DOMAIN conversations
  /\ \A c \in DOMAIN messages : \A i \in DOMAIN messages[c] :
       /\ messages[c][i].sender \in conversations[c]
       /\ \A d \in DOMAIN messages : \A j \in DOMAIN messages[d] :
            messages[c][i].id = messages[d][j].id => c = d /\ i = j

=============================================================================
