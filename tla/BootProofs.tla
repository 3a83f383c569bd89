----------------------------- MODULE BootProofs -----------------------------
(***************************************************************************)
(* Proofs about Boot, for every number of starts, rotations, tokens and    *)
(* requests, and every set of tools, conversations, messages and webhooks. *)
(***************************************************************************)
EXTENDS Boot, FunctionTheorems, FiniteSetTheorems, TLAPS

-----------------------------------------------------------------------------
(* What a snapshot is made of *)

\* A save that is under way has a place and an image.
SavesTyped ==
  /\ save = [w \in Writers |-> save[w]]
  /\ \A w \in Writers :
       \/ save[w] = Nothing
       \/ /\ save[w].at \in {"taken"} \cup Open
          /\ save[w] = [at |-> save[w].at, image |-> save[w].image]

\* The images in the file and on their way to it.
Images ==
  {save[w].image : w \in {v \in Writers : save[v] # Nothing}}
    \cup (IF disk.at = "saved" THEN {disk.image} ELSE {})

\* What to_snapshot may return at this moment.
Snapshots == {Snapshot(chosen) : chosen \in AllHooks}

(***************************************************************************)
(* A file that is torn is told from none, and a save from no save.         *)
(***************************************************************************)
LEMMA KindsDiffer ==
  /\ Torn # Nothing /\ Torn.at = "torn" /\ Nothing.at = "nothing"
  /\ \A place \in {"taken"} \cup Open : \A image : [at |-> place, image |-> image] # Nothing
<1>1. Torn.at = "torn" /\ Nothing.at = "nothing"
  BY DEF Torn, Nothing
<1>2. ASSUME NEW place \in {"taken"} \cup Open, NEW image
      PROVE  [at |-> place, image |-> image] # Nothing
  <2>1. [at |-> place, image |-> image].at = place /\ place # "nothing"
    BY DEF Open
  <2> QED
    BY <1>1, <2>1
<1> QED
  BY <1>1, <1>2

(***************************************************************************)
(* A snapshot that is taken is a new image (to_snapshot).                  *)
(***************************************************************************)
LEMMA TakesAnImage ==
  ASSUME SavesTyped, NEW w \in Writers, NEW image, Takes(w, image)
  PROVE  /\ SavesTyped' /\ Images' \subseteq Images \cup {image}
         /\ disk' = disk /\ save'[w] = [at |-> "taken", image |-> image]
         /\ \A v \in Writers \ {w} : save'[v] = save[v]
<1>1. /\ save'[w] = [at |-> "taken", image |-> image]
      /\ \A v \in Writers \ {w} : save'[v] = save[v]
      /\ save' = [v \in Writers |-> save'[v]]
      /\ disk' = disk
  BY DEF Takes, SavesTyped
<1>2. save'[w].at = "taken" /\ save'[w].image = image
  BY <1>1
<1>3. SavesTyped'
  <2>1. ASSUME NEW v \in Writers
        PROVE  \/ save'[v] = Nothing
               \/ /\ save'[v].at \in {"taken"} \cup Open
                  /\ save'[v] = [at |-> save'[v].at, image |-> save'[v].image]
    BY <1>1, <1>2 DEF SavesTyped
  <2> QED
    BY <1>1, <2>1 DEF SavesTyped
<1>4. \A v \in Writers : save'[v] # Nothing => save'[v].image = image \/ save'[v] = save[v]
  BY <1>1, <1>2
<1> QED
  BY <1>1, <1>3, <1>4 DEF Images

(***************************************************************************)
(* A save that opens the file tears it and keeps its image; if the other   *)
(* writer has it open, both share it (save_snapshot).                      *)
(***************************************************************************)
LEMMA OpensTheFile ==
  ASSUME SavesTyped, NEW w \in Writers, Opens(w)
  PROVE  /\ SavesTyped' /\ Images' \subseteq Images /\ disk' = Torn
         /\ save'[w].at \in Open
         /\ \A v \in Writers :
              /\ save'[v] = Nothing <=> save[v] = Nothing
              /\ save[v] # Nothing => save'[v].image = save[v].image
              /\ save[v].at \in Open => save'[v].at \in Open
         /\ save'[w].at = "writing" =>
              save[Other(w)].at \notin Open /\ save'[Other(w)] = save[Other(w)]
<1> DEFINE shared == save[Other(w)].at \in Open
<1>1. save[w].at = "taken" /\ disk' = Torn /\ save[w] # Nothing
  BY KindsDiffer DEF Opens
<1>2. save' = [v \in Writers |-> IF shared THEN [save[v] EXCEPT !.at = "shared"]
                                 ELSE IF v = w THEN [save[v] EXCEPT !.at = "writing"] ELSE save[v]]
  BY DEF Opens
<1>3. shared => save[Other(w)] # Nothing
  BY KindsDiffer DEF Open
<1>4. \A v \in Writers : v = w \/ v = Other(w)
  BY DEF Writers, Other
<1>5. Other(w) \in Writers /\ Other(w) # w
  BY DEF Writers, Other
<1>6. ASSUME NEW v \in Writers, NEW place \in Open, save[v] # Nothing,
             save'[v] = [save[v] EXCEPT !.at = place]
      PROVE  /\ save'[v] = [at |-> place, image |-> save[v].image] /\ save'[v] # Nothing
             /\ save'[v].at = place /\ save'[v].image = save[v].image
  <2>1. save[v] = [at |-> save[v].at, image |-> save[v].image]
    BY <1>6 DEF SavesTyped
  <2>2. save'[v] = [at |-> place, image |-> save[v].image]
    BY <1>6, <2>1
  <2> QED
    BY <2>2, KindsDiffer
<1>7. CASE shared
  <2>1. \A v \in Writers : save[v] # Nothing /\ save'[v] = [save[v] EXCEPT !.at = "shared"]
    BY <1>1, <1>2, <1>3, <1>4, <1>7
  <2>2. \A v \in Writers : /\ save'[v] = [at |-> "shared", image |-> save[v].image]
                           /\ save'[v].at = "shared" /\ save'[v].image = save[v].image
                           /\ save'[v] # Nothing
    BY <1>6, <2>1 DEF Open
  <2>3. SavesTyped'
    BY <1>2, <2>2 DEF SavesTyped, Open
  <2>4. Images' \subseteq Images
    <3>1. disk'.at # "saved"
      BY <1>1, KindsDiffer
    <3>2. \A v \in Writers : save[v] # Nothing /\ save'[v].image = save[v].image
      BY <2>1, <2>2
    <3> QED
      BY <3>1, <3>2 DEF Images
  <2> QED
    BY <1>1, <2>1, <2>2, <2>3, <2>4 DEF Open
<1>8. CASE ~shared
  <2>1. save'[w] = [save[w] EXCEPT !.at = "writing"] /\ save'[Other(w)] = save[Other(w)]
    BY <1>2, <1>5, <1>8
  <2>2. /\ save'[w] = [at |-> "writing", image |-> save[w].image]
        /\ save'[w].at = "writing" /\ save'[w].image = save[w].image /\ save'[w] # Nothing
    BY <1>1, <1>6, <2>1 DEF Open
  <2>3. SavesTyped'
    <3>1. save' = [v \in Writers |-> save'[v]]
      BY <1>2
    <3>2. ASSUME NEW v \in Writers
          PROVE  \/ save'[v] = Nothing
                 \/ /\ save'[v].at \in {"taken"} \cup Open
                    /\ save'[v] = [at |-> save'[v].at, image |-> save'[v].image]
      BY <1>4, <2>1, <2>2 DEF SavesTyped, Open
    <3> QED
      BY <3>1, <3>2 DEF SavesTyped
  <2>4. \A v \in Writers : save'[v] # Nothing => save[v] # Nothing /\ save'[v].image = save[v].image
    BY <1>1, <1>4, <2>1, <2>2
  <2>5. Images' \subseteq Images
    BY <1>1, <2>4, KindsDiffer DEF Images
  <2> QED
    BY <1>1, <1>4, <1>8, <2>1, <2>2, <2>3, <2>5 DEF Open
<1> QED
  BY <1>7, <1>8

(***************************************************************************)
(* A save that is over leaves its image, a torn file or the file as it was *)
(* (save_snapshot).                                                        *)
(***************************************************************************)
LEMMA ClosesTheFile ==
  ASSUME SavesTyped, NEW w \in Writers, Completes(w) \/ Fails(w)
  PROVE  /\ SavesTyped' /\ Images' \subseteq Images
         /\ save[w] # Nothing /\ save'[w] = Nothing
         /\ \A v \in Writers \ {w} : save'[v] = save[v]
         /\ \/ disk' \in {disk, Torn}
            \/ disk' = [at |-> "saved", image |-> save[w].image]
<1>1. save[w] # Nothing /\ save' = [save EXCEPT ![w] = Nothing]
  BY KindsDiffer DEF Completes, Fails, Open
<1>2. \/ disk' \in {disk, Torn}
      \/ disk' = [at |-> "saved", image |-> save[w].image]
  BY DEF Completes, Fails, Written
<1>3. /\ save'[w] = Nothing /\ \A v \in Writers \ {w} : save'[v] = save[v]
      /\ save' = [v \in Writers |-> save'[v]]
  BY <1>1 DEF SavesTyped
<1>4. SavesTyped'
  BY <1>3 DEF SavesTyped
<1>5. disk'.at = "saved" => (disk' = disk \/ disk'.image = save[w].image)
  BY <1>2, KindsDiffer
<1>6. Images' \subseteq Images
  BY <1>1, <1>3, <1>5 DEF Images
<1> QED
  BY <1>1, <1>2, <1>3, <1>4, <1>6

(***************************************************************************)
(* The file holds what it held, nothing readable, or an image that was on  *)
(* its way to it; and an image is taken of the state of the moment         *)
(* (save_snapshot, to_snapshot).                                           *)
(***************************************************************************)
LEMMA WhatIsSaved ==
  ASSUME SavesTyped, [Next]_vars
  PROVE  SavesTyped' /\ Images' \subseteq Images \cup Snapshots
<1>1. CASE UNCHANGED fileVars
  BY <1>1 DEF fileVars, SavesTyped, Images
<1>2. CASE save' = NoSaves /\ disk' = disk
  BY <1>2 DEF SavesTyped, Images, NoSaves
<1>3. CASE TakeSnapshot \/ Stop
  <2>1. PICK w \in Writers, chosen \in AllHooks : Takes(w, Snapshot(chosen))
    BY <1>3 DEF TakeSnapshot, Stop, Writers
  <2> QED
    BY <2>1, TakesAnImage DEF Snapshots
<1>4. ASSUME NEW w \in Writers, BeginSave(w) \/ EndSave(w) \/ FailSave(w)
      PROVE  SavesTyped' /\ Images' \subseteq Images
  BY <1>4, OpensTheFile, ClosesTheFile DEF BeginSave, EndSave, FailSave
<1>5. CASE Next
  BY <1>1, <1>2, <1>3, <1>4, <1>5
  DEF Next, Start, Work, Bind, LoadToken, WritePid, LoadKey, Refuse, FailStart, LoadSnapshot,
      RegisterBuiltin, StartServing, Request, Install, ReloadToken, Rotate, Exit, Crash, HangUp, Die,
      DiskSame
<1> QED
  BY <1>1, <1>5 DEF vars

(***************************************************************************)
(* Tools, conversations and webhooks change when a snapshot is loaded, a   *)
(* built-in tool is registered or a request is carried out.                *)
(***************************************************************************)
LEMMA WhoChangesServices ==
  ASSUME [Next]_vars
  PROVE  UNCHANGED serviceVars \/ LoadSnapshot \/ RegisterBuiltin \/ Request
BY DEF Next, Start, Work, Bind, LoadToken, WritePid, LoadKey, Refuse, FailStart, StartServing,
       Install, ReloadToken, Rotate, TakeSnapshot, BeginSave, EndSave, FailSave, Stop, Exit, Crash,
       HangUp, Die, ServicesSame, vars

(***************************************************************************)
(* There is no snapshot to begin with.                                     *)
(***************************************************************************)
LEMMA NothingSaved == Init => SavesTyped /\ Images = {}
BY KindsDiffer DEF Init, SavesTyped, Images, NoSaves

(***************************************************************************)
(* Saves have their shape in every reachable state.                        *)
(***************************************************************************)
LEMMA SavesStayTyped == Spec => []SavesTyped
<1>1. Init => SavesTyped
  BY NothingSaved
<1>2. SavesTyped /\ [Next]_vars => SavesTyped'
  BY WhatIsSaved
<1> QED
  BY <1>1, <1>2, PTL DEF Spec

-----------------------------------------------------------------------------
(* The tools *)

\* Tools of which no two have one name: what restore relies on.
Distinct(saved) ==
  /\ saved \in [ToolIds -> ToolInfo \cup {NoInfo, Gone}]
  /\ \A j, k \in ToolIds :
       saved[j] \in ToolInfo /\ saved[k] \in ToolInfo /\ saved[j].name = saved[k].name => j = k

ToolInvariant ==
  /\ ToolTypeOK
  /\ ToolIndexExact
  /\ \A image \in Images : Distinct(image.tools)

(***************************************************************************)
(* The places without a tool are told from the tools.                      *)
(***************************************************************************)
LEMMA NoToolInfo == NoInfo \notin ToolInfo /\ Gone \notin ToolInfo
  BY DEF NoInfo, Gone, ToolInfo

(***************************************************************************)
(* An exact index means that no two tools have one name (find_by_name).    *)
(***************************************************************************)
LEMMA ExactIsDistinct ==
  ASSUME ToolTypeOK, ToolIndexExact
  PROVE  Distinct(tools)
  BY NoToolInfo DEF ToolTypeOK, ToolIndexExact, Distinct, Tools

(***************************************************************************)
(* A registration keeps the index exact, and the types (register).         *)
(***************************************************************************)
LEMMA RegisterKeepsIndex ==
  ASSUME ToolTypeOK, ToolIndexExact, NEW k \in ToolIds, NEW n \in ToolNames, NEW p \in ToolProvider,
         RegisterTool(k, n, p)
  PROVE  ToolTypeOK' /\ ToolIndexExact'
<1>1. [name |-> n, provider |-> p] \in ToolInfo
  BY DEF ToolInfo
<1>2. ToolTypeOK'
  BY <1>1 DEF ToolTypeOK, RegisterTool
<1>3. Tools' = Tools \cup {k}
  BY <1>1, NoToolInfo DEF ToolTypeOK, RegisterTool, Tools
<1>4. k \notin Tools
  BY DEF RegisterTool, Tools
<1>5. \A j \in Tools : tools'[j] = tools[j] /\ tools[j].name # n
  BY <1>4, ToolAssumption DEF ToolTypeOK, ToolIndexExact, RegisterTool, FindByName, Tools
<1>6. tools'[k].name = n /\ toolIndex'[n] = k
  BY DEF ToolTypeOK, RegisterTool
<1>7. \A m \in ToolNames \ {n} : toolIndex'[m] = toolIndex[m]
  BY DEF ToolTypeOK, RegisterTool
<1>8. \A j \in Tools : tools[j].name \in ToolNames
  BY DEF ToolTypeOK, Tools, ToolInfo
<1>9. \A j \in Tools' : toolIndex'[tools'[j].name] = j
  BY <1>3, <1>5, <1>6, <1>7, <1>8 DEF ToolIndexExact
<1>10. ASSUME NEW m \in ToolNames, toolIndex'[m] # NoTool
       PROVE  toolIndex'[m] \in Tools' /\ tools'[toolIndex'[m]].name = m
  BY <1>3, <1>5, <1>6, <1>7, <1>10 DEF ToolIndexExact
<1> QED
  BY <1>2, <1>9, <1>10 DEF ToolIndexExact

(***************************************************************************)
(* So does a deregistration (deregister).                                  *)
(***************************************************************************)
LEMMA DeregisterKeepsIndex ==
  ASSUME ToolTypeOK, ToolIndexExact, NEW k \in ToolIds, DeregisterTool(k)
  PROVE  ToolTypeOK' /\ ToolIndexExact'
<1> DEFINE n == tools[k].name
<1>1. k \in Tools /\ n \in ToolNames /\ toolIndex[n] = k
  BY DEF DeregisterTool, ToolTypeOK, Tools, ToolInfo, ToolIndexExact
<1>2. ToolTypeOK'
  BY <1>1 DEF ToolTypeOK, DeregisterTool
<1>3. Tools' = Tools \ {k}
  BY DEF ToolTypeOK, DeregisterTool, Tools
<1>4. \A j \in Tools' : tools'[j] = tools[j] /\ tools[j].name \in ToolNames /\ tools[j].name # n
  BY <1>1, <1>3 DEF ToolTypeOK, DeregisterTool, ToolIndexExact, Tools, ToolInfo
<1>5. toolIndex'[n] = NoTool /\ \A m \in ToolNames \ {n} : toolIndex'[m] = toolIndex[m]
  BY <1>1 DEF ToolTypeOK, DeregisterTool
<1>6. \A m \in ToolNames \ {n} : toolIndex[m] # k
  BY <1>1, ToolAssumption DEF ToolIndexExact
<1>7. \A j \in Tools' : toolIndex'[tools'[j].name] = j
  BY <1>3, <1>4, <1>5 DEF ToolIndexExact
<1>8. ASSUME NEW m \in ToolNames, toolIndex'[m] # NoTool
      PROVE  toolIndex'[m] \in Tools' /\ tools'[toolIndex'[m]].name = m
  BY <1>3, <1>4, <1>5, <1>6, <1>8 DEF ToolIndexExact
<1> QED
  BY <1>2, <1>7, <1>8 DEF ToolIndexExact

(***************************************************************************)
(* restore builds an exact index of what was saved with one (restore).     *)
(***************************************************************************)
LEMMA RestoreKeepsIndex ==
  ASSUME NEW saved, Distinct(saved), RestoreTools(saved)
  PROVE  ToolTypeOK' /\ ToolIndexExact'
<1>1. ToolTypeOK'
  BY DEF Distinct, RestoreTools, ToolTypeOK
<1>2. \A k \in Tools' : tools'[k] = saved[k] /\ saved[k] \in ToolInfo /\ k \in ToolIds
  BY DEF Distinct, RestoreTools, Tools
<1>3. ASSUME NEW k \in Tools'
      PROVE  toolIndex'[tools'[k].name] = k
  <2> DEFINE n == tools'[k].name
             named == {j \in Tools' : tools'[j].name = n}
  <2>1. n \in ToolNames /\ k \in named
    BY <1>2 DEF ToolInfo
  <2>2. toolIndex'[n] \in named
    BY <2>1 DEF RestoreTools
  <2> QED
    BY <1>2, <2>2 DEF Distinct
<1>4. ASSUME NEW n \in ToolNames, toolIndex'[n] # NoTool
      PROVE  toolIndex'[n] \in Tools' /\ tools'[toolIndex'[n]].name = n
  BY <1>4 DEF RestoreTools
<1> QED
  BY <1>1, <1>3, <1>4 DEF ToolIndexExact

(***************************************************************************)
(* Every step keeps the tools, and what is saved of them, as they must be. *)
(***************************************************************************)
LEMMA ToolStepIsSafe ==
  ASSUME SavesTyped, ToolInvariant, [Next]_vars
  PROVE  ToolInvariant'
<1>1. ToolTypeOK' /\ ToolIndexExact'
  <2>1. CASE UNCHANGED <<tools, toolIndex>>
    BY <2>1 DEF ToolInvariant, ToolTypeOK, ToolIndexExact, Tools
  <2>2. CASE LoadSnapshot
    <3>1. CASE disk = Nothing
      <4>1. tools' = [k \in ToolIds |-> NoInfo] /\ toolIndex' = [n \in ToolNames |-> NoTool]
        BY <2>2, <3>1, KindsDiffer DEF LoadSnapshot
      <4>2. Tools' = {}
        BY <4>1 DEF Tools
      <4> QED
        BY <4>1, <4>2 DEF ToolTypeOK, ToolIndexExact
    <3>2. CASE disk.at = "saved"
      <4>1. RestoreTools(disk.image.tools) /\ disk.image \in Images
        BY <2>2, <3>2, KindsDiffer DEF LoadSnapshot, Images
      <4> QED
        BY <4>1, RestoreKeepsIndex DEF ToolInvariant
    <3> QED
      BY <2>2, <3>1, <3>2 DEF LoadSnapshot
  <2>3. CASE RegisterBuiltin
    BY <2>3, RegisterKeepsIndex, ToolAssumption DEF RegisterBuiltin, ToolInvariant, ToolProvider
  <2>4. CASE Request
    <3>1. CASE ToolRequest
      BY <3>1, RegisterKeepsIndex, DeregisterKeepsIndex DEF ToolRequest, ToolInvariant, ToolProvider
    <3>2. CASE ChatRequest \/ WebhookRequest
      BY <2>1, <3>2 DEF ChatRequest, WebhookRequest
    <3> QED
      BY <2>4, <3>1, <3>2 DEF Request
  <2> QED
    BY <2>1, <2>2, <2>3, <2>4, WhoChangesServices DEF serviceVars
<1>2. \A image \in Snapshots : Distinct(image.tools)
  BY ExactIsDistinct DEF ToolInvariant, Snapshots, Snapshot
<1>3. \A image \in Images' : Distinct(image.tools)
  BY <1>2, WhatIsSaved DEF ToolInvariant
<1> QED
  BY <1>1, <1>3 DEF ToolInvariant

(***************************************************************************)
(* In every reachable state the index of the tools is exact, through       *)
(* crashes, restarts and the registration of the built-in tools over       *)
(* restored ones (core/tools.rs, register_code_tools).                     *)
(***************************************************************************)
THEOREM ToolIndexCorrect == Spec => []ToolIndexExact
<1>1. Init => ToolInvariant
  BY NothingSaved DEF Init, ToolInit, ToolInvariant, ToolTypeOK, ToolIndexExact, Tools
<1>2. SavesTyped /\ ToolInvariant /\ [Next]_vars => ToolInvariant'
  BY ToolStepIsSafe
<1>3. ToolInvariant => ToolIndexExact
  BY DEF ToolInvariant
<1> QED
  BY <1>1, <1>2, <1>3, SavesStayTyped, PTL DEF Spec

-----------------------------------------------------------------------------
(* The conversations *)

\* What ConversationsAreWhole says of the maps of the manager, said of any two.
Whole(cs, ms) ==
  /\ DOMAIN ms = DOMAIN cs
  /\ \A c \in DOMAIN ms : ms[c] \in Seq(ChatMessage)
  /\ \A c \in DOMAIN ms : \A i \in DOMAIN ms[c] :
       /\ ms[c][i].sender \in cs[c]
       /\ \A d \in DOMAIN ms : \A j \in DOMAIN ms[d] :
            ms[c][i].id = ms[d][j].id => c = d /\ i = j

\* The maps as functions, so that a copy of them is the same map.
ChatsWhole(cs, ms) == ms = [c \in DOMAIN ms |-> ms[c]] /\ Whole(cs, ms)

ChatInvariant ==
  /\ ChatsWhole(conversations, messages)
  /\ \A image \in Images : ChatsWhole(image.chat.conversations, image.chat.messages)

(***************************************************************************)
(* A new conversation begins with no messages (create_conversation).       *)
(***************************************************************************)
LEMMA CreateKeepsWhole ==
  ASSUME Whole(conversations, messages), NEW c, NEW P, CreateConversation(c, P)
  PROVE  /\ messages' = [d \in DOMAIN messages' |-> messages'[d]]
         /\ Whole(conversations, messages)'
<1>1. c \notin DOMAIN conversations /\ c \notin DOMAIN messages
  BY DEF CreateConversation, Whole
<1>2. /\ DOMAIN conversations' = DOMAIN conversations \cup {c}
      /\ DOMAIN messages' = DOMAIN messages \cup {c}
      /\ messages' = [d \in DOMAIN messages' |-> messages'[d]]
  BY DEF CreateConversation, With
<1>3. /\ messages'[c] = <<>>
      /\ \A d \in DOMAIN messages : messages'[d] = messages[d] /\ conversations'[d] = conversations[d]
  BY <1>1 DEF CreateConversation, With, Whole
<1>4. \A d \in DOMAIN messages' : messages'[d] \in Seq(ChatMessage)
  <2>1. \A d \in DOMAIN messages : messages[d] \in Seq(ChatMessage)
    BY DEF Whole
  <2>2. <<>> \in Seq(ChatMessage)
    OBVIOUS
  <2> QED
    BY <1>2, <1>3, <2>1, <2>2
<1>5. DOMAIN messages'[c] = {}
  BY <1>3
<1>6. \A d \in DOMAIN messages' : \A i \in DOMAIN messages'[d] : d \in DOMAIN messages
  BY <1>2, <1>5
<1> QED
  BY <1>2, <1>3, <1>4, <1>6 DEF Whole

(***************************************************************************)
(* A message joins the end of one conversation, by a participant and with  *)
(* an id of its own (send_message).                                        *)
(***************************************************************************)
LEMMA SendKeepsWhole ==
  ASSUME Whole(conversations, messages), messages = [d \in DOMAIN messages |-> messages[d]],
         NEW c, NEW s \in AgentIds, NEW m \in MessageIds, SendMessage(c, s, m)
  PROVE  /\ messages' = [d \in DOMAIN messages' |-> messages'[d]]
         /\ Whole(conversations, messages)'
<1> DEFINE new == [id |-> m, sender |-> s]
           n == Len(messages[c])
<1>1. c \in DOMAIN messages /\ messages[c] \in Seq(ChatMessage) /\ new \in ChatMessage
  BY DEF SendMessage, Whole, ChatMessage
<1>2. /\ DOMAIN messages' = DOMAIN messages
      /\ messages' = [d \in DOMAIN messages' |-> messages'[d]]
      /\ messages'[c] = Append(messages[c], new)
      /\ \A d \in DOMAIN messages \ {c} : messages'[d] = messages[d]
      /\ conversations' = conversations
  BY <1>1 DEF SendMessage
<1>3. /\ n \in Nat
      /\ DOMAIN messages'[c] = DOMAIN messages[c] \cup {n + 1}
      /\ n + 1 \notin DOMAIN messages[c]
      /\ messages'[c][n + 1] = new
      /\ \A i \in DOMAIN messages[c] : messages'[c][i] = messages[c][i]
  <2>1. n \in Nat /\ DOMAIN messages[c] = 1..n
    BY <1>1
  <2>2. Len(Append(messages[c], new)) = n + 1 /\ Append(messages[c], new) \in Seq(ChatMessage)
    BY <1>1
  <2>3. DOMAIN Append(messages[c], new) = 1..(n + 1)
    BY <2>1, <2>2
  <2>4. Append(messages[c], new)[n + 1] = new
    BY <1>1
  <2>5. \A i \in 1..n : Append(messages[c], new)[i] = messages[c][i]
    BY <1>1
  <2> QED
    BY <1>2, <2>1, <2>3, <2>4, <2>5
<1>4. \A d \in DOMAIN messages' : messages'[d] \in Seq(ChatMessage)
  <2>1. \A d \in DOMAIN messages : messages[d] \in Seq(ChatMessage)
    BY DEF Whole
  <2>2. Append(messages[c], new) \in Seq(ChatMessage)
    BY <1>1
  <2> QED
    BY <1>2, <2>1, <2>2
<1>5. \A d \in DOMAIN messages : \A i \in DOMAIN messages[d] : messages[d][i].id # m
  <2>1. m \notin {said.id : said \in Said}
    BY DEF SendMessage
  <2>2. ASSUME NEW d \in DOMAIN messages, NEW i \in DOMAIN messages[d]
        PROVE  messages[d][i] \in Said
    BY DEF Said
  <2> QED
    BY <2>1, <2>2
<1>6. \A d \in DOMAIN messages' : \A i \in DOMAIN messages'[d] :
        \/ d = c /\ i = n + 1 /\ messages'[d][i] = new
        \/ d \in DOMAIN messages /\ i \in DOMAIN messages[d] /\ messages'[d][i] = messages[d][i]
  BY <1>2, <1>3
<1>7. s \in conversations[c]
  BY DEF SendMessage
<1>8. ASSUME NEW d \in DOMAIN messages', NEW i \in DOMAIN messages'[d]
      PROVE  messages'[d][i].sender \in conversations'[d]
  BY <1>2, <1>6, <1>7, <1>8 DEF Whole
<1>9. ASSUME NEW d \in DOMAIN messages', NEW i \in DOMAIN messages'[d],
             NEW e \in DOMAIN messages', NEW j \in DOMAIN messages'[e],
             messages'[d][i].id = messages'[e][j].id
      PROVE  d = e /\ i = j
  BY <1>5, <1>6, <1>9 DEF Whole
<1> QED
  BY <1>2, <1>4, <1>8, <1>9 DEF Whole

(***************************************************************************)
(* Every step keeps conversations and messages together, and what is saved *)
(* of them.                                                                *)
(***************************************************************************)
LEMMA ChatStepIsSafe ==
  ASSUME SavesTyped, ChatInvariant, [Next]_vars
  PROVE  ChatInvariant'
<1> USE DEF ChatsWhole
<1>1. ChatsWhole(conversations, messages)'
  <2>1. CASE UNCHANGED <<conversations, messages>>
    BY <2>1 DEF ChatInvariant, Whole
  <2>2. CASE LoadSnapshot
    <3>1. CASE disk = Nothing
      <4>1. conversations' = EmptyMap /\ messages' = EmptyMap
        BY <2>2, <3>1, KindsDiffer DEF LoadSnapshot
      <4> QED
        BY <4>1 DEF Whole, EmptyMap
    <3>2. CASE disk.at = "saved"
      <4>1. RestoreChat(disk.image.chat) /\ disk.image \in Images
        BY <2>2, <3>2, KindsDiffer DEF LoadSnapshot, Images
      <4>2. /\ conversations' = disk.image.chat.conversations
            /\ messages' = disk.image.chat.messages
        BY <4>1 DEF RestoreChat, ChatInvariant, Whole
      <4>3. ChatsWhole(disk.image.chat.conversations, disk.image.chat.messages)
        BY <4>1 DEF ChatInvariant
      <4> QED
        BY <4>2, <4>3
    <3> QED
      BY <2>2, <3>1, <3>2 DEF LoadSnapshot
  <2>3. CASE Request
    <3>1. CASE ChatRequest
      BY <3>1, CreateKeepsWhole, SendKeepsWhole DEF ChatRequest, ChatInvariant
    <3>2. CASE ToolRequest \/ WebhookRequest
      BY <2>1, <3>2 DEF ToolRequest, WebhookRequest
    <3> QED
      BY <2>3, <3>1, <3>2 DEF Request
  <2> QED
    BY <2>1, <2>2, <2>3, WhoChangesServices DEF serviceVars, RegisterBuiltin
<1>2. ASSUME NEW image \in Snapshots
      PROVE  ChatsWhole(image.chat.conversations, image.chat.messages)
  <2>1. image.chat.conversations = conversations /\ image.chat.messages = messages
    BY DEF Snapshots, Snapshot, SavedChat, ChatInvariant, Whole
  <2> QED
    BY <2>1 DEF ChatInvariant
<1> HIDE DEF ChatsWhole
<1>3. \A image \in Images' : ChatsWhole(image.chat.conversations, image.chat.messages)
  BY <1>2, WhatIsSaved DEF ChatInvariant
<1> QED
  BY <1>1, <1>3 DEF ChatInvariant

(***************************************************************************)
(* Conversations and messages stay together in every reachable state,      *)
(* through crashes and restarts, although they are two maps that are saved *)
(* and restored apart (core/chat.rs, state.rs to_snapshot).                *)
(***************************************************************************)
THEOREM ConversationsStayWhole == Spec => []ConversationsAreWhole
<1>1. Init => ChatInvariant
  BY NothingSaved DEF Init, ChatInit, ChatInvariant, ChatsWhole, Whole, EmptyMap
<1>2. SavesTyped /\ ChatInvariant /\ [Next]_vars => ChatInvariant'
  BY ChatStepIsSafe
<1>3. ChatInvariant => ConversationsAreWhole
  BY DEF ChatInvariant, ChatsWhole, Whole, ConversationsAreWhole
<1> QED
  BY <1>1, <1>2, <1>3, SavesStayTyped, PTL DEF Spec

-----------------------------------------------------------------------------
(* Files whose last write was cut short *)

CutInvariant ==
  /\ tokenFile \in Token \cup {NoFile, Started}
  /\ keyFile \in {NoFile, Started, Complete}
  /\ drawn \in Nat
  /\ save["shutdown"] # Nothing => stage = "stopping"
  /\ save["timer"] # Nothing => stage \in Serving
  /\ tokenFile = Started => stage = "opening_token" \/ "token" \in cut
  /\ keyFile = Started => stage = "opening_key" \/ "key" \in cut
  /\ disk = Torn => (\E w \in Writers : save[w].at \in Open) \/ "snapshot" \in cut

(***************************************************************************)
(* A token that is drawn is neither of the states of a file without one.   *)
(***************************************************************************)
LEMMA DrawnIsToken ==
  ASSUME drawn \in Nat, drawn < MaxTokens
  PROVE  /\ drawn + 1 \in Token /\ drawn + 1 \in Nat
         /\ drawn + 1 # Started /\ drawn + 1 # NoFile
  BY SecretsAssumption DEF Token

(***************************************************************************)
(* What the process does to the token and the key: who opens a file is the *)
(* one that writes it, or it is cut short (load_or_create_token,           *)
(* load_or_create_key, cli/auth.rs).                                       *)
(***************************************************************************)
LEMMA SecretsCut ==
  ASSUME CutInvariant, Next
  PROVE  /\ tokenFile' \in Token \cup {NoFile, Started}
         /\ keyFile' \in {NoFile, Started, Complete}
         /\ drawn' \in Nat
         /\ tokenFile' = Started => stage' = "opening_token" \/ "token" \in cut'
         /\ keyFile' = Started => stage' = "opening_key" \/ "key" \in cut'
<1> USE DEF CutInvariant
<1>1. CASE LoadToken
  <2>1. CASE Enter("bound", "token") /\ ReadToken
    BY <1>1, <2>1 DEF LoadToken, Enter, ReadToken
  <2>2. CASE Enter("bound", "opening_token") /\ OpenToken
    BY <1>1, <2>2 DEF LoadToken, Enter, OpenToken
  <2>3. CASE Enter("opening_token", "token") /\ WriteToken
    <3>1. drawn + 1 \in Token /\ drawn + 1 \in Nat /\ drawn + 1 # Started
      BY <2>3, DrawnIsToken DEF WriteToken
    <3>2. tokenFile' \in Token \cup {NoFile, Started} /\ tokenFile' # Started /\ drawn' \in Nat
      BY <2>3, <3>1 DEF WriteToken
    <3> QED
      BY <1>1, <2>3, <3>2 DEF LoadToken, Enter, WriteToken
  <2> QED
    BY <1>1, <2>1, <2>2, <2>3 DEF LoadToken
<1>2. CASE LoadKey
  <2>1. CASE Enter("pid", "key") /\ keyFile = Complete /\ UNCHANGED secretVars
    BY <1>2, <2>1 DEF LoadKey, Enter, secretVars
  <2>2. CASE Enter("pid", "opening_key") /\ OpenKey
    BY <1>2, <2>2 DEF LoadKey, Enter, OpenKey
  <2>3. CASE Enter("opening_key", "key") /\ WriteKey
    BY <1>2, <2>3, SecretsAssumption DEF LoadKey, Enter, WriteKey
  <2> QED
    BY <1>2, <2>1, <2>2, <2>3 DEF LoadKey
<1>3. CASE Rotate
  <2>1. \/ tokenFile' = tokenFile /\ drawn' = drawn
        \/ tokenFile' \in Token /\ tokenFile' # Started /\ drawn' \in Nat
    <3>1. ASSUME NEW r \in Rotators, RotateRename(r)
          PROVE  tokenFile' \in Token /\ tokenFile' # Started /\ drawn' \in Nat
      <4>1. drawn + 1 \in Token /\ drawn + 1 \in Nat /\ drawn + 1 # Started
        BY <3>1, DrawnIsToken DEF RotateRename
      <4> QED
        BY <3>1, <4>1 DEF RotateRename
    <3>2. ASSUME NEW r \in Rotators, RotateReadPid(r) \/ RotateSignal(r, Alive)
          PROVE  tokenFile' = tokenFile /\ drawn' = drawn
      BY <3>2 DEF RotateReadPid, RotateSignal
    <3>3. \E r \in Rotators : RotateRename(r) \/ RotateReadPid(r) \/ RotateSignal(r, Alive)
      BY <1>3 DEF Rotate
    <3> QED
      BY <3>1, <3>2, <3>3
  <2>2. UNCHANGED <<keyFile, stage, cut>>
    BY <1>3 DEF Rotate, RotateReadPid, RotateRename, RotateSignal
  <2> QED
    BY <2>1, <2>2
<1>4. CASE FailStart \/ Crash \/ HangUp
  <2>1. /\ UNCHANGED <<tokenFile, keyFile, drawn>>
        /\ cut' = cut \cup CutShort
    BY <1>4 DEF FailStart, Crash, HangUp, Die, secretVars
  <2> QED
    BY <2>1 DEF CutShort
<1>5. ASSUME NEW w \in Writers, EndSave(w) \/ FailSave(w)
      PROVE  /\ UNCHANGED <<tokenFile, keyFile, drawn>>
             /\ "token" \in cut => "token" \in cut'
             /\ "key" \in cut => "key" \in cut'
             /\ stage' \in {stage, "ending"}
             /\ save[w] # Nothing
  BY <1>5, KindsDiffer
  DEF EndSave, FailSave, Completes, Fails, Open, Over, secretVars
<1>6. CASE \E w \in Writers : EndSave(w) \/ FailSave(w)
  <2>1. stage \notin {"opening_token", "opening_key"}
    BY <1>5, <1>6 DEF Writers, Serving
  <2> QED
    BY <1>5, <1>6, <2>1
<1>7. CASE Exit
  BY <1>7 DEF Exit
<1>8. CASE Refuse \/ Stop \/ LoadSnapshot \/ StartServing \/ RegisterBuiltin \/ Request
             \/ TakeSnapshot \/ (\E w \in Writers : BeginSave(w))
  BY <1>8 DEF Refuse, Stop, LoadSnapshot, StartServing, RegisterBuiltin, Request, TakeSnapshot,
              BeginSave, Enter, secretVars, bootVars
<1>9. CASE Bind \/ WritePid \/ Install \/ ReloadToken
  BY <1>9 DEF Bind, WritePid, Enter, Install, ReloadToken, InstallHandler, Reload, Dead, bootVars
<1> QED
  BY <1>1, <1>2, <1>3, <1>4, <1>6, <1>7, <1>8, <1>9 DEF Next, Start, Work

(***************************************************************************)
(* And to the snapshot: it is torn while a save has it open, and after one *)
(* that was cut short or met another (save_snapshot, serve_with_shutdown). *)
(***************************************************************************)
LEMMA SavesCut ==
  ASSUME SavesTyped, CutInvariant, Next
  PROVE  /\ save'["shutdown"] # Nothing => stage' = "stopping"
         /\ save'["timer"] # Nothing => stage' \in Serving
         /\ disk' = Torn => (\E w \in Writers : save'[w].at \in Open) \/ "snapshot" \in cut'
<1> USE DEF CutInvariant, Serving
<1>0. /\ "timer" \in Writers /\ "shutdown" \in Writers
      /\ \A w \in Writers : w = "timer" \/ w = "shutdown"
      /\ \A w \in Writers : NoSaves[w] = Nothing
      /\ \A w \in Writers : save[w].at \in Open => save[w] # Nothing
  BY KindsDiffer DEF Writers, NoSaves, Open
<1>1. CASE Bind \/ LoadToken \/ WritePid \/ LoadKey \/ Refuse \/ LoadSnapshot \/ StartServing
             \/ RegisterBuiltin
  <2>1. save' = save /\ disk' = disk /\ cut' = cut /\ stage \in Dead \cup Starting
    BY <1>1 DEF Bind, LoadToken, WritePid, LoadKey, Refuse, LoadSnapshot, StartServing,
                RegisterBuiltin, Enter, DiskSame, fileVars, bootVars, Dead, Starting
  <2>2. save["shutdown"] = Nothing /\ save["timer"] = Nothing
    BY <2>1 DEF Dead, Starting
  <2> QED
    BY <2>1, <2>2
<1>2. CASE Request \/ Install \/ ReloadToken \/ Rotate
  BY <1>2 DEF Request, Install, ReloadToken, Rotate, DiskSame, fileVars, bootVars
<1>3. CASE FailStart
  <2>1. save' = save /\ disk' = disk /\ cut \subseteq cut' /\ stage \in Starting
    BY <1>3 DEF FailStart, DiskSame, fileVars
  <2>2. save["shutdown"] = Nothing /\ save["timer"] = Nothing
    BY <2>1 DEF Starting
  <2> QED
    BY <1>0, <2>1, <2>2
<1>4. CASE TakeSnapshot
  <2>1. PICK chosen \in AllHooks : Takes("timer", Snapshot(chosen))
    BY <1>4 DEF TakeSnapshot
  <2>2. /\ disk' = disk /\ save'["shutdown"] = save["shutdown"]
        /\ save["timer"].at \notin Open
    BY <1>0, <2>1, TakesAnImage DEF Takes
  <2> QED
    BY <1>0, <1>4, <2>2 DEF TakeSnapshot
<1>5. CASE Stop
  <2>1. PICK chosen \in AllHooks : Takes("shutdown", Snapshot(chosen))
    BY <1>5 DEF Stop
  <2>2. /\ disk' = disk /\ save'["timer"] = save["timer"]
        /\ save["shutdown"].at \notin Open
    BY <1>0, <2>1, TakesAnImage DEF Takes
  <2> QED
    BY <1>0, <1>5, <2>2 DEF Stop
<1>6. ASSUME NEW w \in Writers, BeginSave(w)
      PROVE  /\ save'["shutdown"] # Nothing => stage' = "stopping"
             /\ save'["timer"] # Nothing => stage' \in Serving
             /\ save'[w].at \in Open
  BY <1>0, <1>6, OpensTheFile DEF BeginSave
<1>7. ASSUME NEW w \in Writers, EndSave(w) \/ FailSave(w)
      PROVE  /\ save'["shutdown"] # Nothing => stage' = "stopping"
             /\ save'["timer"] # Nothing => stage' \in Serving
             /\ disk' = Torn =>
                  (\E v \in Writers : save'[v].at \in Open) \/ "snapshot" \in cut'
  <2>1. /\ save'[w] = Nothing /\ \A v \in Writers \ {w} : save'[v] = save[v]
        /\ save[w] # Nothing
        /\ stage' = IF w = "shutdown" THEN "ending" ELSE stage
    BY <1>7, ClosesTheFile DEF EndSave, FailSave, Over
  <2>2. /\ save'["shutdown"] # Nothing => stage' = "stopping"
        /\ save'["timer"] # Nothing => stage' \in Serving
    BY <1>0, <2>1
  <2>3. CASE EndSave(w) /\ save[w].at = "writing"
    <3>1. disk' = [at |-> "saved", image |-> save[w].image]
      BY <2>3 DEF EndSave, Completes, Written
    <3>2. disk' # Torn
      BY <3>1, KindsDiffer
    <3> QED
      BY <2>2, <3>2
  <2>4. CASE EndSave(w) /\ save[w].at # "writing"
    BY <2>2, <2>4 DEF EndSave
  <2>5. CASE FailSave(w) /\ save[w].at \in Open
    BY <2>2, <2>5 DEF FailSave
  <2>6. CASE FailSave(w) /\ save[w].at \notin Open
    <3>1. disk' = disk /\ cut' = cut
      BY <2>6 DEF FailSave, Fails
    <3>2. \A v \in Writers : save[v].at \in Open => save'[v].at \in Open
      BY <2>1, <2>6
    <3> QED
      BY <2>2, <3>1, <3>2
  <2> QED
    BY <1>7, <2>3, <2>4, <2>5, <2>6
<1>8. CASE Exit
  <2>1. save' = NoSaves /\ disk' = disk /\ save["shutdown"] = Nothing
        /\ cut' = IF save["timer"].at \in Open THEN cut \cup {"snapshot"} ELSE cut
    BY <1>8 DEF Exit
  <2> QED
    BY <1>0, <2>1
<1>9. CASE Crash \/ HangUp
  <2>1. save' = NoSaves /\ disk' = disk /\ cut' = cut \cup CutShort
    BY <1>9 DEF Crash, HangUp, Die
  <2> QED
    BY <1>0, <2>1 DEF CutShort
<1> QED
  BY <1>1, <1>2, <1>3, <1>4, <1>5, <1>6, <1>7, <1>8, <1>9 DEF Next, Start, Work

(***************************************************************************)
(* So every step keeps it.                                                 *)
(***************************************************************************)
LEMMA CutStepIsSafe ==
  ASSUME SavesTyped, CutInvariant, [Next]_vars
  PROVE  CutInvariant'
<1>1. CASE UNCHANGED vars
  BY <1>1 DEF CutInvariant, Serving, vars, secretVars, fileVars, bootVars
<1>2. CASE Next
  BY <1>2, SecretsCut, SavesCut DEF CutInvariant
<1> QED
  BY <1>1, <1>2

(***************************************************************************)
(* Where the saves and the files stand holds in every reachable state.     *)
(***************************************************************************)
LEMMA CutsHold == Spec => []CutInvariant
<1>1. Init => CutInvariant
  BY SecretsAssumption, KindsDiffer DEF Init, SecretsInit, CutInvariant, NoSaves, Writers
<1>2. SavesTyped /\ CutInvariant /\ [Next]_vars => CutInvariant'
  BY CutStepIsSafe
<1> QED
  BY <1>1, <1>2, SavesStayTyped, PTL DEF Spec

(***************************************************************************)
(* A start is refused only by a file whose last write was cut short, by a  *)
(* kill, an I/O error or a save that met another: it has no other origin,  *)
(* however starts, saves, stops and rotations follow on each other.        *)
(***************************************************************************)
THEOREM OnlyCutFilesRefuse == Spec => []OnlyCutFilesBlock
<1>1. CutInvariant /\ SavesTyped => OnlyCutFilesBlock
  <2> SUFFICES ASSUME CutInvariant, SavesTyped, stage \in Dead
               PROVE  /\ tokenFile = Started => "token" \in cut
                      /\ keyFile = Started => "key" \in cut
                      /\ disk = Torn => "snapshot" \in cut
    BY DEF OnlyCutFilesBlock
  <2>1. \A w \in Writers : save[w] = Nothing
    BY DEF CutInvariant, Dead, Serving, Writers
  <2> QED
    BY <2>1, KindsDiffer DEF CutInvariant, Dead, Open
<1> QED
  BY <1>1, CutsHold, SavesStayTyped, PTL

-----------------------------------------------------------------------------
(* The token *)

\* A rotation that has changed the file will signal, or has reported an error.
Covered ==
  \/ tokenFile \in failed
  \/ \E r \in Rotators : rotator[r].at = "renamed" /\ rotator[r].token = tokenFile

\* The stages before the PID file names the process.
Unnamed == {"bound", "opening_token", "token"}

\* The stages in which the process has a token.
Holding == {"token", "pid", "opening_key", "key", "restored", "up", "stopping", "ending"}

\* A rotation knows no later process than the last one, and not that one while
\* the PID file does not name it.
ProcessesAreKnown ==
  /\ \A r \in Rotators : rotator[r].at # "idle" => rotator[r].pid <= process
  /\ stage \in Unnamed =>
       /\ pidFile < process
       /\ \A r \in Rotators : rotator[r].at # "idle" => rotator[r].pid < process

TokenInvariant ==
  /\ SecretsTypeOK
  /\ ProcessesAreKnown
  /\ stage = "opening_token" => tokenFile = Started \/ (tokenFile # NoFile /\ Covered)
  /\ stage \in Holding => tokenFile \in Token /\ (slot = tokenFile \/ hup \/ Covered)

(***************************************************************************)
(* What a rotation may be, told by its place.                              *)
(***************************************************************************)
LEMMA RotatorTyped ==
  ASSUME SecretsTypeOK, NEW r \in Rotators
  PROVE  /\ rotator[r].at = "idle" <=> rotator[r] = NotRotating
         /\ rotator[r].at # "idle" => rotator[r].pid \in Nat
         /\ rotator[r].at = "renamed" => rotator[r].token \in Token
  BY DEF SecretsTypeOK, Rotation, NotRotating

(***************************************************************************)
(* The numbers of Secrets are numbers, and the PID file names no later     *)
(* process than the last.                                                  *)
(***************************************************************************)
LEMMA NumbersTyped ==
  ASSUME SecretsTypeOK
  PROVE  drawn \in Nat /\ process \in Nat /\ pidFile \in Nat /\ pidFile <= process
<1>1. drawn \in 0..MaxTokens /\ pidFile \in 0..process /\ process \in Nat
  BY DEF SecretsTypeOK
<1>2. MaxTokens \in Nat
  BY SecretsAssumption
<1> QED
  BY <1>1, <1>2

(***************************************************************************)
(* Types survive every step (the variables of Secrets).                    *)
(***************************************************************************)
LEMMA SecretsStayTyped ==
  ASSUME SecretsTypeOK, Next
  PROVE  SecretsTypeOK'
<1> USE DEF SecretsTypeOK
<1>1. drawn < MaxTokens => drawn + 1 \in Token /\ drawn + 1 \in 0..MaxTokens
  BY SecretsAssumption DEF Token
<1>2. CASE UNCHANGED secretVars
  BY <1>2 DEF secretVars
<1>3. CASE Bind
  <2>1. process' \in Nat /\ pidFile' \in 0..process'
    BY <1>3 DEF Bind
  <2> QED
    BY <1>3, <2>1 DEF Bind, NoToken
<1>4. CASE LoadToken
  BY <1>1, <1>4 DEF LoadToken, ReadToken, OpenToken, WriteToken
<1>5. CASE WritePid \/ FailStart \/ Exit
  <2>1. process \in Nat /\ pidFile' \in {pidFile, process, NoPid}
    BY <1>5 DEF WritePid, FailStart, Exit
  <2>2. pidFile' \in 0 .. process
    BY <2>1 DEF NoPid
  <2> QED
    BY <1>5, <2>2 DEF WritePid, FailStart, Exit
<1>6. CASE LoadKey
  BY <1>2, <1>6 DEF LoadKey, OpenKey, WriteKey
<1>7. CASE Install \/ ReloadToken
  BY <1>7 DEF Install, ReloadToken, InstallHandler, Reload
<1>8. CASE Rotate
  <2>1. ASSUME NEW r \in Rotators, RotateReadPid(r)
        PROVE  SecretsTypeOK'
    <3>1. [at |-> "pid", pid |-> pidFile] \in Rotation
      BY DEF Rotation
    <3> QED
      BY <2>1, <3>1 DEF RotateReadPid
  <2>2. ASSUME NEW r \in Rotators, RotateRename(r)
        PROVE  SecretsTypeOK'
    <3>1. rotator[r].pid \in Nat
      BY <2>2, RotatorTyped DEF RotateRename
    <3>2. [at |-> "renamed", pid |-> rotator[r].pid, token |-> drawn + 1] \in Rotation
      BY <1>1, <2>2, <3>1 DEF RotateRename, Rotation
    <3> QED
      BY <1>1, <2>2, <3>2 DEF RotateRename
  <2>3. ASSUME NEW r \in Rotators, NEW alive \in BOOLEAN, RotateSignal(r, alive)
        PROVE  SecretsTypeOK'
    BY <2>3 DEF RotateSignal
  <2> QED
    BY <1>8, <2>1, <2>2, <2>3 DEF Rotate, Alive
<1> QED
  BY <1>2, <1>3, <1>4, <1>5, <1>6, <1>7, <1>8
  DEF Next, Start, Work, Refuse, LoadSnapshot, RegisterBuiltin, StartServing, Request,
      TakeSnapshot, BeginSave, EndSave, FailSave, Stop, Crash, HangUp, Die

(***************************************************************************)
(* The number of a new process is larger than any before (process ids).    *)
(***************************************************************************)
LEMMA NewIsLarger ==
  ASSUME NEW p \in Nat, NEW q \in Nat, q <= p
  PROVE  q <= p + 1 /\ q < p + 1
  OBVIOUS

(***************************************************************************)
(* The daemon and the rotations learn of no process that has not started,  *)
(* and nobody signals a daemon before its PID file names it (write_pid,    *)
(* cli/auth.rs).                                                           *)
(***************************************************************************)
LEMMA KnownStepIsSafe ==
  ASSUME SecretsTypeOK, ProcessesAreKnown, Next
  PROVE  ProcessesAreKnown'
<1> USE DEF ProcessesAreKnown, Unnamed
<1>1. /\ process \in Nat /\ pidFile \in Nat /\ pidFile <= process
      /\ \A r \in Rotators : rotator[r].at # "idle" => rotator[r].pid \in Nat
  BY RotatorTyped, NumbersTyped
<1>2. CASE Bind
  <2>1. process' = process + 1 /\ UNCHANGED <<pidFile, rotator>>
    BY <1>2 DEF Bind
  <2>2. ASSUME NEW r \in Rotators, rotator'[r].at # "idle"
        PROVE  rotator'[r].pid <= process' /\ rotator'[r].pid < process'
    <3>1. rotator[r].pid \in Nat /\ rotator[r].pid <= process /\ rotator'[r].pid = rotator[r].pid
      BY <1>1, <2>1, <2>2
    <3>2. rotator[r].pid <= process + 1 /\ rotator[r].pid < process + 1
      BY <1>1, <3>1, NewIsLarger
    <3> QED
      BY <2>1, <3>1, <3>2
  <2>3. pidFile' < process'
    <3>1. pidFile < process + 1
      BY <1>1, NewIsLarger
    <3> QED
      BY <2>1, <3>1
  <2> QED
    BY <2>2, <2>3
<1>3. CASE LoadToken
  BY <1>3 DEF LoadToken, Enter, ReadToken, OpenToken, WriteToken
<1>4. CASE WritePid
  BY <1>4 DEF WritePid, Enter
<1>5. CASE LoadKey
  BY <1>5 DEF LoadKey, Enter, OpenKey, WriteKey, secretVars
<1>6. CASE Refuse \/ LoadSnapshot \/ RegisterBuiltin \/ StartServing \/ Request \/ TakeSnapshot
             \/ (\E w \in Writers : BeginSave(w) \/ EndSave(w) \/ FailSave(w))
             \/ Stop \/ Crash \/ HangUp
  BY <1>6 DEF Refuse, LoadSnapshot, RegisterBuiltin, StartServing, Request, TakeSnapshot,
              BeginSave, EndSave, FailSave, Over, Stop, Crash, HangUp, Die, Enter, secretVars,
              bootVars
<1>7. CASE Install \/ ReloadToken
  BY <1>7 DEF Install, ReloadToken, InstallHandler, Reload, bootVars
<1>8. CASE FailStart \/ Exit
  BY <1>8 DEF FailStart, Exit
<1>9. CASE Rotate
  <2>1. UNCHANGED <<process, pidFile, stage>>
    BY <1>9 DEF Rotate, RotateReadPid, RotateRename, RotateSignal
  <2>2. PICK r \in Rotators : \/ RotateReadPid(r)
                              \/ RotateRename(r)
                              \/ RotateSignal(r, Alive)
    BY <1>9 DEF Rotate
  <2>3. \A q \in Rotators \ {r} : rotator'[q] = rotator[q]
    BY <2>2 DEF RotateReadPid, RotateRename, RotateSignal, SecretsTypeOK
  <2>4. \/ rotator'[r].at = "idle"
        \/ rotator'[r].pid = pidFile
        \/ rotator[r].at # "idle" /\ rotator'[r].pid = rotator[r].pid
    <3>1. CASE RotateReadPid(r)
      BY <3>1 DEF RotateReadPid, SecretsTypeOK
    <3>2. CASE RotateRename(r)
      BY <3>2 DEF RotateRename, SecretsTypeOK
    <3>3. CASE RotateSignal(r, Alive)
      BY <3>3 DEF RotateSignal, SecretsTypeOK, NotRotating
    <3> QED
      BY <2>2, <3>1, <3>2, <3>3
  <2>5. pidFile <= process /\ (stage \in Unnamed => pidFile < process)
    BY <1>1
  <2>6. rotator'[r].at # "idle" =>
          rotator'[r].pid <= process /\ (stage \in Unnamed => rotator'[r].pid < process)
    BY <2>4, <2>5
  <2>7. \A q \in Rotators : rotator'[q].at # "idle" =>
          rotator'[q].pid <= process /\ (stage \in Unnamed => rotator'[q].pid < process)
    BY <2>3, <2>6
  <2> QED
    BY <2>1, <2>5, <2>7
<1> QED
  BY <1>2, <1>3, <1>4, <1>5, <1>6, <1>7, <1>8, <1>9 DEF Next, Start, Work

(***************************************************************************)
(* A rotation does not leave the daemon with an old token unnoticed.       *)
(***************************************************************************)
LEMMA RotateKeepsToken ==
  ASSUME TokenInvariant, Rotate
  PROVE  /\ stage = "opening_token" => tokenFile' = Started \/ (tokenFile' # NoFile /\ Covered')
         /\ stage \in Holding => tokenFile' \in Token /\ (slot' = tokenFile' \/ hup' \/ Covered')
<1>1. ASSUME NEW r \in Rotators, RotateReadPid(r), UNCHANGED failed
      PROVE  UNCHANGED <<tokenFile, slot, hup>> /\ (Covered => Covered')
  <2>1. \A q \in Rotators : rotator[q].at = "renamed" => rotator'[q] = rotator[q]
    <3>1. rotator[r].at = "idle"
      BY <1>1 DEF RotateReadPid, NotRotating
    <3>2. \A q \in Rotators \ {r} : rotator'[q] = rotator[q]
      BY <1>1 DEF RotateReadPid, TokenInvariant, SecretsTypeOK
    <3> QED
      BY <3>1, <3>2
  <2> QED
    BY <1>1, <2>1 DEF RotateReadPid, Covered
<1>2. ASSUME NEW r \in Rotators, RotateRename(r)
      PROVE  tokenFile' \in Token /\ tokenFile' # NoFile /\ Covered'
  <2>1. drawn \in Nat /\ drawn < MaxTokens
    BY <1>2, NumbersTyped DEF RotateRename, TokenInvariant
  <2>2. drawn + 1 \in Token /\ drawn + 1 # NoFile
    BY <2>1, DrawnIsToken
  <2>3. rotator'[r].at = "renamed" /\ rotator'[r].token = tokenFile' /\ tokenFile' = drawn + 1
    BY <1>2 DEF RotateRename, TokenInvariant, SecretsTypeOK
  <2> QED
    BY <2>2, <2>3 DEF Covered
<1>3. ASSUME NEW r \in Rotators, RotateSignal(r, Alive),
             failed' = IF Alive /\ rotator[r].pid = process
                       THEN failed ELSE failed \cup {rotator[r].token}
      PROVE  /\ UNCHANGED <<tokenFile, slot>> /\ (hup => hup')
             /\ Covered => Covered' \/ (hup' /\ rotator[r].pid = process)
  <2>1. \A q \in Rotators \ {r} : rotator'[q] = rotator[q]
    BY <1>3 DEF RotateSignal, TokenInvariant, SecretsTypeOK
  <2>2. failed \subseteq failed'
    BY <1>3
  <2>3. CASE Alive /\ rotator[r].pid = process
    BY <1>3, <2>3 DEF RotateSignal
  <2>4. CASE ~(Alive /\ rotator[r].pid = process)
    BY <1>3, <2>1, <2>2, <2>4 DEF RotateSignal, Covered
  <2> QED
    BY <2>3, <2>4
<1>4. ASSUME NEW r \in Rotators, RotateSignal(r, Alive), stage = "opening_token"
      PROVE  rotator[r].pid # process
  <2>1. rotator[r].at = "renamed"
    BY <1>4 DEF RotateSignal
  <2>2. rotator[r].pid \in Nat /\ process \in Nat /\ rotator[r].pid < process
    BY <1>4, <2>1, RotatorTyped DEF TokenInvariant, ProcessesAreKnown, Unnamed, SecretsTypeOK
  <2> QED
    BY <2>2
<1>5. CASE \E r \in Rotators : RotateReadPid(r) /\ Called /\ UNCHANGED failed
  BY <1>1, <1>5 DEF TokenInvariant
<1>6. CASE \E r \in Rotators : RotateRename(r) /\ UNCHANGED <<bound, failed>>
  BY <1>2, <1>6
<1>7. CASE \E r \in Rotators :
             /\ RotateSignal(r, Alive)
             /\ UNCHANGED bound
             /\ failed' = IF Alive /\ rotator[r].pid = process
                          THEN failed ELSE failed \cup {rotator[r].token}
  BY <1>3, <1>4, <1>7 DEF TokenInvariant
<1> QED
  BY <1>5, <1>6, <1>7 DEF Rotate

(***************************************************************************)
(* Every step keeps the invariant of the token.                            *)
(***************************************************************************)
LEMMA TokenStepIsSafe ==
  ASSUME SavesTyped, CutInvariant, TokenInvariant, [Next]_vars
  PROVE  TokenInvariant'
<1>1. CASE UNCHANGED vars
  BY <1>1 DEF TokenInvariant, SecretsTypeOK, ProcessesAreKnown, Covered, vars, secretVars, bootVars
<1>2. CASE Next
  <2> DEFINE Opening == stage = "opening_token" => tokenFile = Started \/ (tokenFile # NoFile /\ Covered)
             Held == stage \in Holding => tokenFile \in Token /\ (slot = tokenFile \/ hup \/ Covered)
  <2>1. SecretsTypeOK' /\ ProcessesAreKnown'
    BY <1>2, SecretsStayTyped, KnownStepIsSafe DEF TokenInvariant
  <2>2. Opening' /\ Held'
    <3>1. CASE UNCHANGED <<tokenFile, slot, hup, rotator, failed>> /\ stage' = stage
      BY <3>1 DEF TokenInvariant, Covered
    <3>2. CASE /\ UNCHANGED <<tokenFile, slot, hup, rotator, failed>>
               /\ stage' # "opening_token" /\ (stage' \in Holding => stage \in Holding)
      BY <3>2 DEF TokenInvariant, Covered
    <3>3. CASE Bind
      BY <3>3 DEF Bind, Holding
    <3>4. CASE LoadToken
      <4>1. CASE Enter("bound", "token") /\ ReadToken
        BY <4>1 DEF Enter, ReadToken
      <4>2. CASE Enter("bound", "opening_token") /\ OpenToken
        BY <4>2 DEF Enter, OpenToken, Holding
      <4>3. CASE Enter("opening_token", "token") /\ WriteToken
        <5>1. drawn + 1 \in Token
          <6>1. drawn \in Nat /\ drawn < MaxTokens
            BY <4>3, NumbersTyped DEF WriteToken, TokenInvariant
          <6> QED
            BY <6>1, DrawnIsToken
        <5>2. CASE tokenFile = Started
          BY <4>3, <5>1, <5>2 DEF Enter, WriteToken
        <5>3. CASE tokenFile # Started
          BY <4>3, <5>3 DEF Enter, WriteToken, TokenInvariant, SecretsTypeOK, Covered
        <5> QED
          BY <5>2, <5>3
      <4> QED
        BY <3>4, <4>1, <4>2, <4>3 DEF LoadToken
    <3>5. CASE WritePid \/ LoadKey \/ Refuse \/ FailStart \/ LoadSnapshot \/ StartServing \/ Stop
                 \/ (\E w \in Writers : EndSave(w) \/ FailSave(w)) \/ Exit \/ Crash \/ HangUp
      <4>1. UNCHANGED <<tokenFile, slot, hup, rotator, failed>>
        BY <3>5 DEF WritePid, LoadKey, Refuse, FailStart, LoadSnapshot, StartServing, Stop, EndSave,
           FailSave, Exit, Crash, HangUp, Die, Enter, OpenKey, WriteKey, secretVars
      <4>2. CASE WritePid \/ LoadKey \/ LoadSnapshot \/ StartServing \/ Stop
        BY <3>2, <4>1, <4>2 DEF WritePid, LoadKey, LoadSnapshot, StartServing, Stop, Enter, Holding
      <4>3. CASE Refuse \/ FailStart \/ Exit \/ Crash \/ HangUp
        BY <4>3 DEF Refuse, FailStart, Exit, Crash, HangUp, Die, Holding
      <4>4. CASE \E w \in Writers : EndSave(w) \/ FailSave(w)
        <5>1. stage' = stage \/ (stage' = "ending" /\ stage = "stopping")
          BY <4>4, ClosesTheFile DEF EndSave, FailSave, Over, CutInvariant
        <5> QED
          BY <3>1, <3>2, <4>1, <5>1 DEF Holding
      <4> QED
        BY <3>5, <4>2, <4>3, <4>4
    <3>6. CASE RegisterBuiltin \/ Request \/ Install \/ TakeSnapshot \/ (\E w \in Writers : BeginSave(w))
      BY <3>1, <3>6 DEF RegisterBuiltin, Request, Install, InstallHandler, TakeSnapshot, BeginSave,
         secretVars, bootVars
    <3>7. CASE ReloadToken
      BY <3>7 DEF ReloadToken, Reload, TokenInvariant, Covered, Holding, bootVars
    <3>8. CASE Rotate
      <4>1. stage' = stage
        BY <3>8 DEF Rotate
      <4> QED
        BY <3>8, <4>1, RotateKeepsToken DEF TokenInvariant
    <3> QED
      BY <1>2, <3>1, <3>2, <3>3, <3>4, <3>5, <3>6, <3>7, <3>8 DEF Next, Start, Work
  <2> QED
    BY <2>1, <2>2 DEF TokenInvariant
<1> QED
  BY <1>1, <1>2

(***************************************************************************)
(* A daemon that has settled takes the token in the file, unless the       *)
(* rotation that wrote it reported a failure: for every number of          *)
(* rotations at once, and of starts, kills and stops in between.           *)
(***************************************************************************)
THEOREM SettledDaemonHasTheToken == Spec => []QuietDaemonHasTheToken
<1>1. Init => TokenInvariant
  <2>1. Init => SecretsTypeOK
    <3>1. 0 \in 0..MaxTokens /\ 0 \in 0..0 /\ 0 \in Nat
      BY SecretsAssumption
    <3>2. SecretsInit => rotator \in [Rotators -> Rotation \cup {NotRotating}]
      BY DEF SecretsInit
    <3>3. SecretsInit => drawn \in 0..MaxTokens /\ process \in Nat /\ pidFile \in 0..process
      BY <3>1 DEF SecretsInit, NoPid
    <3> QED
      BY <3>2, <3>3 DEF Init, SecretsInit, SecretsTypeOK, NoToken
  <2> QED
    BY <2>1 DEF Init, SecretsInit, TokenInvariant, ProcessesAreKnown, Unnamed, Holding, NotRotating
<1>2. SavesTyped /\ CutInvariant /\ TokenInvariant /\ [Next]_vars => TokenInvariant'
  BY TokenStepIsSafe
<1>3. TokenInvariant => QuietDaemonHasTheToken
  BY DEF TokenInvariant, QuietDaemonHasTheToken, Covered, Holding, NotRotating
<1> QED
  BY <1>1, <1>2, <1>3, SavesStayTyped, CutsHold, PTL DEF Spec

-----------------------------------------------------------------------------
(* The webhooks *)

(***************************************************************************)
(* A place of a sequence that is kept has as many kept ones up to it as    *)
(* its number says, and each number has its place.                         *)
(***************************************************************************)
LEMMA RanksCount ==
  ASSUME NEW I, NEW n \in Nat, NEW f \in Bijection(I, 1 .. n), I \subseteq Int,
         \A i, j \in I : j <= i <=> f[j] <= f[i]
  PROVE  /\ Cardinality(I) = n
         /\ \A i \in I : Rank(i, I) = f[i]
<1>1. /\ f \in [I -> 1 .. n] /\ \A i, j \in I : f[i] = f[j] => i = j
      /\ \A k \in 1 .. n : \E i \in I : f[i] = k
  BY DEF Bijection, Injection, Surjection, IsInjective
<1>2. \A k \in 0 .. n : IsFiniteSet(1 .. k) /\ Cardinality(1 .. k) = k
  BY FS_Interval
<1>3. ASSUME NEW k \in 0 .. n
      PROVE  Cardinality({i \in I : f[i] <= k}) = k
  <2> DEFINE A == {i \in I : f[i] <= k}
             g == [m \in 1 .. k |-> CHOOSE i \in I : f[i] = m]
  <2>1. \A m \in 1 .. k : m \in 1 .. n /\ m <= k
    OBVIOUS
  <2>2. \A m \in 1 .. k : g[m] \in I /\ f[g[m]] = m
    BY <1>1, <2>1
  <2>3. \A m \in 1 .. k : g[m] \in A
    BY <2>1, <2>2
  <2>4. \A i \in A : f[i] \in 1 .. k
    BY <1>1
  <2>5. \A i \in A : g[f[i]] = i
    BY <1>1, <2>2, <2>4
  <2>6. g \in [1 .. k -> A]
    BY <2>3
  <2> HIDE DEF g, A
  <2>7. \A l, m \in 1 .. k : g[l] = g[m] => l = m
    BY <2>2
  <2>8. \A i \in A : \E m \in 1 .. k : g[m] = i
    BY <2>4, <2>5
  <2>9. g \in Bijection(1 .. k, A)
    BY <2>6, <2>7, <2>8, Fun_IsBij
  <2>10. ExistsBijection(1 .. k, A)
    BY <2>9 DEF ExistsBijection
  <2>11. IsFiniteSet(1 .. k) /\ Cardinality(1 .. k) = k
    BY <1>2
  <2>12. Cardinality(A) = k
    BY <2>10, <2>11, FS_Bijection
  <2> QED
    BY <2>12 DEF A
<1>4. {i \in I : f[i] <= n} = I
  <2>1. \A i \in I : f[i] <= n
    BY <1>1
  <2> QED
    BY <2>1
<1>5. ASSUME NEW i \in I
      PROVE  Rank(i, I) = f[i]
  <2>1. {j \in I : j <= i} = {j \in I : f[j] <= f[i]}
    OBVIOUS
  <2>2. f[i] \in 0 .. n
    BY <1>1
  <2> QED
    BY <1>3, <2>1, <2>2 DEF Rank
<1>6. n \in 0 .. n
  OBVIOUS
<1> QED
  BY <1>3, <1>4, <1>5, <1>6

(***************************************************************************)
(* So what is kept of a sequence is read off the numbers of its places.    *)
(***************************************************************************)
LEMMA KeptByRank ==
  ASSUME NEW s, NEW I, NEW n \in Nat, NEW f \in Bijection(I, 1 .. n), I \subseteq Int,
         \A i, j \in I : j <= i <=> f[j] <= f[i]
  PROVE  /\ Kept(s, I) = [k \in 1 .. n |-> Kept(s, I)[k]]
         /\ \A i \in I : f[i] \in 1 .. n /\ Kept(s, I)[f[i]] = s[i]
         /\ \A k \in 1 .. n : \E i \in I : f[i] = k
<1>1. Cardinality(I) = n /\ \A i \in I : Rank(i, I) = f[i]
  BY RanksCount
<1>2. /\ f \in [I -> 1 .. n] /\ \A i, j \in I : f[i] = f[j] => i = j
      /\ \A k \in 1 .. n : \E i \in I : f[i] = k
  BY DEF Bijection, Injection, Surjection, IsInjective
<1>3. Kept(s, I) = [k \in 1 .. n |-> s[CHOOSE i \in I : Rank(i, I) = k]]
  BY <1>1 DEF Kept
<1>4. ASSUME NEW i \in I
      PROVE  Kept(s, I)[f[i]] = s[i]
  <2>1. f[i] \in 1 .. n
    BY <1>2
  <2>2. \A j \in I : Rank(j, I) = f[i] => j = i
    BY <1>1, <1>2
  <2>3. (CHOOSE j \in I : Rank(j, I) = f[i]) = i
    BY <1>1, <2>2
  <2> QED
    BY <1>3, <2>1, <2>3
<1> QED
  BY <1>2, <1>3, <1>4

(***************************************************************************)
(* The places that are kept of a sequence have such numbers.               *)
(***************************************************************************)
LEMMA PlacesAreRanked ==
  ASSUME NEW n \in Nat, NEW I \in SUBSET (1 .. n)
  PROVE  /\ Cardinality(I) \in Nat
         /\ \E f \in Bijection(I, 1 .. Cardinality(I)) : \A i, j \in I : j <= i <=> f[j] <= f[i]
<1> DEFINE Upto(i) == {j \in I : j <= i}
           c == Cardinality(I)
           f == [i \in I |-> Cardinality(Upto(i))]
<1>1. IsFiniteSet(I) /\ c \in Nat
  <2>1. IsFiniteSet(1 .. n)
    BY FS_Interval
  <2>2. IsFiniteSet(I)
    BY <2>1, FS_Subset
  <2> QED
    BY <2>2, FS_CardinalityType
<1>2. \A i \in I : i \in Int
  OBVIOUS
<1>3. ASSUME NEW i \in I
      PROVE  /\ IsFiniteSet(Upto(i)) /\ Cardinality(Upto(i)) \in 1 .. c
             /\ \A j \in I : j < i => Cardinality(Upto(j)) < Cardinality(Upto(i))
  <2>1. Upto(i) \in SUBSET I /\ i \in Upto(i)
    BY <1>2
  <2>2. IsFiniteSet(Upto(i)) /\ Cardinality(Upto(i)) <= c /\ Cardinality(Upto(i)) \in Nat
    BY <1>1, <2>1, FS_Subset, FS_CardinalityType
  <2>3. Cardinality(Upto(i)) # 0
    BY <2>1, <2>2, FS_EmptySet
  <2>4. ASSUME NEW j \in I, j < i
        PROVE  Cardinality(Upto(j)) < Cardinality(Upto(i))
    <3>0. \A k \in I : k <= j => k <= i
      BY <1>2, <2>4
    <3>1. Upto(j) \in SUBSET Upto(i)
      BY <3>0
    <3>2. i \notin Upto(j)
      BY <1>2, <2>4
    <3> HIDE DEF Upto
    <3>3. Upto(j) # Upto(i)
      BY <2>1, <3>2
    <3>4. /\ IsFiniteSet(Upto(j)) /\ Cardinality(Upto(j)) <= Cardinality(Upto(i))
          /\ Cardinality(Upto(j)) # Cardinality(Upto(i))
      BY <2>2, <3>1, <3>3, FS_Subset
    <3>5. Cardinality(Upto(j)) \in Nat
      BY <3>4, FS_CardinalityType
    <3> QED
      BY <2>2, <3>4, <3>5
  <2> HIDE DEF Upto, c
  <2>5. Cardinality(Upto(i)) \in 1 .. c
    BY <1>1, <2>2, <2>3
  <2> QED
    BY <2>2, <2>4, <2>5
<1>4. \A i \in I : f[i] \in 1 .. c /\ f[i] = Cardinality(Upto(i))
  BY <1>3
<1>5. \A i, j \in I : j < i => f[j] < f[i]
  BY <1>3, <1>4
<1>6. f \in [I -> 1 .. c]
  BY <1>4
<1> HIDE DEF f, c, Upto
<1>7. \A i, j \in I : f[i] \in Int /\ (i < j \/ i = j \/ j < i)
  BY <1>1, <1>2, <1>4
<1>8. \A i, j \in I : f[i] = f[j] => i = j
  BY <1>5, <1>7
<1>9. \A i, j \in I : j <= i <=> f[j] <= f[i]
  BY <1>2, <1>5, <1>7
<1>10. f \in Injection(I, 1 .. c)
  BY <1>6, <1>8 DEF Injection, IsInjective
<1>11. IsFiniteSet(1 .. c) /\ Cardinality(1 .. c) = c
  BY <1>1, FS_Interval
<1>12. f \in Surjection(I, 1 .. c)
  BY <1>10, <1>11, FS_Injection DEF c
<1>13. f \in Bijection(I, 1 .. c)
  BY <1>10, <1>12 DEF Bijection
<1> QED
  BY <1>1, <1>9, <1>13 DEF c

(***************************************************************************)
(* What is kept of a list of webhooks are webhooks of it.                  *)
(***************************************************************************)
LEMMA KeptFacts ==
  ASSUME NEW S, NEW s \in Seq(S), NEW I \in SUBSET DOMAIN s
  PROVE  /\ Kept(s, I) \in Seq(S)
         /\ \A k \in DOMAIN Kept(s, I) : \E i \in I : Kept(s, I)[k] = s[i]
<1> DEFINE c == Cardinality(I)
<1>1. Len(s) \in Nat /\ I \in SUBSET (1 .. Len(s))
  OBVIOUS
<1>2. c \in Nat
  BY <1>1, PlacesAreRanked
<1>3. PICK f \in Bijection(I, 1 .. c) : \A i, j \in I : j <= i <=> f[j] <= f[i]
  BY <1>1, PlacesAreRanked
<1>4. I \subseteq Int
  BY <1>1
<1> HIDE DEF c
<1>5. /\ Kept(s, I) = [k \in 1 .. c |-> Kept(s, I)[k]]
      /\ \A i \in I : f[i] \in 1 .. c /\ Kept(s, I)[f[i]] = s[i]
      /\ \A k \in 1 .. c : \E i \in I : f[i] = k
  BY <1>2, <1>3, <1>4, KeptByRank
<1>6. DOMAIN Kept(s, I) = 1 .. c
  BY <1>5
<1>7. \A k \in 1 .. c : \E i \in I : Kept(s, I)[k] = s[i]
  BY <1>5
<1>8. \A k \in 1 .. c : Kept(s, I)[k] \in S
  BY <1>1, <1>7
<1>9. Kept(s, I) \in Seq(S)
  <2> DEFINE kept == Kept(s, I)
  <2>1. kept = [k \in 1 .. c |-> kept[k]] /\ \A k \in 1 .. c : kept[k] \in S
    BY <1>5, <1>8
  <2> HIDE DEF kept
  <2>2. kept \in [1 .. c -> S]
    BY <2>1
  <2>3. kept \in Seq(S)
    BY <1>2, <2>2
  <2> QED
    BY <2>3 DEF kept
<1> QED
  BY <1>6, <1>7, <1>9

\* A map of webhooks as the store keeps it: no empty list, each under its task.
HooksWhole(h) ==
  /\ h = [t \in DOMAIN h |-> h[t]]
  /\ DOMAIN h \subseteq WebhookTasks
  /\ \A t \in DOMAIN h :
       h[t] \in Seq(WebhookConfig) /\ h[t] # <<>> /\ \A i \in DOMAIN h[t] : h[t][i].task = t

\* What AllHooks says of the map of the store, said of any map.
PlacesOf(h) == UNION {{t} \X DOMAIN h[t] : t \in DOMAIN h}

Flattened(h) ==
  {[k \in DOMAIN order |-> h[order[k][1]][order[k][2]]] :
     order \in {o \in Bijection(1 .. Cardinality(PlacesOf(h)), PlacesOf(h)) : ListByList(o)}}

(***************************************************************************)
(* restore gives back the map whose lists all put one after the other, in  *)
(* whatever order the hash map had them (all, restore).                    *)
(***************************************************************************)
LEMMA RestoreGivesBack ==
  ASSUME NEW h, HooksWhole(h), NEW saved \in Flattened(h), RestoreHooks(saved)
  PROVE  hooks' = h
<1> DEFINE P == PlacesOf(h)
           D == 1 .. Cardinality(P)
           At(t) == {i \in DOMAIN saved : saved[i].task = t}
<1>1. PICK o \in Bijection(D, P) : /\ ListByList(o)
                                   /\ saved = [k \in DOMAIN o |-> h[o[k][1]][o[k][2]]]
  BY DEF Flattened
<1>2. /\ o \in [D -> P] /\ \A j, k \in D : o[j] = o[k] => j = k
      /\ \A x \in P : \E k \in D : o[k] = x
  BY DEF Bijection, Injection, Surjection, IsInjective
<1>3. /\ \A x \in P : /\ x = <<x[1], x[2]>> /\ x[1] \in DOMAIN h /\ x[2] \in DOMAIN h[x[1]]
      /\ \A t \in DOMAIN h : \A i \in DOMAIN h[t] : <<t, i>> \in P
  BY DEF PlacesOf
<1>4. \A t \in DOMAIN h : /\ Len(h[t]) \in Nat /\ DOMAIN h[t] = 1 .. Len(h[t])
                          /\ h[t] = [i \in 1 .. Len(h[t]) |-> h[t][i]] /\ 1 \in DOMAIN h[t]
  <2> SUFFICES ASSUME NEW t \in DOMAIN h
               PROVE  /\ Len(h[t]) \in Nat /\ DOMAIN h[t] = 1 .. Len(h[t])
                      /\ h[t] = [i \in 1 .. Len(h[t]) |-> h[t][i]] /\ 1 \in DOMAIN h[t]
    OBVIOUS
  <2> DEFINE s == h[t]
  <2>1. s \in Seq(WebhookConfig) /\ s # <<>>
    BY DEF HooksWhole
  <2> HIDE DEF s
  <2>2. Len(s) \in Nat /\ DOMAIN s = 1 .. Len(s) /\ s = [i \in 1 .. Len(s) |-> s[i]] /\ Len(s) # 0
    BY <2>1
  <2>3. 1 \in DOMAIN s
    BY <2>2
  <2> QED
    BY <2>2, <2>3 DEF s
<1>5. D \subseteq Int
  OBVIOUS
<1> HIDE DEF P, D
<1>6. /\ DOMAIN saved = D
      /\ \A k \in D : /\ o[k] = <<o[k][1], o[k][2]>> /\ o[k][1] \in DOMAIN h
                      /\ o[k][2] \in DOMAIN h[o[k][1]]
                      /\ saved[k] = h[o[k][1]][o[k][2]] /\ saved[k].task = o[k][1]
  <2>1. DOMAIN saved = D /\ \A k \in D : saved[k] = h[o[k][1]][o[k][2]]
    BY <1>1, <1>2
  <2>2. ASSUME NEW k \in D
        PROVE  /\ o[k] = <<o[k][1], o[k][2]>> /\ o[k][1] \in DOMAIN h
               /\ o[k][2] \in DOMAIN h[o[k][1]]
    <3>1. o[k] \in P
      BY <1>2
    <3> QED
      BY <1>3, <3>1
  <2>3. \A t \in DOMAIN h : \A i \in DOMAIN h[t] : h[t][i].task = t
    BY DEF HooksWhole
  <2> QED
    BY <2>1, <2>2, <2>3
<1>7. {saved[i].task : i \in DOMAIN saved} = DOMAIN h
  <2>1. \A t \in DOMAIN h : \E k \in D : o[k] = <<t, 1>>
    BY <1>2, <1>3, <1>4
  <2>2. \A t \in DOMAIN h : \E k \in D : saved[k].task = t
    BY <1>6, <2>1
  <2>3. DOMAIN saved = D /\ \A i \in D : saved[i].task \in DOMAIN h
    BY <1>6
  <2> QED
    BY <2>2, <2>3
<1>8. ASSUME NEW t \in DOMAIN h
      PROVE  Kept(saved, At(t)) = h[t]
  <2> DEFINE I == At(t)
             n == Len(h[t])
             f == [i \in I |-> o[i][2]]
             kept == Kept(saved, I)
  <2>1. I \subseteq D /\ \A i \in D : i \in I <=> o[i][1] = t
    BY <1>6
  <2>2. n \in Nat /\ DOMAIN h[t] = 1 .. n /\ h[t] = [k \in 1 .. n |-> h[t][k]]
    BY <1>4
  <2> HIDE DEF I
  <2>3. \A i \in I : f[i] = o[i][2] /\ f[i] \in 1 .. n /\ saved[i] = h[t][f[i]]
    BY <1>6, <2>1, <2>2
  <2>4. f \in [I -> 1 .. n]
    BY <2>3
  <2>5. \A i, j \in I : i \in Int /\ j \in Int /\ f[i] \in Int /\ f[j] \in Int
    BY <1>5, <2>1, <2>3
  <2>6. \A i, j \in I : j < i => f[j] < f[i]
    BY <1>1, <1>2, <2>1, <2>3 DEF ListByList
  <2>7. \A i, j \in I : j <= i <=> f[j] <= f[i]
    BY <2>5, <2>6
  <2>8. \A i, j \in I : f[i] = f[j] => i = j
    BY <2>5, <2>6
  <2>9. ASSUME NEW k \in 1 .. n
        PROVE  \E i \in I : f[i] = k
    <3>1. PICK i \in D : o[i] = <<t, k>>
      BY <1>2, <1>3, <2>2
    <3>2. o[i][1] = t /\ o[i][2] = k
      BY <3>1
    <3>3. i \in I
      BY <2>1, <3>2
    <3> QED
      BY <2>3, <3>2, <3>3
  <2> HIDE DEF f, n
  <2>10. f \in Bijection(I, 1 .. n)
    BY <2>4, <2>8, <2>9, Fun_IsBij
  <2>11. I \subseteq Int
    BY <1>5, <2>1
  <2>12. /\ kept = [k \in 1 .. n |-> kept[k]]
         /\ \A i \in I : kept[f[i]] = saved[i]
    BY <2>2, <2>7, <2>10, <2>11, KeptByRank
  <2> HIDE DEF kept
  <2>13. \A k \in 1 .. n : kept[k] = h[t][k]
    BY <2>3, <2>9, <2>12
  <2>14. kept = h[t]
    BY <2>2, <2>12, <2>13
  <2> QED
    BY <2>14 DEF kept, I
<1>9. hooks' = [t \in {saved[i].task : i \in DOMAIN saved} |-> Kept(saved, At(t))]
  BY DEF RestoreHooks
<1> HIDE DEF At
<1>10. hooks' = [t \in DOMAIN h |-> Kept(saved, At(t))]
  BY <1>7, <1>9
<1>11. hooks' = [t \in DOMAIN h |-> h[t]]
  BY <1>8, <1>10
<1> QED
  BY <1>11 DEF HooksWhole

(***************************************************************************)
(* A new webhook goes to the end of the list of its task (create).         *)
(***************************************************************************)
LEMMA CreateKeepsHooks ==
  ASSUME HooksWhole(hooks), NEW t \in WebhookTasks, NEW w \in WebhookIds, NEW url \in Urls,
         CreateHook(t, w, url)
  PROVE  HooksWhole(hooks)'
<1> DEFINE new == [id |-> w, task |-> t, url |-> url]
           list == Hooks(t)
           longer == Append(list, new)
<1>1. hooks' = [u \in DOMAIN hooks \cup {t} |-> IF u = t THEN longer ELSE hooks[u]]
  BY DEF CreateHook
<1>2. list \in Seq(WebhookConfig) /\ \A i \in DOMAIN list : list[i].task = t
  <2>1. <<>> \in Seq(WebhookConfig) /\ DOMAIN <<>> = {}
    OBVIOUS
  <2> QED
    BY <2>1 DEF Hooks, HooksWhole
<1>3. new \in WebhookConfig /\ new.task = t
  BY DEF WebhookConfig
<1> HIDE DEF new, list
<1>4. /\ longer \in Seq(WebhookConfig) /\ longer # <<>>
      /\ \A i \in DOMAIN longer : longer[i].task = t
  <2>1. /\ longer \in Seq(WebhookConfig) /\ Len(longer) = Len(list) + 1
        /\ \A i \in 1 .. Len(list) : longer[i] = list[i]
        /\ longer[Len(list) + 1] = new
    BY <1>2, <1>3
  <2>2. Len(list) \in Nat /\ DOMAIN list = 1 .. Len(list)
    BY <1>2
  <2> HIDE DEF longer
  <2>3. DOMAIN longer = 1 .. Len(list) + 1 /\ Len(longer) # 0
    BY <2>1, <2>2
  <2>4. \A i \in 1 .. Len(list) + 1 : i \in 1 .. Len(list) \/ i = Len(list) + 1
    BY <2>2
  <2>5. longer # <<>>
    BY <2>3
  <2> QED
    BY <1>2, <1>3, <2>1, <2>2, <2>3, <2>4, <2>5
<1> HIDE DEF longer
<1>5. DOMAIN hooks' = DOMAIN hooks \cup {t} /\ hooks' = [u \in DOMAIN hooks' |-> hooks'[u]]
  BY <1>1
<1>6. \A u \in DOMAIN hooks' : hooks'[u] = IF u = t THEN longer ELSE hooks[u]
  BY <1>1
<1> QED
  BY <1>4, <1>5, <1>6 DEF HooksWhole

(***************************************************************************)
(* What is left of a list is a list of the same task, and the entry goes   *)
(* when nothing is left (delete).                                          *)
(***************************************************************************)
LEMMA DeleteKeepsHooks ==
  ASSUME HooksWhole(hooks), NEW t \in WebhookTasks, NEW w \in WebhookIds, DeleteHook(t, w)
  PROVE  HooksWhole(hooks)'
<1> DEFINE list == hooks[t]
           I == {i \in DOMAIN list : list[i].id # w}
           kept == Kept(list, I)
           left == DOMAIN hooks \ {x \in {t} : kept = <<>>}
<1>1. t \in DOMAIN hooks
  BY DEF DeleteHook, Hook, Hooks, Range
<1>2. hooks' = [u \in left |-> IF u = t THEN kept ELSE hooks[u]]
  BY DEF DeleteHook
<1>3. list \in Seq(WebhookConfig) /\ \A i \in DOMAIN list : list[i].task = t
  BY <1>1 DEF HooksWhole
<1>4. I \in SUBSET DOMAIN list
  OBVIOUS
<1> HIDE DEF list, I
<1>5. kept \in Seq(WebhookConfig) /\ \A k \in DOMAIN kept : \E i \in I : kept[k] = list[i]
  BY <1>3, <1>4, KeptFacts
<1> HIDE DEF kept
<1>6. \A k \in DOMAIN kept : kept[k].task = t
  BY <1>3, <1>4, <1>5
<1>7. DOMAIN hooks' = left /\ hooks' = [u \in DOMAIN hooks' |-> hooks'[u]]
  BY <1>2
<1>8. \A u \in DOMAIN hooks' : hooks'[u] = (IF u = t THEN kept ELSE hooks[u]) /\ (u = t => kept # <<>>)
  BY <1>2
<1> QED
  BY <1>5, <1>6, <1>7, <1>8 DEF HooksWhole

\* An image has the webhooks of such a map.
HooksSaved(image) == \E h : HooksWhole(h) /\ image.hooks \in Flattened(h)

HookInvariant == HooksWhole(hooks) /\ \A image \in Images : HooksSaved(image)

(***************************************************************************)
(* Every step keeps the webhooks, and what is saved of them, as they must  *)
(* be (create, delete, restore, to_snapshot).                              *)
(***************************************************************************)
LEMMA HookStepIsSafe ==
  ASSUME SavesTyped, HookInvariant, [Next]_vars
  PROVE  HookInvariant'
<1>1. HooksWhole(hooks)'
  <2>1. CASE UNCHANGED hooks
    BY <2>1 DEF HookInvariant
  <2>2. CASE LoadSnapshot
    <3>1. CASE disk = Nothing
      <4>1. hooks' = [t \in {} |-> <<>>]
        BY <2>2, <3>1, KindsDiffer DEF LoadSnapshot
      <4> QED
        BY <4>1 DEF HooksWhole
    <3>2. CASE disk.at = "saved"
      <4>1. RestoreHooks(disk.image.hooks) /\ disk.image \in Images
        BY <2>2, <3>2, KindsDiffer DEF LoadSnapshot, Images
      <4>2. PICK h : HooksWhole(h) /\ disk.image.hooks \in Flattened(h)
        BY <4>1 DEF HookInvariant, HooksSaved
      <4>3. hooks' = h
        BY <4>1, <4>2, RestoreGivesBack
      <4> QED
        BY <4>2, <4>3
    <3> QED
      BY <2>2, <3>1, <3>2 DEF LoadSnapshot
  <2>3. CASE Request
    <3>1. CASE WebhookRequest
      BY <3>1, CreateKeepsHooks, DeleteKeepsHooks DEF WebhookRequest, HookInvariant
    <3>2. CASE ToolRequest \/ ChatRequest
      BY <2>1, <3>2 DEF ToolRequest, ChatRequest
    <3> QED
      BY <2>3, <3>1, <3>2 DEF Request
  <2> QED
    BY <2>1, <2>2, <2>3, WhoChangesServices DEF serviceVars, RegisterBuiltin
<1>2. AllHooks = Flattened(hooks)
  BY DEF AllHooks, Flattened, Places, PlacesOf
<1>3. \A image \in Snapshots : HooksSaved(image)
  BY <1>2 DEF HookInvariant, HooksSaved, Snapshots, Snapshot
<1>4. \A image \in Images' : HooksSaved(image)
  BY <1>3, WhatIsSaved DEF HookInvariant
<1> QED
  BY <1>1, <1>4 DEF HookInvariant, HooksSaved

-----------------------------------------------------------------------------
(* Types *)

ChatsTyped(cs) ==
  DOMAIN cs \subseteq ConversationIds /\ cs \in [DOMAIN cs -> (SUBSET AgentIds) \ {{}}]

TypeInvariant ==
  /\ SavesTyped /\ CutInvariant
  /\ TokenInvariant /\ ToolInvariant /\ ChatInvariant /\ HookInvariant
  /\ ChatsTyped(conversations)
  /\ \A image \in Images : ChatsTyped(image.chat.conversations)
  /\ stage \in Stages
  /\ disk.at \in {"nothing", "torn", "saved"}
  /\ orderly \in BOOLEAN
  /\ cut \subseteq {"token", "key", "snapshot"}
  /\ failed \subseteq Token

(***************************************************************************)
(* The file stays none, torn or readable.                                  *)
(***************************************************************************)
LEMMA DiskStaysTyped ==
  ASSUME SavesTyped, Next
  PROVE  disk' = disk \/ disk'.at \in {"torn", "saved"}
<1>1. CASE disk' = disk
  BY <1>1
<1>2. ASSUME NEW w \in Writers, BeginSave(w) \/ EndSave(w) \/ FailSave(w)
      PROVE  disk' = disk \/ disk'.at \in {"torn", "saved"}
  BY <1>2, OpensTheFile, ClosesTheFile, KindsDiffer DEF BeginSave, EndSave, FailSave
<1>3. CASE TakeSnapshot \/ Stop
  BY <1>3 DEF TakeSnapshot, Stop, Takes
<1> QED
  BY <1>1, <1>2, <1>3
  DEF Next, Start, Work, Bind, LoadToken, WritePid, LoadKey, Refuse, FailStart, LoadSnapshot,
      StartServing, Request, Install, RegisterBuiltin, ReloadToken, Rotate, Exit, Crash, HangUp,
      Die, DiskSame, fileVars

(***************************************************************************)
(* The stages and the histories stay what they are.                        *)
(***************************************************************************)
LEMMA BootStaysTyped ==
  ASSUME TypeInvariant, Next
  PROVE  /\ stage' \in Stages
         /\ orderly' \in BOOLEAN
         /\ cut' \subseteq {"token", "key", "snapshot"}
         /\ failed' \subseteq Token
<1> USE DEF TypeInvariant
<1>1. failed' \subseteq Token
  <2>1. CASE Rotate
    <3>1. \A r \in Rotators : \A alive : RotateSignal(r, alive) => rotator[r].token \in Token
      BY RotatorTyped DEF RotateSignal, TokenInvariant
    <3> QED
      BY <2>1, <3>1 DEF Rotate
  <2>2. CASE UNCHANGED failed
    BY <2>2
  <2> QED
    BY <2>1, <2>2
    DEF Next, Start, Work, Bind, LoadToken, WritePid, LoadKey, Refuse, FailStart, LoadSnapshot,
        StartServing, Request, Install, RegisterBuiltin, ReloadToken, TakeSnapshot, BeginSave,
        EndSave, FailSave, Stop, Exit, Crash, HangUp, Die, Enter, bootVars
<1>2. stage' \in Stages
  BY DEF Stages, Dead, Starting, Serving, Next, Start, Work, Bind, LoadToken, WritePid,
         LoadKey, Refuse, FailStart, LoadSnapshot, StartServing, Request, Install, RegisterBuiltin,
         ReloadToken, Rotate, TakeSnapshot, BeginSave, EndSave, FailSave, Over, Stop, Exit, Crash,
         HangUp, Die, Enter, bootVars
<1>3. orderly' \in BOOLEAN
  BY DEF Next, Start, Work, Bind, LoadToken, WritePid,
         LoadKey, Refuse, FailStart, LoadSnapshot, StartServing, Request, Install, RegisterBuiltin,
         ReloadToken, Rotate, TakeSnapshot, BeginSave, EndSave, FailSave, Stop, Exit, Crash,
         HangUp, Die, bootVars
<1>4. cut' \subseteq cut \cup {"snapshot"} \cup CutShort
  BY DEF Next, Start, Work, Bind, LoadToken, WritePid,
         LoadKey, Refuse, FailStart, LoadSnapshot, StartServing, Request, Install, RegisterBuiltin,
         ReloadToken, Rotate, TakeSnapshot, BeginSave, EndSave, FailSave, Stop, Exit, Crash,
         HangUp, Die, Enter, bootVars
<1>5. cut' \subseteq {"token", "key", "snapshot"}
  BY <1>4 DEF CutShort
<1> QED
  BY <1>1, <1>2, <1>3, <1>5

(***************************************************************************)
(* A conversation is created under an id of the ids, among agents.         *)
(***************************************************************************)
LEMMA ChatsStayTyped ==
  ASSUME TypeInvariant, Next
  PROVE  /\ ChatsTyped(conversations)'
         /\ \A image \in Images' : ChatsTyped(image.chat.conversations)
<1>1. ChatsTyped(conversations)'
  <2>1. CASE UNCHANGED conversations
    BY <2>1 DEF TypeInvariant
  <2>2. CASE LoadSnapshot
    <3>1. CASE disk = Nothing
      <4>1. conversations' = EmptyMap
        BY <2>2, <3>1, KindsDiffer DEF LoadSnapshot
      <4>2. ChatsTyped(EmptyMap)
        BY DEF ChatsTyped, EmptyMap
      <4> QED
        BY <4>1, <4>2
    <3>2. CASE disk.at = "saved"
      <4>1. RestoreChat(disk.image.chat) /\ disk.image \in Images
        BY <2>2, <3>2, KindsDiffer DEF LoadSnapshot, Images
      <4> QED
        BY <4>1 DEF RestoreChat, TypeInvariant
    <3> QED
      BY <2>2, <3>1, <3>2 DEF LoadSnapshot
  <2>3. ASSUME NEW c \in ConversationIds, NEW P \in SUBSET AgentIds, CreateConversation(c, P)
        PROVE  ChatsTyped(conversations)'
    <3>1. P # {} /\ conversations' = With(conversations, c, P)
      BY <2>3 DEF CreateConversation
    <3>2. ChatsTyped(With(conversations, c, P))
      <4> DEFINE Participants == (SUBSET AgentIds) \ {{}}
                 more == With(conversations, c, P)
      <4>1. P \in Participants
        BY <3>1
      <4>2. DOMAIN conversations \subseteq ConversationIds
        BY DEF TypeInvariant, ChatsTyped
      <4>3. \A d \in DOMAIN conversations : conversations[d] \in Participants
        BY DEF TypeInvariant, ChatsTyped
      <4> HIDE DEF Participants
      <4>4. /\ DOMAIN more = DOMAIN conversations \cup {c}
            /\ more = [d \in DOMAIN conversations \cup {c} |-> IF d = c THEN P ELSE conversations[d]]
        BY DEF With
      <4>5. more \in [DOMAIN more -> Participants]
        BY <4>1, <4>3, <4>4
      <4> QED
        BY <4>2, <4>4, <4>5 DEF ChatsTyped, Participants
    <3> QED
      BY <3>1, <3>2
  <2>4. CASE Request
    BY <2>1, <2>3, <2>4 DEF Request, ToolRequest, ChatRequest, WebhookRequest, SendMessage
  <2> QED
    BY <2>1, <2>2, <2>4, WhoChangesServices DEF serviceVars, RegisterBuiltin
<1>2. \A image \in Snapshots : image.chat.conversations = conversations
  BY DEF Snapshots, Snapshot, SavedChat
<1>3. \A image \in Images' : ChatsTyped(image.chat.conversations)
  BY <1>2, WhatIsSaved DEF TypeInvariant
<1> QED
  BY <1>1, <1>3

(***************************************************************************)
(* Every variable of the daemon stays in its type, through kills and       *)
(* restarts: what is read from the files is what a process wrote.          *)
(***************************************************************************)
LEMMA TypeStepIsSafe ==
  ASSUME TypeInvariant, [Next]_vars
  PROVE  TypeInvariant'
<1>1. SavesTyped /\ CutInvariant /\ TokenInvariant /\ ToolInvariant /\ ChatInvariant /\ HookInvariant
  BY DEF TypeInvariant
<1>2. /\ SavesTyped' /\ CutInvariant' /\ TokenInvariant'
      /\ ToolInvariant' /\ ChatInvariant' /\ HookInvariant'
  BY <1>1, WhatIsSaved, CutStepIsSafe, TokenStepIsSafe, ToolStepIsSafe, ChatStepIsSafe,
     HookStepIsSafe
<1>3. CASE UNCHANGED vars
  <2>1. UNCHANGED <<conversations, disk, save, stage, orderly, cut, failed>>
    BY <1>3 DEF vars, serviceVars, fileVars, bootVars
  <2> QED
    BY <1>2, <2>1 DEF TypeInvariant, ChatsTyped, Images
<1>4. CASE Next
  <2>1. disk'.at \in {"nothing", "torn", "saved"}
    BY <1>1, <1>4, DiskStaysTyped DEF TypeInvariant
  <2> QED
    BY <1>2, <1>4, <2>1, BootStaysTyped, ChatsStayTyped DEF TypeInvariant
<1> QED
  BY <1>3, <1>4

(***************************************************************************)
(* The initial state is typed, and so is every one after it (BootTypeOK).  *)
(***************************************************************************)
LEMMA TypesHold == Spec => []TypeInvariant
<1>1. Init => TypeInvariant
  <2> SUFFICES ASSUME Init
               PROVE  TypeInvariant
    OBVIOUS
  <2>1. SecretsTypeOK
    <3>1. 0 \in 0 .. MaxTokens /\ 0 \in 0 .. 0 /\ 0 \in Nat
      BY SecretsAssumption
    <3>2. rotator \in [Rotators -> Rotation \cup {NotRotating}]
      BY DEF Init, SecretsInit
    <3>3. drawn \in 0 .. MaxTokens /\ process \in Nat /\ pidFile \in 0 .. process
      BY <3>1 DEF Init, SecretsInit, NoPid
    <3> QED
      BY <3>2, <3>3 DEF Init, SecretsInit, SecretsTypeOK, NoToken
  <2>2. TokenInvariant
    BY <2>1 DEF Init, SecretsInit, TokenInvariant, ProcessesAreKnown, Unnamed, Holding, NotRotating
  <2>3. ToolInvariant
    BY NothingSaved DEF Init, ToolInit, ToolInvariant, ToolTypeOK, ToolIndexExact, Tools
  <2>4. ChatInvariant
    BY NothingSaved DEF Init, ChatInit, ChatInvariant, ChatsWhole, Whole, EmptyMap
  <2>5. HookInvariant
    BY NothingSaved DEF Init, WebhookInit, HookInvariant, HooksWhole
  <2>6. ChatsTyped(conversations)
    <3>1. ChatsTyped(EmptyMap)
      BY DEF ChatsTyped, EmptyMap
    <3> QED
      BY <3>1 DEF Init, ChatInit
  <2>7. CutInvariant
    BY SecretsAssumption, KindsDiffer DEF Init, SecretsInit, CutInvariant, NoSaves, Writers
  <2> QED
    BY <2>2, <2>3, <2>4, <2>5, <2>6, <2>7, NothingSaved, KindsDiffer
    DEF Init, TypeInvariant, Stages, Dead
<1>2. TypeInvariant /\ [Next]_vars => TypeInvariant'
  BY TypeStepIsSafe
<1> QED
  BY <1>1, <1>2, PTL DEF Spec

(***************************************************************************)
(* The variables of the daemon are in their types in every reachable       *)
(* state: a start reads from its files what a process has written, and no  *)
(* list of webhooks is left empty (core/push_notifications.rs delete,      *)
(* state/snapshot.rs).                                                     *)
(***************************************************************************)
THEOREM DaemonTypesCorrect == Spec => []BootTypeOK
<1>1. TypeInvariant => BootTypeOK
  <2> SUFFICES ASSUME TypeInvariant
               PROVE  BootTypeOK
    OBVIOUS
  <2>1. SecretsTypeOK /\ ToolTypeOK
    BY DEF TypeInvariant, TokenInvariant, ToolInvariant
  <2>2. ChatTypeOK
    <3>1. DOMAIN conversations \subseteq ConversationIds
      BY DEF TypeInvariant, ChatsTyped
    <3>2. conversations \in [DOMAIN conversations -> (SUBSET AgentIds) \ {{}}]
      BY DEF TypeInvariant, ChatsTyped
    <3>3. /\ messages = [c \in DOMAIN messages |-> messages[c]]
          /\ DOMAIN messages = DOMAIN conversations
          /\ \A c \in DOMAIN messages : messages[c] \in Seq(ChatMessage)
      BY DEF TypeInvariant, ChatInvariant, ChatsWhole, Whole
    <3>4. messages \in [DOMAIN messages -> Seq(ChatMessage)]
      BY <3>3
    <3> QED
      BY <3>1, <3>2, <3>3, <3>4 DEF ChatTypeOK
  <2>3. WebhookTypeOK
    BY DEF TypeInvariant, HookInvariant, HooksWhole, WebhookTypeOK
  <2>4. \A w \in Writers : save[w].at \in {"nothing", "taken"} \cup Open
    BY KindsDiffer DEF TypeInvariant, SavesTyped
  <2> QED
    BY <2>1, <2>2, <2>3, <2>4 DEF TypeInvariant, BootTypeOK
<1> QED
  BY <1>1, TypesHold, PTL

-----------------------------------------------------------------------------
(* A start after an orderly stop *)

\* A readable file that has the services as they are.
Current(file) == file.at = "saved" /\ file.image \in Snapshots

\* Until the services are restored, they are what the process before has saved.
OrderlyInvariant ==
  /\ \A k \in Tools : ValidName(tools[k].name)
  /\ orderly =>
       /\ stage # "up"
       /\ stage = "stopping" =>
            /\ save["shutdown"].image \in Snapshots
            /\ save["shutdown"].at # "shared"
            /\ save["shutdown"].at = "writing" => save["timer"].at \notin Open
       /\ stage = "ending" => Current(disk) /\ save["timer"].at \notin Open
       /\ stage \in (Dead \cup Starting) \ {"restored"} => Current(disk)

(***************************************************************************)
(* What leaves the services alone leaves open what their snapshots are.    *)
(***************************************************************************)
LEMMA SnapshotsStay ==
  ASSUME UNCHANGED serviceVars
  PROVE  Snapshots' = Snapshots
<1>1. SavedChat' = SavedChat /\ AllHooks' = AllHooks /\ tools' = tools
  BY DEF serviceVars, SavedChat, AllHooks, Places
<1> QED
  BY <1>1 DEF Snapshots, Snapshot

(***************************************************************************)
(* Only tools with a valid name are registered or restored.                *)
(***************************************************************************)
LEMMA NamesStayValid ==
  ASSUME TypeInvariant, OrderlyInvariant, [Next]_vars
  PROVE  \A k \in Tools' : ValidName(tools'[k].name)
<1>0. tools \in [ToolIds -> ToolInfo \cup {NoInfo, Gone}]
  BY DEF TypeInvariant, ToolInvariant, ToolTypeOK
<1>1. CASE UNCHANGED tools
  BY <1>1 DEF OrderlyInvariant, Tools
<1>2. ASSUME NEW j, NEW n, NEW p, RegisterTool(j, n, p)
      PROVE  \A k \in Tools' : ValidName(tools'[k].name)
  <2>1. /\ \A k \in ToolIds : tools'[k] = IF k = j THEN [name |-> n, provider |-> p] ELSE tools[k]
        /\ ValidName(n)
    BY <1>0, <1>2 DEF RegisterTool
  <2>2. \A k \in Tools' : k = j \/ k \in Tools
    BY <2>1 DEF Tools
  <2>3. \A k \in Tools' : k \in ToolIds
    BY DEF Tools
  <2> QED
    BY <2>1, <2>2, <2>3 DEF OrderlyInvariant
<1>3. ASSUME NEW j \in ToolIds, DeregisterTool(j)
      PROVE  \A k \in Tools' : ValidName(tools'[k].name)
  BY <1>0, <1>3 DEF DeregisterTool, Tools, OrderlyInvariant
<1>4. CASE LoadSnapshot
  <2>1. CASE disk = Nothing
    <3>1. tools' = [k \in ToolIds |-> NoInfo]
      BY <1>4, <2>1, KindsDiffer DEF LoadSnapshot
    <3> QED
      BY <3>1 DEF Tools
  <2>2. CASE disk.at = "saved"
    <3> DEFINE saved == disk.image.tools
    <3>1. disk.image \in Images /\ RestoreTools(saved)
      BY <1>4, <2>2, KindsDiffer DEF LoadSnapshot, Images
    <3>2. /\ Distinct(saved)
          /\ tools' = [k \in ToolIds |->
               IF saved[k] \in ToolInfo /\ ~ValidName(saved[k].name) THEN Gone ELSE saved[k]]
      BY <3>1 DEF RestoreTools, TypeInvariant, ToolInvariant
    <3> QED
      BY <3>2 DEF Tools, Distinct
  <2> QED
    BY <1>4, <2>1, <2>2 DEF LoadSnapshot
<1>5. CASE RegisterBuiltin
  BY <1>2, <1>5 DEF RegisterBuiltin
<1>6. CASE Request
  BY <1>1, <1>2, <1>3, <1>6 DEF Request, ToolRequest, ChatRequest, WebhookRequest
<1> QED
  BY <1>1, <1>4, <1>5, <1>6, WhoChangesServices DEF serviceVars

(***************************************************************************)
(* The final save takes the services as they are, and as long as nothing   *)
(* disturbs it the file has them when it is over (serve_with_shutdown).    *)
(***************************************************************************)
LEMMA SavesAreOrderly ==
  ASSUME TypeInvariant, OrderlyInvariant, orderly', NEW w \in Writers,
         BeginSave(w) \/ EndSave(w) \/ FailSave(w)
  PROVE  /\ stage \in {"stopping", "ending"}
         /\ stage' = "stopping" =>
              /\ save'["shutdown"].image \in Snapshots
              /\ save'["shutdown"].at # "shared"
              /\ save'["shutdown"].at = "writing" => save'["timer"].at \notin Open
         /\ stage' = "ending" => Current(disk)' /\ save'["timer"].at \notin Open
         /\ stage' \in {"stopping", "ending"}
<1> USE DEF OrderlyInvariant
<1>1. /\ orderly
      /\ save["shutdown"] # Nothing => stage = "stopping"
      /\ save["timer"] # Nothing => stage \in Serving
      /\ w = "timer" \/ w = "shutdown"
      /\ Other("timer") = "shutdown" /\ Other("shutdown") = "timer"
      /\ SavesTyped /\ "timer" \in Writers /\ "shutdown" \in Writers
  BY DEF BeginSave, EndSave, FailSave, TypeInvariant, CutInvariant, Writers, Other
<1>2. Snapshots' = Snapshots
  BY SnapshotsStay DEF BeginSave, EndSave, FailSave, ServicesSame
<1>3. save[w] # Nothing
  BY KindsDiffer, ClosesTheFile, <1>1 DEF BeginSave, Opens, EndSave, FailSave
<1>4. stage \in {"stopping", "ending"} /\ (w = "shutdown" => stage = "stopping")
  BY <1>1, <1>3 DEF Serving
<1>5. CASE BeginSave(w)
  <2>1. /\ stage' = stage /\ stage = "stopping" /\ save[w].at = "taken"
        /\ save'[w].at = "writing"
    BY <1>4, <1>5 DEF BeginSave, Opens
  <2>2. /\ save[Other(w)].at \notin Open /\ save'[Other(w)] = save[Other(w)]
        /\ save'[w].image = save[w].image
    BY <1>1, <1>3, <1>5, <2>1, OpensTheFile DEF BeginSave
  <2>3. CASE w = "timer"
    <3>1. save'["shutdown"] = save["shutdown"] /\ save["shutdown"].at \notin Open
      BY <1>1, <2>2, <2>3
    <3> QED
      BY <1>1, <2>1, <3>1 DEF Open
  <2>4. CASE w = "shutdown"
    <3>1. save'["timer"] = save["timer"] /\ save["timer"].at \notin Open
      BY <1>1, <2>2, <2>4
    <3> QED
      BY <1>1, <2>1, <2>2, <2>4, <3>1
  <2> QED
    BY <1>1, <2>3, <2>4
<1>6. CASE EndSave(w) \/ FailSave(w)
  <2>1. /\ save'[w] = Nothing /\ \A v \in Writers \ {w} : save'[v] = save[v]
        /\ stage' = IF w = "shutdown" THEN "ending" ELSE stage
    BY <1>1, <1>6, ClosesTheFile DEF EndSave, FailSave, Over
  <2>2. CASE w = "shutdown"
    <3>1. EndSave(w)
      BY <1>6, <2>2 DEF FailSave
    <3>2. save[w].at = "writing" /\ stage = "stopping"
      BY <1>1, <1>4, <2>2, <3>1 DEF EndSave, Completes, Open
    <3>3. disk' = [at |-> "saved", image |-> save[w].image]
      BY <3>1, <3>2 DEF EndSave, Completes, Written
    <3>4. disk'.at = "saved" /\ disk'.image \in Snapshots
      BY <1>1, <2>2, <3>2, <3>3
    <3> QED
      BY <1>1, <1>2, <2>1, <2>2, <3>2, <3>4 DEF Current
  <2>3. CASE w = "timer"
    <3>1. /\ stage' = stage /\ save'["shutdown"] = save["shutdown"]
          /\ save'["timer"].at \notin Open
      BY <1>1, <2>1, <2>3, KindsDiffer DEF Open
    <3>2. stage = "ending" => disk' = disk
      BY <1>1, <1>6, <2>3 DEF EndSave, Completes, FailSave, Fails
    <3> QED
      BY <1>1, <1>2, <1>4, <3>1, <3>2 DEF Current
  <2> QED
    BY <1>1, <2>2, <2>3
<1> QED
  BY <1>4, <1>5, <1>6

(***************************************************************************)
(* So the services are what the file has until a start restores them.      *)
(***************************************************************************)
LEMMA OrderlyStepIsSafe ==
  ASSUME TypeInvariant, OrderlyInvariant, [Next]_vars
  PROVE  OrderlyInvariant'
<1> DEFINE Order == orderly =>
              /\ stage # "up"
              /\ stage = "stopping" =>
                   /\ save["shutdown"].image \in Snapshots
                   /\ save["shutdown"].at # "shared"
                   /\ save["shutdown"].at = "writing" => save["timer"].at \notin Open
              /\ stage = "ending" => Current(disk) /\ save["timer"].at \notin Open
              /\ stage \in (Dead \cup Starting) \ {"restored"} => Current(disk)
<1>1. Order
  BY DEF OrderlyInvariant
<1>2. UNCHANGED serviceVars => Snapshots' = Snapshots
  BY SnapshotsStay
<1>3. "timer" \in Writers /\ "shutdown" \in Writers /\ SavesTyped /\ CutInvariant
  BY DEF TypeInvariant, Writers
<1>4. Order'
  <2>1. CASE UNCHANGED vars
    BY <1>1, <1>2, <2>1 DEF Current, vars, fileVars, bootVars
  <2>2. CASE Bind \/ LoadToken \/ WritePid \/ LoadKey \/ Refuse \/ FailStart
    <3>1. /\ disk' = disk /\ Snapshots' = Snapshots
          /\ stage' \in (Dead \cup Starting) \ {"restored"} /\ stage \in Dead \cup Starting
          /\ orderly' => orderly /\ stage # "restored"
      <4>1. disk' = disk /\ UNCHANGED serviceVars
        BY <2>2 DEF Bind, LoadToken, WritePid, LoadKey, Refuse, FailStart, DiskSame, fileVars,
                    ServicesSame
      <4>2. CASE Bind \/ WritePid \/ Refuse
        BY <1>2, <4>1, <4>2 DEF Bind, WritePid, Refuse, Enter, Dead, Starting
      <4>3. CASE LoadToken
        BY <1>2, <4>1, <4>3 DEF LoadToken, Enter, Dead, Starting
      <4>4. CASE LoadKey
        BY <1>2, <4>1, <4>4 DEF LoadKey, Enter, Dead, Starting
      <4>5. CASE FailStart
        BY <1>2, <4>1, <4>5 DEF FailStart, Dead, Starting
      <4> QED
        BY <2>2, <4>2, <4>3, <4>4, <4>5
    <3> QED
      BY <1>1, <3>1 DEF Current, Dead, Starting
  <2>3. CASE LoadSnapshot
    BY <2>3 DEF LoadSnapshot, Enter
  <2>4. CASE RegisterBuiltin
    BY <2>4 DEF RegisterBuiltin, bootVars
  <2>5. CASE StartServing \/ Request
    BY <2>5 DEF StartServing, Request
  <2>6. CASE Install \/ ReloadToken \/ Rotate
    <3>1. UNCHANGED <<disk, save, stage, orderly>> /\ Snapshots' = Snapshots
      BY <1>2, <2>6 DEF Install, ReloadToken, Rotate, ServicesSame, DiskSame, fileVars, bootVars
    <3> QED
      BY <1>1, <3>1 DEF Current
  <2>7. CASE TakeSnapshot
    <3>1. /\ disk' = disk /\ save'["shutdown"] = save["shutdown"]
          /\ save'["timer"].at \notin Open
      <4>1. PICK chosen \in AllHooks : Takes("timer", Snapshot(chosen))
        BY <2>7 DEF TakeSnapshot
      <4>2. /\ disk' = disk /\ save'["timer"] = [at |-> "taken", image |-> Snapshot(chosen)]
            /\ \A v \in Writers \ {"timer"} : save'[v] = save[v]
        BY <1>3, <4>1, TakesAnImage
      <4> QED
        BY <1>3, <4>2 DEF Open
    <3>2. Snapshots' = Snapshots /\ stage' = stage /\ orderly' = orderly
      BY <1>2, <2>7 DEF TakeSnapshot, ServicesSame
    <3> QED
      BY <1>1, <3>1, <3>2 DEF Current
  <2>8. CASE \E w \in Writers : BeginSave(w) \/ EndSave(w) \/ FailSave(w)
    <3> SUFFICES ASSUME orderly'
                 PROVE  Order'
      OBVIOUS
    <3>1. PICK w \in Writers : BeginSave(w) \/ EndSave(w) \/ FailSave(w)
      BY <2>8
    <3>2. Snapshots' = Snapshots
      BY <1>2, <3>1 DEF BeginSave, EndSave, FailSave, ServicesSame
    <3>3. /\ stage' = "stopping" =>
               /\ save'["shutdown"].image \in Snapshots
               /\ save'["shutdown"].at # "shared"
               /\ save'["shutdown"].at = "writing" => save'["timer"].at \notin Open
          /\ stage' = "ending" => Current(disk)' /\ save'["timer"].at \notin Open
          /\ stage' \in {"stopping", "ending"}
      BY <3>1, SavesAreOrderly
    <3> QED
      BY <3>2, <3>3 DEF Dead, Starting
  <2>9. CASE Stop
    <3>1. PICK chosen \in AllHooks : Takes("shutdown", Snapshot(chosen))
      BY <2>9 DEF Stop
    <3>2. save'["shutdown"] = [at |-> "taken", image |-> Snapshot(chosen)]
      BY <1>3, <3>1, TakesAnImage
    <3>3. save'["shutdown"].at = "taken" /\ save'["shutdown"].image \in Snapshots
      BY <3>2 DEF Snapshots
    <3>4. Snapshots' = Snapshots /\ stage' = "stopping"
      BY <1>2, <2>9 DEF Stop, ServicesSame
    <3> QED
      BY <3>3, <3>4 DEF Dead, Starting
  <2>10. CASE Exit
    <3>1. /\ disk' = disk /\ Snapshots' = Snapshots /\ orderly' = orderly
          /\ stage = "ending" /\ stage' = "down"
      BY <1>2, <2>10 DEF Exit, ServicesSame
    <3> QED
      BY <1>1, <3>1 DEF Current
  <2>11. CASE Crash \/ HangUp
    BY <2>11 DEF Crash, HangUp, Die
  <2> QED
    BY <2>1, <2>2, <2>3, <2>4, <2>5, <2>6, <2>7, <2>8, <2>9, <2>10, <2>11 DEF Next, Start, Work
<1>5. \A k \in Tools' : ValidName(tools'[k].name)
  BY NamesStayValid
<1> QED
  BY <1>4, <1>5 DEF OrderlyInvariant

(***************************************************************************)
(* A start restores what was saved last, and the built-in tools only add   *)
(* to it.                                                                  *)
(***************************************************************************)
LEMMA StartsRestore ==
  ASSUME TypeInvariant, OrderlyInvariant, [Next]_vars, orderly, stage \in Dead \cup Starting
  PROVE  /\ UNCHANGED <<conversations, messages, hooks>>
         /\ \A k \in Tools : tools'[k] = tools[k] /\ toolIndex'[tools[k].name] = k
<1>0. /\ ToolTypeOK /\ ToolIndexExact /\ ToolTypeOK' /\ ToolIndexExact'
  BY TypeStepIsSafe DEF TypeInvariant, ToolInvariant
<1>1. CASE UNCHANGED serviceVars
  BY <1>0, <1>1 DEF serviceVars, ToolIndexExact
<1>2. CASE LoadSnapshot
  <2>1. Current(disk)
    BY <1>2 DEF LoadSnapshot, Enter, OrderlyInvariant, Starting
  <2>2. /\ RestoreTools(disk.image.tools) /\ RestoreChat(disk.image.chat)
        /\ RestoreHooks(disk.image.hooks)
    BY <1>2, <2>1, KindsDiffer DEF LoadSnapshot, Current
  <2>3. /\ disk.image.tools = tools /\ disk.image.chat = SavedChat
        /\ disk.image.hooks \in AllHooks
    BY <2>1 DEF Current, Snapshots, Snapshot
  <2>4. hooks' = hooks
    <3>1. AllHooks = Flattened(hooks)
      BY DEF AllHooks, Flattened, Places, PlacesOf
    <3>2. HooksWhole(hooks)
      BY DEF TypeInvariant, HookInvariant
    <3> QED
      BY <2>2, <2>3, <3>1, <3>2, RestoreGivesBack
  <2>5. conversations' = conversations /\ messages' = messages
    BY <2>2, <2>3 DEF RestoreChat, SavedChat, TypeInvariant, ChatInvariant, ChatsWhole, Whole
  <2>6. \A k \in Tools : tools'[k] = tools[k]
    BY <2>2, <2>3 DEF RestoreTools, OrderlyInvariant, Tools
  <2>7. \A k \in Tools : k \in Tools'
    BY <2>6 DEF Tools
  <2> QED
    BY <1>0, <2>4, <2>5, <2>6, <2>7 DEF ToolIndexExact
<1>3. CASE RegisterBuiltin
  <2>1. PICK n \in BuiltinNames, j \in ToolIds : RegisterTool(j, n, BuiltIn)
    BY <1>3 DEF RegisterBuiltin
  <2>2. j \notin Tools
    BY <2>1 DEF RegisterTool, Tools
  <2>3. \A k \in Tools : tools'[k] = tools[k]
    BY <1>0, <2>1, <2>2 DEF RegisterTool, ToolTypeOK, Tools
  <2>4. \A k \in Tools : k \in Tools'
    BY <2>3 DEF Tools
  <2>5. UNCHANGED <<conversations, messages, hooks>>
    BY <1>3 DEF RegisterBuiltin
  <2> QED
    BY <1>0, <2>3, <2>4, <2>5 DEF ToolIndexExact
<1>4. ~Request
  BY DEF Request, Serving, Dead, Starting
<1> QED
  BY <1>1, <1>2, <1>3, <1>4, WhoChangesServices

(***************************************************************************)
(* A start after an orderly stop restores every tool, conversation,        *)
(* message and webhook, and the built-in tools take no name from a tool    *)
(* that was restored (state.rs, the restore methods, register_code_tools). *)
(* Orderly is a stop whose final save succeeded, and that no straggling    *)
(* request and no save of the timer disturbed.                             *)
(***************************************************************************)
THEOREM OrderlyStopsKeepServices == Spec => OrderlyStopKeepsServices
<1>1. Init => OrderlyInvariant
  BY DEF Init, ToolInit, OrderlyInvariant, Tools
<1>2. TypeInvariant /\ OrderlyInvariant /\ [Next]_vars => OrderlyInvariant'
  BY OrderlyStepIsSafe
<1>3. TypeInvariant /\ OrderlyInvariant /\ [Next]_vars =>
        [orderly /\ stage \in Dead \cup Starting =>
           /\ UNCHANGED <<conversations, messages, hooks>>
           /\ \A k \in Tools : tools'[k] = tools[k] /\ toolIndex'[tools[k].name] = k]_vars
  BY StartsRestore
<1> QED
  BY <1>1, <1>2, <1>3, TypesHold, PTL DEF Spec, OrderlyStopKeepsServices

=============================================================================
