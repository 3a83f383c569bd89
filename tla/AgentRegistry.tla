--------------------------- MODULE AgentRegistry ----------------------------
(***************************************************************************)
(* AgentRegistry (core/registry.rs) and the router that reads it           *)
(* (core/router.rs).                                                       *)
(*                                                                         *)
(* An element of AgentIds is one registration: register() mints a fresh    *)
(* AgentId, so an id is never used twice, and the name and skill tags an   *)
(* id is registered with never change.  They are therefore the constant    *)
(* functions NameOf and SkillTags.  Names stands for the names that pass   *)
(* validate_name; the others are refused before any state is touched.      *)
(*                                                                         *)
(* Every operator with a primed variable is one method of the code, run    *)
(* under the write lock of the registry.                                   *)
(***************************************************************************)
EXTENDS Naturals, Identifiers, Bus

CONSTANTS Names,       \* valid agent names
          Tags,        \* skill tags
          NameOf,      \* the name each registration asks for
          SkillTags    \* the tags each registration advertises

ASSUME RegistryAssumption ==
  /\ NameOf \in [AgentIds -> Names]
  /\ SkillTags \in [AgentIds -> SUBSET Tags]

VARIABLES agents,      \* HashMap<AgentId, AgentInfo>
          nameIndex    \* HashMap<String, AgentId>

AgentStatus == {"Unregistered", "Connected", "Disconnected", "Deregistered"}

AgentInfo == [status : AgentStatus, heartbeat : Nat]

Registered == {a \in AgentIds : agents[a].status \in {"Connected", "Disconnected"}}

Connected == {a \in AgentIds : agents[a].status = "Connected"}

Disconnected == {a \in AgentIds : agents[a].status = "Disconnected"}

RegistryTypeOK ==
  /\ agents \in [AgentIds -> AgentInfo]
  /\ nameIndex \in [Names -> AgentRef]

RegistryInit ==
  /\ agents = [a \in AgentIds |-> [status |-> "Unregistered", heartbeat |-> 0]]
  /\ nameIndex = [n \in Names |-> NoAgent]

-----------------------------------------------------------------------------
(* Methods of AgentRegistry *)

Register(a, now) ==
  /\ agents[a].status = "Unregistered"
  /\ nameIndex[NameOf[a]] = NoAgent
  /\ agents' = [agents EXCEPT ![a] = [status |-> "Connected", heartbeat |-> now]]
  /\ nameIndex' = [nameIndex EXCEPT ![NameOf[a]] = a]
  /\ Publish({AgentEvent("AgentRegistered", a)})

\* Mutant: every heartbeat is announced as a reconnection.
HeartbeatAlwaysReconnects(a, now) ==
  /\ a \in Registered
  /\ agents' = [agents EXCEPT ![a] = [status |-> "Connected", heartbeat |-> now]]
  /\ Publish({AgentEvent("AgentReconnected", a)})
  /\ UNCHANGED nameIndex

\* The first live heartbeat of a disconnected agent reconnects it.
Heartbeat(a, now) ==
  /\ a \in Registered
  /\ agents' = [agents EXCEPT ![a] = [status |-> "Connected", heartbeat |-> now]]
  /\ Publish({AgentEvent("AgentReconnected", b) : b \in {a} \cap Disconnected})
  /\ UNCHANGED nameIndex

\* mark_disconnected for every id of S, under one write lock.
MarkDisconnected(S) ==
  LET flipped == S \cap Connected
  IN  /\ agents' = [a \in AgentIds |->
                      IF a \in flipped
                      THEN [agents[a] EXCEPT !.status = "Disconnected"]
                      ELSE agents[a]]
      /\ Publish({AgentEvent("AgentDisconnected", a) : a \in flipped})
      /\ UNCHANGED nameIndex

\* Mutant: the name is not released.
DeregisterKeepsName(a) ==
  /\ a \in Registered
  /\ agents' = [agents EXCEPT ![a] = [status |-> "Deregistered", heartbeat |-> 0]]
  /\ Publish({AgentEvent("AgentDeregistered", a)})
  /\ UNCHANGED nameIndex

Deregister(a) ==
  /\ a \in Registered
  /\ agents' = [agents EXCEPT ![a] = [status |-> "Deregistered", heartbeat |-> 0]]
  /\ nameIndex' = [nameIndex EXCEPT ![NameOf[a]] = NoAgent]
  /\ Publish({AgentEvent("AgentDeregistered", a)})

\* restore: the maps of a saved registry, without any event.
RestoreAgents(saved) ==
  /\ agents' = saved
  /\ nameIndex' = [n \in Names |->
       IF \E a \in Registered' : NameOf[a] = n
       THEN CHOOSE a \in Registered' : NameOf[a] = n
       ELSE NoAgent]

-----------------------------------------------------------------------------
(***************************************************************************)
(* DefaultTaskRouter::select_agent, as submit_task calls it (the temporary *)
(* task it routes has no assignee).  The candidates come in the order of a *)
(* HashMap, so any eligible agent may be the first: the operator is the    *)
(* set of possible answers.  With no required tag every connected agent is *)
(* eligible.                                                               *)
(***************************************************************************)
Eligible(required) == {a \in Connected : required \subseteq SkillTags[a]}

SelectAgent(required) ==
  IF Eligible(required) = {} THEN {NoAgent} ELSE Eligible(required)

-----------------------------------------------------------------------------
(* Properties *)

(***************************************************************************)
(* The name index and the agent map agree: a registered agent is found     *)
(* under its own name, and every entry leads to a registered agent of that *)
(* name.  Hence no two registered agents share a name (registry.rs:        *)
(* register, deregister and restore write both maps).                      *)
(***************************************************************************)
NameIndexExact ==
  /\ \A a \in Registered : nameIndex[NameOf[a]] = a
  /\ \A n \in Names : nameIndex[n] # NoAgent =>
       /\ nameIndex[n] \in Registered
       /\ NameOf[nameIndex[n]] = n

=============================================================================
