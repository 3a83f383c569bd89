---------------------------- MODULE ToolRegistry ----------------------------
(***************************************************************************)
(* ToolRegistry (core/tools.rs): the tools by id and the index of their    *)
(* names.  Schemas and descriptions are data, apart from an empty          *)
(* description, which is refused like a name that is not valid; ValidNames *)
(* stands for the names that pass validate_name.                           *)
(*                                                                         *)
(* Every operator with a primed variable is one method, run under the      *)
(* write lock of the registry; a call that returns an error is a step that *)
(* is not enabled.  An id is minted once, so a tool that was deregistered  *)
(* leaves Gone behind.                                                     *)
(***************************************************************************)
EXTENDS Naturals, Identifiers, Bus

CONSTANTS ToolIds,
          ToolNames,     \* what callers and snapshots offer as a name
          ValidNames,    \* ... and what validate_name lets pass
          BuiltinNames,  \* the tools the daemon registers itself
          NoTool,        \* no entry
          BuiltIn        \* ToolProvider::BuiltIn, besides the agents

ASSUME ToolAssumption ==
  /\ ValidNames \subseteq ToolNames
  /\ BuiltinNames \subseteq ValidNames
  /\ NoTool \notin ToolIds
  /\ BuiltIn \notin AgentIds

VARIABLES tools,         \* HashMap<ToolId, ToolInfo>
          toolIndex      \* HashMap<String, ToolId>

ToolProvider == AgentIds \cup {BuiltIn}

ToolInfo == [name : ToolNames, provider : ToolProvider]

\* An id that is not in the map: not yet, or not any more.
NoInfo == [name |-> "none"]
Gone   == [name |-> "gone"]

ToolEvent(kind, k) == [type |-> kind, tool |-> k]

ValidName(n) == n \in ValidNames

Tools == {k \in ToolIds : tools[k] \notin {NoInfo, Gone}}

\* find_by_name
FindByName(n) == toolIndex[n]

ToolTypeOK ==
  /\ tools \in [ToolIds -> ToolInfo \cup {NoInfo, Gone}]
  /\ toolIndex \in [ToolNames -> ToolIds \cup {NoTool}]

ToolInit ==
  /\ tools = [k \in ToolIds |-> NoInfo]
  /\ toolIndex = [n \in ToolNames |-> NoTool]

-----------------------------------------------------------------------------

\* Mutant: the index is not asked whether the name is taken.
RegisterToolUnasked(k, n, p) ==
  /\ tools[k] = NoInfo
  /\ ValidName(n)
  /\ tools' = [tools EXCEPT ![k] = [name |-> n, provider |-> p]]
  /\ toolIndex' = [toolIndex EXCEPT ![n] = k]
  /\ Publish({ToolEvent("ToolRegistered", k)})

\* register, with a fresh id.
RegisterTool(k, n, p) ==
  /\ tools[k] = NoInfo
  /\ ValidName(n)
  /\ FindByName(n) = NoTool
  /\ tools' = [tools EXCEPT ![k] = [name |-> n, provider |-> p]]
  /\ toolIndex' = [toolIndex EXCEPT ![n] = k]
  /\ Publish({ToolEvent("ToolRegistered", k)})

DeregisterTool(k) ==
  /\ k \in Tools
  /\ tools' = [tools EXCEPT ![k] = Gone]
  /\ toolIndex' = [toolIndex EXCEPT ![tools[k].name] = NoTool]
  /\ Publish({ToolEvent("ToolDeregistered", k)})

\* Mutant: the names of the restored tools are not indexed.
RestoreToolsUnindexed(saved) ==
  /\ tools' = saved
  /\ toolIndex' = [n \in ToolNames |-> NoTool]

(***************************************************************************)
(* restore: entries with an invalid name are skipped.  The others are not  *)
(* compared with each other; of two with one name the index would keep the *)
(* one inserted last.                                                      *)
(***************************************************************************)
RestoreTools(saved) ==
  /\ tools' = [k \in ToolIds |->
       IF saved[k] \in ToolInfo /\ ~ValidName(saved[k].name) THEN Gone ELSE saved[k]]
  /\ toolIndex' \in [ToolNames -> ToolIds \cup {NoTool}]
  /\ \A n \in ToolNames :
       LET named == {k \in Tools' : tools'[k].name = n}
       IN  IF named = {} THEN toolIndex'[n] = NoTool ELSE toolIndex'[n] \in named

-----------------------------------------------------------------------------

(***************************************************************************)
(* Index and map agree: every tool is found under its name, every entry    *)
(* leads to a tool of that name, and so no two tools share one             *)
(* (core/tools.rs register, deregister; restore does not check it and      *)
(* relies on what was saved).                                              *)
(***************************************************************************)
ToolIndexExact ==
  /\ \A k \in Tools : toolIndex[tools[k].name] = k
  /\ \A n \in ToolNames : toolIndex[n] # NoTool =>
       toolIndex[n] \in Tools /\ tools[toolIndex[n]].name = n

=============================================================================
