---------------------------- MODULE Identifiers -----------------------------
(***************************************************************************)
(* The identifiers the components share (core/types.rs).  AgentId::new and *)
(* TaskId::new draw fresh UUIDs: an id is handed out once and never again, *)
(* so AgentIds are registrations rather than agent programs.               *)
(***************************************************************************)

CONSTANTS AgentIds,   \* the ids register() may hand out
          NoAgent,    \* Option::None of an agent id
          TaskIds     \* the ids create_task may hand out

ASSUME IdAssumption == NoAgent \notin AgentIds

AgentRef == AgentIds \cup {NoAgent}

=============================================================================
