------------------------------ MODULE MCPersistence -------------------------
(***************************************************************************)
(* Instances of Persistence for TLC.                                       *)
(***************************************************************************)
EXTENDS Persistence, TLC

CONSTANTS a1, a2, n1, n2, x, c1, c2, t1, t2, r1, r2

\* Both registrations ask for one name, or each for its own.
OneName   == [a \in AgentIds |-> n1]
TwoNames  == [a \in AgentIds |-> IF a = a2 THEN n2 ELSE n1]

\* Only the second registration has the skill.
SkillOfA2 == [a \in AgentIds |-> IF a = a2 THEN {x} ELSE {}]

=============================================================================
