---------------------------- MODULE MCToolInvoker ---------------------------
(***************************************************************************)
(* Instances of ToolInvoker for TLC.                                       *)
(***************************************************************************)
EXTENDS ToolInvoker, TLC

CONSTANTS a1, a2, n1, n2, c1, t1, t2, r1, k1, k2, scan

TwoNames == [a \in AgentIds |-> IF a = a2 THEN n2 ELSE n1]
NoSkill  == [a \in AgentIds |-> {}]

\* Tasks are interchangeable, and so are tools, and so are the agents, which
\* have no skills here, together with their names.
SwapAgents == [v \in {a1, a2, n1, n2} |->
                 CASE v = a1 -> a2 [] v = a2 -> a1 [] v = n1 -> n2 [] v = n2 -> n1]
Interchangeable ==
  {p @@ q @@ u : p \in Permutations(TaskIds), u \in Permutations(ToolIds),
                 q \in {SwapAgents, [v \in {a1, a2, n1, n2} |-> v]}}

=============================================================================
