--------------------------- MODULE MCAgentApply ---------------------------
(* Model-checking instance of AgentApply.                                  *)
EXTENDS AgentApply, TLC

CONSTANTS a1, a2, r1, r2, n1, n2, c1

Symmetry == Permutations(Agents) \cup Permutations(Rows) \cup Permutations(Names)

===========================================================================
