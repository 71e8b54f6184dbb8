--------------------------- MODULE AgentSessionMC ---------------------------
(* Instances of AgentSession: calls, processes and workers are alike.      *)
EXTENDS AgentSession, TLC

Alike == Permutations(Calls) \union Permutations(Servers) \union Permutations(Workers)
=============================================================================
