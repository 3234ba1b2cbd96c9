--------------------------- MODULE MCAgentLoop ---------------------------
(* Instance of AgentLoop for TLC; the call ids are interchangeable.        *)
EXTENDS AgentLoop, TLC

Symmetry == Permutations(CallIds)
=============================================================================
