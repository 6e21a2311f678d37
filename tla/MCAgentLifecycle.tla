-------------------------- MODULE MCAgentLifecycle --------------------------
(* Instances of AgentLifecycle for TLC.                                     *)
EXTENDS AgentLifecycle, TLC

CONSTANTS h1, h2

ConfigSymmetry == Permutations({h1, h2})
=============================================================================
