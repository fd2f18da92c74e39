---------------------------- MODULE MCAgentWallet ----------------------------
(* The processes are told apart by the configuration, which makes some of  *)
(* them create and others repair; no symmetry is left to use.              *)
EXTENDS AgentWallet, TLC
=============================================================================
