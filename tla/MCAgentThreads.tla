---------------------------- MODULE MCAgentThreads ----------------------------
(* Instances of AgentThreads for TLC; MCAgentThreads.cfg gives the constants *)
(* their values.                                                            *)
EXTENDS AgentThreads
===============================================================================
