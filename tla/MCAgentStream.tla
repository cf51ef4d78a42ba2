---------------------------- MODULE MCAgentStream ----------------------------
(* A small instance of AgentStream for TLC. *)
EXTENDS AgentStream
=============================================================================
