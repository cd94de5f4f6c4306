---------------------------- MODULE MCAgentLoop ----------------------------
(* One Agent, two turns of up to two tool calls, two queued messages.      *)
EXTENDS AgentLoop
=============================================================================
