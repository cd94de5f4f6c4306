---------------------------- MODULE MCMcpManager ----------------------------
(* Three tasks, two transports, one disconnection, one delay.              *)
EXTENDS McpManager
=============================================================================
