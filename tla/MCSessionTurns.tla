--------------------------- MODULE MCSessionTurns ---------------------------
(* Two prompts, three runs, an answer with tool calls, an abort, a retry asked for, one attempt again. *)
EXTENDS SessionTurns
=============================================================================
