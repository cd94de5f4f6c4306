---------------------------- MODULE MCToolBatch ----------------------------
(* Three calls, any of them exclusive, and up to two steering messages.    *)
EXTENDS ToolBatch
=============================================================================
