---------------------------- MODULE MCToolChoice ----------------------------
(* Two previews, three calls of the model, one prompt and an abort.         *)
EXTENDS ToolChoice
=============================================================================
