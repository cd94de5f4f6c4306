----------------------------- MODULE MCFileLock -----------------------------
(* Three calls of three processes, one of which may die.                   *)
EXTENDS FileLock

MCPid == [c \in Client |-> CASE c = "c1" -> "p1" [] c = "c2" -> "p2" [] OTHER -> "p3"]
=============================================================================
