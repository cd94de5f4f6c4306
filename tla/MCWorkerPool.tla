---------------------------- MODULE MCWorkerPool ----------------------------
(* Two events of one issue and one of another; see the configurations.     *)
EXTENDS WorkerPool

MCKey(e) == IF e \in {"e1", "e2"} THEN "issue1" ELSE "issue2"
=============================================================================
