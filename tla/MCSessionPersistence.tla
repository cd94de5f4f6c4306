------------------------ MODULE MCSessionPersistence ------------------------
(* Two entries, three rewrites asked for, three faults, one death.         *)
EXTENDS SessionPersistence
=============================================================================
