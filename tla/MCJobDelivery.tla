--------------------------- MODULE MCJobDelivery ---------------------------
(* Jobs and the yield queue of one session; see the configurations.        *)
EXTENDS JobDelivery
=============================================================================
