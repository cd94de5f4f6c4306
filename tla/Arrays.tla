------------------------------- MODULE Arrays -------------------------------
(***************************************************************************)
(* Array.prototype.filter, which the queues of the session are swept with. *)
(***************************************************************************)
EXTENDS Integers, Sequences

(* The elements of s at the positions K, in their order.                   *)
Filtered(s, K) ==
    LET kept[n \in 0..Len(s)] ==
            IF n = 0 THEN <<>>
            ELSE IF n \in K THEN Append(kept[n - 1], s[n])
            ELSE kept[n - 1]
    IN  kept[Len(s)]
=============================================================================
