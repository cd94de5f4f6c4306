---------------------------- MODULE AgentQueues ----------------------------
(***************************************************************************)
(* The two message queues of an Agent (packages/agent/src/agent.ts): the   *)
(* steering queue, drained while a run is in progress, and the follow-up   *)
(* queue, drained when a run would otherwise stop.  Both are plain arrays  *)
(* with the same dequeue discipline, chosen by a mode.                     *)
(***************************************************************************)
EXTENDS Integers, Sequences

(* setSteeringMode / setFollowUpMode *)
QueueModes == {"all", "one-at-a-time"}

(***************************************************************************)
(* #dequeueSteeringMessages and #dequeueFollowUpMessages: what one poll of *)
(* queue q returns, and what it leaves behind.                             *)
(***************************************************************************)
Dequeued(mode, q) ==
    IF mode = "one-at-a-time" THEN SubSeq(q, 1, IF q = <<>> THEN 0 ELSE 1) ELSE q

Remaining(mode, q) ==
    IF mode = "one-at-a-time" /\ q # <<>> THEN Tail(q) ELSE <<>>

(* popLastSteer / popLastFollowUp: the dequeue keybinding takes the newest. *)
WithoutLast(q) == IF q = <<>> THEN q ELSE SubSeq(q, 1, Len(q) - 1)
=============================================================================
