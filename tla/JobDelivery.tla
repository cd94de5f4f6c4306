---------------------------- MODULE JobDelivery ----------------------------
(***************************************************************************)
(* From a background job to the conversation: to the manager and the tools *)
(* of module AsyncJobs are added the yield queue (session/yield-queue.ts)  *)
(* results wait in, and the session (session/agent-session.ts, sdk.ts) that*)
(* flushes it.                                                             *)
(*                                                                         *)
(* The queue is flushed when a turn is about to end, and, if a result comes*)
(* while the session is idle, by a task a millisecond later, which prompts *)
(* the agent.  An entry is dropped if its job's id is suppressed then.     *)
(* Answers of tools reach the conversation too, but a steering message may *)
(* interrupt the batch and replace them (module ToolBatch).  A turn that   *)
(* fails or is aborted ends without a flush.                               *)
(*                                                                         *)
(* Jobs are registered, polled and cancelled by the tools of a turn.  The  *)
(* turn itself is abstract: module AgentLoop has its inside.               *)
(***************************************************************************)
EXTENDS AsyncJobs

CONSTANTS
    MaxPrompts,   \* bound on the number of prompts of the user
    MaxAborts     \* bound on the number of aborts of the user

ASSUME DeliveryAssumption == MaxPrompts \in Nat /\ MaxAborts \in Nat

VARIABLES
    \* YieldQueue
    entries,          \* #entries of kind "async-result": the runs
    idleFlushPending, \* #idleFlushPending
    flushTask,        \* the post-prompt task of an idle flush is waiting
    \* AgentSession
    session,          \* isStreaming, and how the turn is ending
    \* history
    delivered,        \* runs in messages of the yield queue, in order
    told,             \* runs in answers of tools that entered the conversation
    prompts, aborts   \* numbers of prompts and aborts

flushVars == <<entries, idleFlushPending, flushTask, delivered>>
userVars == <<prompts, aborts>>
deliveryVars == <<jobVars, flushVars, session, told, userVars>>

SessionStates == {"idle", "turn", "ending", "failed", "aborted"}
IsStreaming == session # "idle"
ToolsWait == foreground # {} \/ \E p \in Polls : polls[p] # NotPolling

DeliveryInit ==
    /\ Init
    /\ entries = <<>> /\ idleFlushPending = FALSE /\ flushTask = FALSE
    /\ session = "idle"
    /\ delivered = <<>> /\ told = {} /\ prompts = 0 /\ aborts = 0

-----------------------------------------------------------------------------
(* The tools of a turn *)

CallTool ==
    /\ session = "turn"
    /\ \/ \E r \in Runs, i \in Ids, waiting \in BOOLEAN : Register(r, i, waiting)
       \/ \E r \in Runs : Background(r)
    /\ UNCHANGED <<flushVars, session, told, userVars>>

(* A tool answers (or a poll starts to wait); the answer is shown to the   *)
(* model unless the batch was interrupted meanwhile.                       *)
AnswerTool(shown) ==
    /\ session = "turn"
    /\ \/ \E p \in Polls : \/ \E S \in SUBSET Runs : StartPoll(p, S)
                           \/ ReturnPoll(p)
       \/ \E r \in Runs : CancelJob(r) \/ ReturnForeground(r)
    /\ told' = IF shown THEN told \cup (reported' \ reported) ELSE told
    /\ UNCHANGED <<flushVars, session, userVars>>

-----------------------------------------------------------------------------
(* Jobs on their own *)

JobStep ==
    /\ \/ \E r \in Runs : Settle(r)
       \/ \E i \in Ids : Evict(i)
       \/ DropHead \/ DeliverHead
       \/ \E k \in DOMAIN deliveries : BackoffOver(k) \/ DeliverDrained(k)
       \/ \E r \in Runs : FailDelivery(r)
    /\ UNCHANGED <<flushVars, session, told, userVars>>

(* onJobComplete ends with yieldQueue.enqueue, if the result is passed on: *)
(* an idle session schedules a flush unless one is pending.                *)
Enqueue(r) ==
    /\ FinishDelivery(r)
    /\ IF handed' = handed
       THEN UNCHANGED flushVars
       ELSE /\ entries' = Append(entries, r)
            /\ idleFlushPending' = (idleFlushPending \/ ~IsStreaming)
            /\ flushTask' = (flushTask \/ (~IsStreaming /\ ~idleFlushPending))
            /\ UNCHANGED delivered
    /\ UNCHANGED <<session, told, userVars>>

-----------------------------------------------------------------------------
(* Flushing *)

(* Mutant of Flush: entries are not looked at again.                       *)
FlushAll ==
    /\ entries' = <<>>
    /\ delivered' = delivered \o entries

(* Drain and build: what is left of the entries becomes one message.       *)
Flush ==
    /\ entries' = <<>>
    /\ delivered' = delivered \o
                    Filtered(entries, {k \in DOMAIN entries : ~IsSuppressed(idOf[entries[k]])})

(* Mutant of Yield: the callback is gone.                                  *)
YieldWithoutFlush ==
    /\ session = "turn" /\ ~ToolsWait
    /\ session' = "ending"
    /\ UNCHANGED <<jobVars, flushVars, told, userVars>>

(* onBeforeYield: the message of a streaming flush is a follow-up, which   *)
(* the loop takes at once; without one the turn ends.                      *)
Yield ==
    /\ session = "turn" /\ ~ToolsWait
    /\ Flush
    /\ session' = IF delivered' = delivered THEN "ending" ELSE "turn"
    /\ UNCHANGED <<jobVars, idleFlushPending, flushTask, told, userVars>>

(* Mutant of IdleFlush: the queue is drained before the session is checked.*)
IdleFlushDrained ==
    /\ flushTask
    /\ flushTask' = FALSE /\ idleFlushPending' = FALSE
    /\ IF IsStreaming
       THEN entries' = <<>> /\ UNCHANGED <<delivered, session>>
       ELSE /\ Flush
            /\ session' = IF delivered' = delivered THEN "idle" ELSE "turn"
    /\ UNCHANGED <<jobVars, told, userVars>>

(* Mutant of IdleFlush: the flag is only reset by a flush.                 *)
IdleFlushOnce ==
    /\ flushTask
    /\ flushTask' = FALSE
    /\ UNCHANGED idleFlushPending
    /\ IF IsStreaming
       THEN UNCHANGED <<entries, delivered, session>>
       ELSE /\ Flush
            /\ session' = IF delivered' = delivered THEN "idle" ELSE "turn"
    /\ UNCHANGED <<jobVars, told, userVars>>

(* The task of an idle flush runs: nothing if a turn has started, or else  *)
(* the agent is prompted with the message.                                 *)
IdleFlush ==
    /\ flushTask
    /\ flushTask' = FALSE /\ idleFlushPending' = FALSE
    /\ IF IsStreaming
       THEN UNCHANGED <<entries, delivered, session>>
       ELSE /\ Flush
            /\ session' = IF delivered' = delivered THEN "idle" ELSE "turn"
    /\ UNCHANGED <<jobVars, told, userVars>>

-----------------------------------------------------------------------------
(* The session *)

(* A model call fails, with an error message or an exception: the loop ends*)
(* where it is, and onBeforeYield is not asked.                            *)
FailTurn ==
    /\ session = "turn" /\ ~ToolsWait
    /\ session' = "failed"
    /\ UNCHANGED <<jobVars, flushVars, told, userVars>>

(* The session takes the failed turn up again while prompt() waits for it. *)
Retry ==
    /\ session = "failed"
    /\ session' = "turn"
    /\ UNCHANGED <<jobVars, flushVars, told, userVars>>

(* agent_end is handled, and prompt() returns after what it waits for.     *)
EndTurn ==
    /\ session \in {"ending", "failed", "aborted"}
    /\ session' = "idle"
    /\ UNCHANGED <<jobVars, flushVars, told, userVars>>

(* The user, or a retry nobody waited for.                                 *)
Prompt ==
    /\ session = "idle" /\ prompts < MaxPrompts
    /\ prompts' = prompts + 1
    /\ session' = "turn"
    /\ UNCHANGED <<jobVars, flushVars, told, aborts>>

(* abort(): waiting tools have been woken and have answered; post-prompt   *)
(* tasks are cancelled, the turn or its retry ends without a flush.        *)
Abort ==
    /\ aborts < MaxAborts
    /\ session = "turn" => ~ToolsWait
    /\ aborts' = aborts + 1
    /\ flushTask' = FALSE
    /\ session' = IF session \in {"turn", "failed"} THEN "aborted" ELSE session
    /\ UNCHANGED <<jobVars, entries, idleFlushPending, delivered, told, prompts>>

(* A new or another session: its agent's jobs are cancelled.               *)
SwitchSession ==
    /\ session = "idle"
    /\ CancelAll
    /\ UNCHANGED <<flushVars, session, told, userVars>>

DeliveryNext ==
    \/ CallTool
    \/ \E shown \in BOOLEAN : AnswerTool(shown)
    \/ JobStep
    \/ \E r \in Runs : Enqueue(r)
    \/ Yield \/ IdleFlush \/ FailTurn \/ Retry \/ EndTurn
    \/ Prompt \/ Abort \/ SwitchSession

(***************************************************************************)
(* The event loop runs what is ready; waiting tools are woken.  The model  *)
(* does not call tools for ever, so a turn gets to its end, which may be a *)
(* failure.                                                                *)
(***************************************************************************)
DeliveryFairness ==
    /\ WF_deliveryVars(Delivery /\ JobStep)
    /\ \A r \in Runs : WF_deliveryVars(Enqueue(r))
    /\ \A p \in Polls : WF_deliveryVars(ReturnPoll(p) /\ AnswerTool(TRUE))
    /\ \A r \in Runs : /\ WF_deliveryVars(ReturnForeground(r) /\ AnswerTool(TRUE))
                       /\ WF_deliveryVars(Background(r) /\ CallTool)
    /\ SF_deliveryVars(Yield) /\ WF_deliveryVars(IdleFlush) /\ WF_deliveryVars(EndTurn)

DeliverySpec == DeliveryInit /\ [][DeliveryNext]_deliveryVars /\ DeliveryFairness

-----------------------------------------------------------------------------
(* Properties *)

IsDelivered(r) == \E k \in DOMAIN delivered : delivered[k] = r
IsEntry(r) == \E k \in DOMAIN entries : entries[k] = r

(* A flush that waits is pending; a tool waits only in a turn.             *)
DeliveryTypeOK ==
    /\ TypeOK
    /\ entries \in Seq(Runs) /\ delivered \in Seq(Runs)
    /\ idleFlushPending \in BOOLEAN /\ flushTask \in BOOLEAN
    /\ flushTask => idleFlushPending
    /\ session \in SessionStates
    /\ ToolsWait => session = "turn"
    /\ told \subseteq reported
    /\ prompts \in 0..MaxPrompts /\ aborts \in 0..MaxAborts

(* A result is not lost on its way through the yield queue, whenever turns *)
(* start, end or are aborted, flushes are scheduled, cancelled or find a   *)
(* turn running: until it is in the conversation it is in one of the queues*)
(* or given to a tool.                                                     *)
EntryKept ==
    \A r \in Runs :
        status[r] = "completed" /\ ~IdShared(r) =>
            \/ r \in QueuedRuns \cup inFlight \cup reported
            \/ IsEntry(r) \/ IsDelivered(r)
            \/ \E p \in Polls : r \in polls[p].tracked

(* The model is not told twice: an entry whose result a tool answered with *)
(* is dropped by the flush, as long as the job is known.                   *)
NotToldTwice ==
    [][\A r \in reported : ~IsDelivered(r) /\ IsDelivered(r)' => jobs[idOf[r]] # r]_deliveryVars

(* A result in the queue during a turn leaves it before the turn ends,     *)
(* unless the turn is cut short: one that fails or is aborted flushes      *)
(* nothing, and what it leaves waits for another turn.  A result for which *)
(* an idle session has scheduled a flush leaves the queue too, even if the *)
(* flush finds a new turn running, unless that is cut short or an abort    *)
(* cancels the flush.                                                      *)
CutShort == session \in {"failed", "aborted"}
FlushCancelled == idleFlushPending /\ ~flushTask
FlushedInTheEnd ==
    \A r \in Runs :
        /\ IsEntry(r) /\ session = "turn" ~> ~IsEntry(r) \/ CutShort
        /\ IsEntry(r) /\ session = "idle" /\ flushTask
               ~> ~IsEntry(r) \/ CutShort \/ FlushCancelled

(* An idle flush is pending only while its task waits, so that the next    *)
(* result of an idle session schedules one, unless the user aborts.        *)
PendingMeansScheduled == aborts = 0 => idleFlushPending = flushTask

(* The types, and no flush that is pending for ever.                       *)
FlushInv == DeliveryTypeOK /\ PendingMeansScheduled

(* prompts/tools/job.md: "Background job results are delivered             *)
(* automatically when complete."  Here: a result that has got into the     *)
(* yield queue, without an abort.                                          *)
DeliveredWhenComplete ==
    \A r \in Runs : IsEntry(r) ~> ~IsEntry(r) \/ aborts > 0

(* The same sentence: a result whose delivery is suppressed because a tool *)
(* answered with it is in the conversation.                                *)
SuppressedIsTold ==
    \A r \in reported : status[r] = "completed" => r \in told \/ IsDelivered(r)

(* yield-queue.ts on isStale(): "Drop entries already delivered through    *)
(* another path."                                                          *)
ToldIsDropped ==
    [][\A r \in told : ~IsDelivered(r) => ~IsDelivered(r)']_deliveryVars
=============================================================================
