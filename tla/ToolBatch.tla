----------------------------- MODULE ToolBatch -----------------------------
(***************************************************************************)
(* executeToolCalls of packages/agent/src/agent-loop.ts: the tool calls of *)
(* one assistant message, run as promises on one event loop.               *)
(*                                                                         *)
(* A call waits for its barrier (an exclusive tool for everything before   *)
(* it, a shared tool for the last exclusive one), awaits the beforeToolCall*)
(* hook, awaits tool.execute, awaits the afterToolCall hook, emits its     *)
(* result and polls the steering queue.  A step below is the code between  *)
(* two awaits.  A poll that returns a message interrupts the batch: no     *)
(* further call starts, and the calls still in flight report "skipped".    *)
(*                                                                         *)
(* runTool is taken not to reject: everything in it that can throw is      *)
(* inside its try, and the steering poll of an Agent never throws.         *)
(***************************************************************************)
EXTENDS AgentQueues

CONSTANTS
    MaxCalls,       \* bound on the tool calls of one assistant message
    MaxSteer,       \* bound on the messages the user queues
    InterruptMode,  \* Agent#interruptMode
    SteeringMode    \* Agent#steeringMode

ASSUME BatchAssumption ==
    /\ MaxCalls \in Nat \ {0}
    /\ MaxSteer \in Nat
    /\ InterruptMode \in {"immediate", "wait"}
    /\ SteeringMode \in QueueModes

VARIABLES
    total,            \* toolCalls.length
    exclusive,        \* the calls whose tool has concurrency "exclusive"
    task,             \* where the promise of each call stands
    produced,         \* what the body of runTool computed, before emission
    result,           \* record.toolResultMessage
    emits,            \* number of tool result messages pushed for each call
    interrupted,      \* interruptState.triggered
    steeringCheck,    \* whether the single-flight steering poll is pending
    taken,            \* what the pending poll dequeued
    steeringMessages, \* the messages that interrupted the batch
    returned,         \* executeToolCalls has returned
    steeringQueue,    \* Agent#steeringQueue
    accepted          \* history: messages queued and not withdrawn, in order

batchVars == <<total, exclusive, task, produced, result, emits, interrupted,
               steeringCheck, taken, steeringMessages, returned>>
vars == <<batchVars, steeringQueue, accepted>>

Calls == 1..total
Phases == {"waiting", "before", "executing", "after", "checking", "settled"}
(* The body of runTool ends with the tool's own answer, with an error, or  *)
(* refused: unknown tool, invalid arguments, blocked by the hook, or not   *)
(* allowed for the tier and not delegated.                                 *)
Outcomes == {"ok", "error", "refused"}

(* A call is active from the start of runTool until its promise settles.   *)
Active(i) == task[i] \notin {"waiting", "settled"}

(***************************************************************************)
(* The scheduling loop chains promises: lastExclusive, and the shared      *)
(* tasks pushed since it.                                                  *)
(***************************************************************************)
LastExclusive(i) ==
    {j \in exclusive : j < i /\ \A k \in exclusive : k < i => k <= j}

SharedTasks(i) ==
    {j \in Calls \ exclusive : j < i /\ \A k \in exclusive : k < i => k < j}

(* Mutant of Barrier: an exclusive tool waits for the last exclusive one only. *)
BarrierWithoutShared(i) == LastExclusive(i)

(* Mutant of Barrier: a call counts itself among the tasks to wait for.    *)
BarrierOnItself(i) == LastExclusive(i) \cup SharedTasks(i + 1)

Barrier(i) ==
    IF i \in exclusive THEN LastExclusive(i) \cup SharedTasks(i) ELSE LastExclusive(i)

(***************************************************************************)
(* A fresh batch, of any number of calls, any of them exclusive.           *)
(***************************************************************************)
Init ==
    /\ total \in 1..MaxCalls
    /\ exclusive \in SUBSET Calls
    /\ task = [i \in Calls |-> "waiting"]
    /\ produced = [i \in Calls |-> "none"]
    /\ result = [i \in Calls |-> "none"]
    /\ emits = [i \in Calls |-> 0]
    /\ interrupted = FALSE
    /\ steeringCheck = FALSE
    /\ taken = <<>>
    /\ steeringMessages = <<>>
    /\ returned = FALSE
    /\ steeringQueue = <<>>
    /\ accepted = <<>>

(* Mutant of Start: a call that was waiting starts whatever happened before. *)
StartRegardless(i) ==
    /\ task[i] = "waiting"
    /\ \A j \in Barrier(i) : task[j] = "settled"
    /\ task' = [task EXCEPT ![i] = "before"]
    /\ UNCHANGED <<total, exclusive, produced, result, emits, interrupted,
                   steeringCheck, taken, steeringMessages, returned,
                   steeringQueue, accepted>>

(***************************************************************************)
(* The call's barrier has settled: runTool begins, unless the batch has    *)
(* been interrupted, when the call is left to the tail sweep.              *)
(***************************************************************************)
Start(i) ==
    /\ task[i] = "waiting"
    /\ \A j \in Barrier(i) : task[j] = "settled"
    /\ task' = [task EXCEPT ![i] = IF interrupted THEN "settled" ELSE "before"]
    /\ UNCHANGED <<total, exclusive, produced, result, emits, interrupted,
                   steeringCheck, taken, steeringMessages, returned,
                   steeringQueue, accepted>>

(* The tool is found, its arguments are valid, beforeToolCall lets it pass. *)
Execute(i) ==
    /\ task[i] = "before"
    /\ task' = [task EXCEPT ![i] = "executing"]
    /\ UNCHANGED <<total, exclusive, produced, result, emits, interrupted,
                   steeringCheck, taken, steeringMessages, returned,
                   steeringQueue, accepted>>

(* The try block ends: the call was refused before execute, or execute     *)
(* returned or threw (an aborted tool does either).                        *)
Produce(i, outcome) ==
    /\ \/ task[i] = "before" /\ outcome = "refused"
       \/ task[i] = "executing" /\ outcome \in {"ok", "error"}
    /\ produced' = [produced EXCEPT ![i] = outcome]
    /\ task' = [task EXCEPT ![i] = "after"]
    /\ UNCHANGED <<total, exclusive, result, emits, interrupted, steeringCheck,
                   taken, steeringMessages, returned, steeringQueue, accepted>>

(* What emitToolResult is given at the end of runTool.                     *)
Emitted(outcome) == IF interrupted THEN "skipped" ELSE outcome

(* Mutant of CheckSteering: the poll is not guarded by interruptState.      *)
CheckSteeringUnguarded(i) ==
    IF InterruptMode = "wait"
    THEN /\ task' = [task EXCEPT ![i] = "settled"]
         /\ UNCHANGED <<steeringCheck, taken, steeringQueue>>
    ELSE /\ task' = [task EXCEPT ![i] = "checking"]
         /\ steeringCheck' = TRUE
         /\ IF steeringCheck
            THEN UNCHANGED <<taken, steeringQueue>>
            ELSE /\ taken' = Dequeued(SteeringMode, steeringQueue)
                 /\ steeringQueue' = Remaining(SteeringMode, steeringQueue)

(***************************************************************************)
(* checkSteering, up to its await.  getSteeringMessages dequeues at the    *)
(* call; what it returns is looked at one turn of the event loop later. A  *)
(* poll already pending is shared.                                         *)
(***************************************************************************)
CheckSteering(i) ==
    IF InterruptMode = "wait" \/ interrupted
    THEN /\ task' = [task EXCEPT ![i] = "settled"]
         /\ UNCHANGED <<steeringCheck, taken, steeringQueue>>
    ELSE /\ task' = [task EXCEPT ![i] = "checking"]
         /\ steeringCheck' = TRUE
         /\ IF steeringCheck
            THEN UNCHANGED <<taken, steeringQueue>>
            ELSE /\ taken' = Dequeued(SteeringMode, steeringQueue)
                 /\ steeringQueue' = Remaining(SteeringMode, steeringQueue)

(***************************************************************************)
(* afterToolCall has settled (it may have turned the outcome into another, *)
(* a throw makes it an error): the result is emitted and the queue polled. *)
(***************************************************************************)
Finish(i, outcome) ==
    /\ task[i] = "after"
    /\ outcome \in {produced[i], "ok", "error"}
    /\ result' = [result EXCEPT ![i] = Emitted(outcome)]
    /\ emits' = [emits EXCEPT ![i] = @ + 1]
    /\ CheckSteering(i)
    /\ UNCHANGED <<total, exclusive, produced, interrupted, steeringMessages,
                   returned, accepted>>

(* The shared poll resolves: a message in it interrupts the batch.         *)
ResolveCheck ==
    /\ steeringCheck
    /\ IF taken = <<>>
       THEN UNCHANGED <<interrupted, steeringMessages>>
       ELSE /\ interrupted' = TRUE
            /\ steeringMessages' = taken
    /\ steeringCheck' = FALSE
    /\ taken' = <<>>
    /\ task' = [i \in Calls |-> IF task[i] = "checking" THEN "settled" ELSE task[i]]
    /\ UNCHANGED <<total, exclusive, produced, result, emits, returned,
                   steeringQueue, accepted>>

(* Mutant of Return: no tail sweep.                                        *)
ReturnWithoutSweep ==
    /\ ~returned
    /\ \A i \in Calls : task[i] = "settled"
    /\ returned' = TRUE
    /\ UNCHANGED <<total, exclusive, task, produced, result, emits, interrupted,
                   steeringCheck, taken, steeringMessages, steeringQueue, accepted>>

(***************************************************************************)
(* Promise.allSettled, then the tail sweep emits a skipped result for each *)
(* record that has none, and the batch returns.                            *)
(***************************************************************************)
Return ==
    /\ ~returned
    /\ \A i \in Calls : task[i] = "settled"
    /\ result' = [i \in Calls |-> IF result[i] = "none" THEN "skipped" ELSE result[i]]
    /\ emits' = [i \in Calls |-> IF result[i] = "none" THEN emits[i] + 1 ELSE emits[i]]
    /\ returned' = TRUE
    /\ UNCHANGED <<total, exclusive, task, produced, interrupted, steeringCheck,
                   taken, steeringMessages, steeringQueue, accepted>>

(***************************************************************************)
(* The user, on the same event loop: Agent.steer and popLastSteer.         *)
(***************************************************************************)
Steer ==
    /\ Len(accepted) < MaxSteer
    /\ steeringQueue' = Append(steeringQueue, Len(accepted) + 1)
    /\ accepted' = Append(accepted, Len(accepted) + 1)
    /\ UNCHANGED batchVars

PopLastSteer ==
    /\ steeringQueue # <<>>
    /\ steeringQueue' = WithoutLast(steeringQueue)
    /\ accepted' = WithoutLast(accepted)
    /\ UNCHANGED batchVars

BatchStep ==
    \/ \E i \in Calls : Start(i) \/ Execute(i)
    \/ \E i \in Calls, outcome \in Outcomes : Produce(i, outcome) \/ Finish(i, outcome)
    \/ ResolveCheck
    \/ Return

Next == BatchStep \/ Steer \/ PopLastSteer

(***************************************************************************)
(* The event loop runs what is ready, and every tool and hook settles (a   *)
(* tool that never does hangs the batch in the code too).                  *)
(***************************************************************************)
Spec == Init /\ [][Next]_vars /\ WF_vars(BatchStep)

-----------------------------------------------------------------------------
(* Properties *)

TypeOK ==
    /\ total \in 1..MaxCalls
    /\ exclusive \in SUBSET Calls
    /\ task \in [Calls -> Phases]
    /\ produced \in [Calls -> Outcomes \cup {"none"}]
    /\ result \in [Calls -> Outcomes \cup {"none", "skipped"}]
    /\ emits \in [Calls -> Nat]
    /\ interrupted \in BOOLEAN
    /\ steeringCheck \in BOOLEAN
    /\ taken \in Seq(Nat)
    /\ steeringMessages \in Seq(Nat)
    /\ returned \in BOOLEAN
    /\ steeringQueue \in Seq(Nat)
    /\ accepted \in Seq(Nat)

(* An exclusive tool never overlaps another tool of its batch: the promise *)
(* chain of the scheduling loop is a lock, although a call only waits for  *)
(* the last exclusive call and the shared ones since.                      *)
ExclusiveAlone ==
    \A i, j \in Calls : i # j /\ i \in exclusive /\ Active(i) => ~Active(j)

(* Every tool call gets exactly one result message: the batch never        *)
(* returns with a call unanswered, and no call is answered twice by runTool*)
(* and the tail sweep together (the API's tool_use/tool_result pairing).   *)
AnsweredExactlyOnce ==
    /\ \A i \in Calls : emits[i] <= 1
    /\ returned => \A i \in Calls : emits[i] = 1

(* "Skipped due to queued user message." is told only when there is such a *)
(* message, and the batch hands it to the loop.                            *)
SkippedMeansInterrupted ==
    \A i \in Calls : result[i] = "skipped" => interrupted /\ steeringMessages # <<>>

(* The types, and what becomes of the calls: each is answered once, and    *)
(* skipped only for an interrupt.                                          *)
BatchInv == TypeOK /\ AnsweredExactlyOnce /\ SkippedMeansInterrupted

(* No steering message is lost, duplicated or reordered by the polls of    *)
(* concurrent calls: what interrupted the batch, what a pending poll holds *)
(* and what is queued are, in this order, what the user has queued.        *)
SteeringInOrder ==
    steeringMessages \o taken \o steeringQueue = accepted

(* Once the batch is interrupted no further tool call starts.              *)
NoStartOnceInterrupted ==
    [][interrupted => \A i \in Calls : task[i] = "waiting" => task'[i] # "before"]_vars

(* The barriers of a batch never wait for one another in a circle, nor for *)
(* a poll nobody resolves: the batch returns.                              *)
BatchReturns == <>returned

(* Seen from the loop, a call runs from its start until its result is out. *)
Running == {i \in Calls : task[i] \in {"before", "executing", "after"}}

Ordered == INSTANCE OrderedBatch WITH running <- Running, answer <- result

(* The batch keeps the promise of OrderedBatch: whatever promises, hooks   *)
(* and polls interleave, the calls are run and answered as if in the order *)
(* of the message, and only an interrupt lets calls be skipped.            *)
ImplementsOrderedBatch == Ordered!Spec

(* docs/provider-streaming-internals.md: "steering interrupts can abort    *)
(* remaining tool execution while preserving already-produced tool results"*)
(* A call whose tool had answered before the interrupt keeps the answer.   *)
ProducedResultsPreserved ==
    \A i \in 1..MaxCalls :
        []((i \in Calls /\ ~interrupted /\ produced[i] = "ok")
               => [](i \in Calls => result[i] # "skipped"))
=============================================================================
