----------------------------- MODULE AgentLoop -----------------------------
(***************************************************************************)
(* An Agent (packages/agent/src/agent.ts) and the loop it runs             *)
(* (packages/agent/src/agent-loop.ts).                                     *)
(*                                                                         *)
(* A run takes the messages of prompt() or continue(), and alternates model*)
(* calls with batches of tool calls (module ToolBatch) until the model     *)
(* stops calling tools and no steering or follow-up message is left.  The  *)
(* loop keeps its own context, the list every request is built from; the   *)
(* Agent keeps state.messages, which it rebuilds from the events of the    *)
(* loop, as fast as it consumes them.  The two lists are one conversation. *)
(*                                                                         *)
(* A step is the code between two awaits.  The model, the hooks that may   *)
(* throw, and the user, who steers, follows up, withdraws and aborts at    *)
(* any moment, are the environment.  prompt() and continue() are called by *)
(* callers that wait for the run before (AgentSession awaits it, or goes   *)
(* through a timer), so a run starts when none is in progress.             *)
(***************************************************************************)
EXTENDS AgentQueues, Arrays, FiniteSetsExt, SequencesExt

CONSTANTS
    MaxCalls,       \* bound on the tool calls of one assistant message
    MaxToolCalls,   \* bound on the tool calls of the conversation
    MaxMessages,    \* bound on the queued messages not withdrawn
    MaxPrompts,     \* bound on the calls of prompt()
    MaxTurns,       \* bound on the assistant messages
    InterruptMode,  \* Agent#interruptMode
    SteeringMode,   \* Agent#steeringMode
    FollowUpMode    \* Agent#followUpMode

ASSUME LoopAssumption ==
    /\ {MaxCalls, MaxToolCalls, MaxMessages, MaxPrompts, MaxTurns} \subseteq Nat
    /\ InterruptMode \in {"immediate", "wait"}
    /\ {SteeringMode, FollowUpMode} \subseteq QueueModes

VARIABLES
    \* the Agent
    isStreaming,    \* state.isStreaming
    messages,       \* state.messages
    steeringQueue,  \* Agent#steeringQueue
    followUpQueue,  \* Agent#followUpQueue
    aborted,        \* the signal of the run's abort controller
    \* the event stream from the loop to the Agent
    events,         \* EventStream queue: messages that ended, then "agent_end"
    leftover,       \* whether the last message_start was of a leaked response
    \* the loop
    pc,             \* the await the loop is at
    context,        \* currentContext.messages, without a partial message
    pending,        \* pendingMessages
    answer,         \* the assistant message of this turn
    partial,        \* whether a partial assistant message was started
    harmonyRetries, \* harmonyRetryAttempt
    hasMoreToolCalls, \* hasMoreToolCalls: what the inner loop goes on for
    batchResults,   \* toolResults of this turn, in the order they were emitted
    \* the batch of tool calls (ToolBatch)
    total, exclusive, task, produced, result, emits, interrupted,
    steeringCheck, taken, steeringMessages, returned,
    \* history
    accepted,       \* steering messages queued and not withdrawn, in order
    acceptedFollowUps, \* the same for follow-ups
    prompts         \* number of prompt() calls

Batch == INSTANCE ToolBatch WITH MaxSteer <- MaxMessages

batchVars == <<total, exclusive, task, produced, result, emits, interrupted,
               steeringCheck, taken, steeringMessages, returned>>
queueVars == <<steeringQueue, followUpQueue, accepted, acceptedFollowUps>>
retryVars == <<partial, harmonyRetries, hasMoreToolCalls, leftover>>
loopVars == <<pc, context, pending, answer, retryVars, batchResults>>
agentVars == <<isStreaming, messages, aborted, events, prompts>>
vars == <<agentVars, queueVars, loopVars, batchVars>>

(***************************************************************************)
(* Messages.  A user message is known by its origin and its place in it; an*)
(* assistant message by the number of its tool calls and its stop reason.  *)
(***************************************************************************)
User(from, id) == [role |-> "user", from |-> from, id |-> id]
Assistant(calls, stop) == [role |-> "assistant", calls |-> calls, stop |-> stop]
ToolResult(call) == [role |-> "toolResult", call |-> call]

AgentEnd == [role |-> "agent_end"]

(* A response that leaked, of which message_start was announced and no     *)
(* message_end: its text is left out, not the n tool calls it had made.    *)
Leaked(n) == Assistant(n, "leaked")

(* The ids as messages, and the messages of one origin as ids.             *)
Messages(from, ids) == [k \in DOMAIN ids |-> User(from, ids[k])]
IdsFrom(from, s) ==
    LET own == Filtered(s, {k \in DOMAIN s : s[k].role = "user" /\ s[k].from = from})
    IN  [k \in DOMAIN own |-> own[k].id]

(* The messages among the events: agent_end is the last event of a run.    *)
Ended(s) == IF s # <<>> /\ Last(s) = AgentEnd THEN Front(s) ELSE s

(* createAbortedToolResult for each of n calls, in order.                  *)
Placeholders(n) == [i \in 1..n |-> ToolResult(i)]

Running == pc # "none"
ModelCalls == Cardinality({k \in DOMAIN messages : messages[k].role = "assistant"})
                + Cardinality({k \in DOMAIN events : events[k].role = "assistant"})
ToolCalls ==
    LET calls(s) == {c \in (DOMAIN s) \X (1..MaxCalls) :
                         s[c[1]].role = "assistant" /\ c[2] <= s[c[1]].calls}
    IN  Cardinality(calls(messages)) + Cardinality(calls(events))

-----------------------------------------------------------------------------
(* The batch between two turns: none. *)

NoBatch ==
    /\ total = 0 /\ exclusive = {} /\ task = <<>> /\ produced = <<>>
    /\ result = <<>> /\ emits = <<>> /\ interrupted = FALSE
    /\ steeringCheck = FALSE /\ taken = <<>> /\ steeringMessages = <<>>
    /\ returned = FALSE

StartBatch(n) ==
    /\ total' = n
    /\ exclusive' \in SUBSET (1..n)
    /\ task' = [i \in 1..n |-> "waiting"]
    /\ produced' = [i \in 1..n |-> "none"]
    /\ result' = [i \in 1..n |-> "none"]
    /\ emits' = [i \in 1..n |-> 0]
    /\ UNCHANGED <<interrupted, steeringCheck, taken, steeringMessages, returned>>

ClearBatch ==
    /\ total' = 0 /\ exclusive' = {} /\ task' = <<>> /\ produced' = <<>>
    /\ result' = <<>> /\ emits' = <<>> /\ interrupted' = FALSE
    /\ steeringCheck' = FALSE /\ taken' = <<>> /\ steeringMessages' = <<>>
    /\ returned' = FALSE

Init ==
    /\ isStreaming = FALSE /\ messages = <<>> /\ aborted = FALSE
    /\ steeringQueue = <<>> /\ followUpQueue = <<>>
    /\ events = <<>> /\ prompts = 0
    /\ pc = "none" /\ context = <<>> /\ pending = <<>>
    /\ answer = Assistant(0, "stop") /\ partial = FALSE
    /\ harmonyRetries = 0 /\ hasMoreToolCalls = FALSE /\ leftover = FALSE
    /\ batchResults = <<>>
    /\ NoBatch
    /\ accepted = <<>> /\ acceptedFollowUps = <<>>

-----------------------------------------------------------------------------
(* Starting a run *)

(***************************************************************************)
(* #runLoop up to the first await of the loop: the new messages enter the  *)
(* context and are announced, and the loop makes its initial steering poll *)
(* on what is left of the queue, unless it is told to skip it.             *)
(***************************************************************************)
RunLoop(new, queue, skipInitialSteeringPoll) ==
    /\ isStreaming' = TRUE
    /\ aborted' = FALSE
    /\ context' = messages \o new
    /\ events' = new
    /\ IF skipInitialSteeringPoll
       THEN pending' = <<>> /\ steeringQueue' = queue
       ELSE /\ pending' = Messages("steer", Dequeued(SteeringMode, queue))
            /\ steeringQueue' = Remaining(SteeringMode, queue)
    /\ pc' = "top"
    /\ hasMoreToolCalls' = TRUE
    /\ harmonyRetries' = 0
    /\ UNCHANGED <<messages, answer, partial, leftover, batchResults, batchVars, accepted,
                   acceptedFollowUps>>

(* prompt(): throws AgentBusyError while a run is streaming.               *)
Prompt ==
    /\ ~Running /\ ~isStreaming
    /\ prompts < MaxPrompts
    /\ prompts' = prompts + 1
    /\ RunLoop(<<User("prompt", prompts + 1)>>, steeringQueue, FALSE)
    /\ UNCHANGED followUpQueue

(***************************************************************************)
(* continue(): after an assistant message it needs a queued message to go  *)
(* on with, a steering one first; after any other it just resumes.         *)
(***************************************************************************)
Continue ==
    /\ ~Running /\ ~isStreaming
    /\ messages # <<>>
    /\ IF Last(messages).role # "assistant"
       THEN RunLoop(<<>>, steeringQueue, FALSE) /\ UNCHANGED followUpQueue
       ELSE \/ /\ steeringQueue # <<>>
               /\ RunLoop(Messages("steer", Dequeued(SteeringMode, steeringQueue)),
                          Remaining(SteeringMode, steeringQueue), TRUE)
               /\ UNCHANGED followUpQueue
            \/ /\ steeringQueue = <<>> /\ followUpQueue # <<>>
               /\ followUpQueue' = Remaining(FollowUpMode, followUpQueue)
               /\ RunLoop(Messages("followUp", Dequeued(FollowUpMode, followUpQueue)),
                          steeringQueue, FALSE)
    /\ UNCHANGED prompts

-----------------------------------------------------------------------------
(* The loop *)

(* The top of the inner loop: what is pending enters the conversation.     *)
InjectPending ==
    /\ pc = "top"
    /\ context' = context \o pending
    /\ events' = events \o pending
    /\ pending' = <<>>
    /\ leftover' = (leftover /\ pending = <<>>)
    /\ pc' = "model"
    /\ UNCHANGED <<isStreaming, messages, aborted, prompts, queueVars, answer, partial,
                   harmonyRetries, hasMoreToolCalls, batchResults, batchVars>>

(* The stream of the response starts: a partial message is in the context. *)
StartResponse ==
    /\ pc = "model" /\ ~partial /\ ~aborted
    /\ ModelCalls < MaxTurns
    /\ partial' = TRUE
    /\ leftover' = FALSE
    /\ UNCHANGED <<agentVars, queueVars, pc, context, pending, answer,
                   harmonyRetries, hasMoreToolCalls, batchResults, batchVars>>

(* The assistant message is final: it enters both lists.                   *)
Receive(message) ==
    /\ ToolCalls + message.calls <= MaxToolCalls
    /\ answer' = message
    /\ context' = Append(context, message)
    /\ events' = Append(events, message)
    /\ partial' = FALSE /\ leftover' = FALSE
    /\ harmonyRetries' = 0
    /\ pc' = "turn"
    /\ UNCHANGED <<isStreaming, messages, aborted, prompts, queueVars, pending,
                   hasMoreToolCalls, batchResults, batchVars>>

(***************************************************************************)
(* The provider's "done" or "error" event, or the cap on the tool calls of *)
(* a turn cutting the stream: n calls and the reason the message ended.    *)
(***************************************************************************)
FinishResponse(n, stop) ==
    /\ pc = "model" /\ ~aborted
    /\ ModelCalls < MaxTurns
    /\ stop = "toolUse" => n > 0
    /\ Receive(Assistant(n, stop))

(* Mutant of AbortResponse: only the listener, no check before the stream  *)
(* is read, so that an abort that came earlier is not noticed.             *)
AbortResponseOfStream(n) ==
    /\ pc = "model" /\ aborted /\ partial
    /\ Receive(Assistant(n, "aborted"))

(* The abort listener, or the check before the stream is read: a partial   *)
(* message keeps the tool calls it had.                                    *)
AbortResponse(n) ==
    /\ pc = "model" /\ aborted
    /\ n > 0 => partial
    /\ Receive(Assistant(n, "aborted"))

(***************************************************************************)
(* What follows a GPT-5 Harmony leak: the partial message is popped, and   *)
(* "continue" tests the condition of the inner loop, so the call is made   *)
(* again only if the turn began with a run, a batch or a follow-up.        *)
(***************************************************************************)
PopLeaked ==
    /\ harmonyRetries' = harmonyRetries + 1
    /\ partial' = FALSE
    /\ leftover' = (partial \/ leftover)
    /\ pc' = IF hasMoreToolCalls THEN "top" ELSE "yield"
    /\ UNCHANGED <<agentVars, queueVars, context, pending, answer, hasMoreToolCalls,
                   batchResults, batchVars>>

(* A leak is retried, twice at most.                                       *)
RetryHarmonyLeak ==
    /\ pc = "model" /\ ~aborted
    /\ harmonyRetries < 2
    /\ PopLeaked

(* Mutant of StopTurn: the calls of a message that failed stay unanswered. *)
StopTurnUnanswered ==
    /\ pc = "turn"
    /\ answer.stop \in {"error", "aborted"}
    /\ events' = Append(events, AgentEnd)
    /\ pc' = "ended"
    /\ UNCHANGED <<isStreaming, messages, aborted, prompts, queueVars, pending, answer,
                   context, retryVars, batchResults, batchVars>>

(* The model call failed or was aborted: a placeholder for each call, and  *)
(* the run is over.                                                        *)
StopTurn ==
    /\ pc = "turn"
    /\ answer.stop \in {"error", "aborted"}
    /\ context' = context \o Placeholders(answer.calls)
    /\ events' = events \o Placeholders(answer.calls) \o <<AgentEnd>>
    /\ pc' = "ended"
    /\ UNCHANGED <<isStreaming, messages, aborted, prompts, queueVars, pending, answer,
                   retryVars, batchResults, batchVars>>

(***************************************************************************)
(* The end of a turn that did not fail.  What is to be injected next is the*)
(* interrupt of the batch, if there was one, or else what a poll returns.  *)
(***************************************************************************)
EndTurn(interrupt, ranTools) ==
    /\ hasMoreToolCalls' = ranTools
    /\ IF interrupt # <<>>
       THEN pending' = Messages("steer", interrupt) /\ UNCHANGED steeringQueue
       ELSE /\ pending' = Messages("steer", Dequeued(SteeringMode, steeringQueue))
            /\ steeringQueue' = Remaining(SteeringMode, steeringQueue)
    /\ pc' = IF ranTools \/ pending' # <<>> THEN "top" ELSE "yield"

(* Mutant of PassTurn: the placeholders of a cut message are not announced.*)
PassTurnSilently ==
    /\ pc = "turn"
    /\ answer.stop = "length" \/ (answer.stop \in {"stop", "toolUse"} /\ answer.calls = 0)
    /\ context' = context \o Placeholders(answer.calls)
    /\ EndTurn(<<>>, FALSE)
    /\ UNCHANGED <<agentVars, followUpQueue, accepted, acceptedFollowUps, answer,
                   partial, leftover, harmonyRetries, batchResults, batchVars>>

(* No call to run: there is none, or the message was cut at its length and *)
(* its calls get placeholders.                                             *)
PassTurn ==
    /\ pc = "turn"
    /\ answer.stop = "length" \/ (answer.stop \in {"stop", "toolUse"} /\ answer.calls = 0)
    /\ context' = context \o Placeholders(answer.calls)
    /\ events' = events \o Placeholders(answer.calls)
    /\ EndTurn(<<>>, FALSE)
    /\ UNCHANGED <<isStreaming, messages, aborted, prompts, followUpQueue, accepted,
                   acceptedFollowUps, answer, partial, leftover, harmonyRetries, batchResults,
                   batchVars>>

RunTools ==
    /\ pc = "turn"
    /\ answer.stop \in {"stop", "toolUse"} /\ answer.calls > 0
    /\ StartBatch(answer.calls)
    /\ batchResults' = <<>>
    /\ pc' = "tools"
    /\ UNCHANGED <<agentVars, queueVars, context, pending, answer,
                   retryVars>>

(* The calls answered in this step, in the order their results are emitted:*)
(* one that finishes, or the tail sweep over the records in their order.   *)
NewlyAnswered == {i \in 1..total : emits'[i] > emits[i]}
InOrder(S) ==
    {f \in [1..Cardinality(S) -> S] :
         Range(f) = S /\ \A j, k \in DOMAIN f : j < k => f[j] < f[k]}

(* A step of executeToolCalls: results are announced as they are emitted.  *)
(* What a tool answers makes no difference to the loop, so here all answer *)
(* "ok"; ToolBatch has the other outcomes.                                 *)
ToolStep ==
    /\ pc = "tools" /\ ~returned
    /\ \/ \E i \in 1..total : \/ Batch!Start(i) \/ Batch!Execute(i)
                             \/ Batch!Produce(i, "ok") \/ Batch!Finish(i, "ok")
       \/ Batch!ResolveCheck
       \/ Batch!Return
    /\ \E order \in InOrder(NewlyAnswered) :
           LET results == [k \in DOMAIN order |-> ToolResult(order[k])]
           IN  /\ batchResults' = batchResults \o results
               /\ events' = events \o results
    /\ UNCHANGED <<isStreaming, messages, aborted, prompts, followUpQueue,
                   acceptedFollowUps, pc, context, pending, answer,
                   retryVars>>

(* Mutant of FinishTools: the batch's interrupt is dropped for a fresh poll.*)
FinishToolsRepolling ==
    /\ pc = "tools" /\ returned
    /\ context' = context \o batchResults
    /\ batchResults' = <<>>
    /\ EndTurn(<<>>, TRUE)
    /\ ClearBatch
    /\ UNCHANGED <<agentVars, followUpQueue, accepted, acceptedFollowUps, answer,
                   partial, leftover, harmonyRetries>>

(* executeToolCalls has returned: its results enter the context.           *)
FinishTools ==
    /\ pc = "tools" /\ returned
    /\ context' = context \o batchResults
    /\ batchResults' = <<>>
    /\ EndTurn(steeringMessages, TRUE)
    /\ ClearBatch
    /\ UNCHANGED <<agentVars, followUpQueue, accepted, acceptedFollowUps, answer,
                   partial, leftover, harmonyRetries>>

(* onBeforeYield has settled; the loop stops unless a follow-up is queued. *)
Yield ==
    /\ pc = "yield"
    /\ followUpQueue' = Remaining(FollowUpMode, followUpQueue)
    /\ pending' = Messages("followUp", Dequeued(FollowUpMode, followUpQueue))
    /\ IF followUpQueue # <<>>
       THEN pc' = "top" /\ hasMoreToolCalls' = TRUE /\ UNCHANGED events
       ELSE /\ pc' = "ended" /\ events' = Append(events, AgentEnd)
            /\ UNCHANGED hasMoreToolCalls
    /\ UNCHANGED <<isStreaming, messages, aborted, prompts, steeringQueue, accepted,
                   acceptedFollowUps, context, answer, partial, leftover, harmonyRetries,
                   batchResults, batchVars>>

(* Something the loop awaits throws: a hook, the credential, the request   *)
(* itself, a leak that persists.  stream.fail ends the run.                *)
Throw ==
    /\ pc \in {"model", "yield"}
    /\ partial' = FALSE
    /\ pc' = "failed"
    /\ UNCHANGED <<agentVars, queueVars, context, pending, answer, harmonyRetries, hasMoreToolCalls, leftover,
                   batchResults, batchVars>>

-----------------------------------------------------------------------------
(* The Agent consumes the events *)

Consume ==
    /\ events # <<>>
    /\ events' = Tail(events)
    /\ IF Head(events) = AgentEnd
       THEN isStreaming' = FALSE /\ UNCHANGED messages
       ELSE messages' = Append(messages, Head(events)) /\ UNCHANGED isStreaming
    /\ UNCHANGED <<aborted, prompts, queueVars, loopVars, batchVars>>

(* A run whose last response leaked leaves what the Agent still holds of   *)
(* it, tool calls included, and nothing after it that would answer them.   *)
(* Unless that is empty: an aborted run then leaves an error message.      *)
LeaveLeaked ==
    \/ \E n \in 0..MaxCalls :
           /\ ToolCalls + n <= MaxToolCalls
           /\ messages' = Append(messages, Leaked(n))
    \/ messages' = messages
    \/ aborted /\ messages' = Append(messages, Assistant(0, "aborted"))

(* The stream is drained.  A failed run leaves an error message; whatever  *)
(* happened, the finally block makes the Agent idle.                       *)
FinishRun ==
    /\ pc \in {"ended", "failed"} /\ events = <<>>
    /\ \/ /\ pc = "ended"
          /\ IF leftover THEN LeaveLeaked ELSE UNCHANGED messages
       \/ /\ pc = "failed"
          /\ messages' =
                 Append(messages, Assistant(0, IF aborted THEN "aborted" ELSE "error"))
    /\ isStreaming' = FALSE
    /\ aborted' = FALSE
    /\ pc' = "none"
    /\ context' = <<>>
    /\ answer' = Assistant(0, "stop")
    /\ harmonyRetries' = 0 /\ hasMoreToolCalls' = FALSE /\ leftover' = FALSE
    /\ UNCHANGED <<events, prompts, queueVars, pending, partial, batchResults, batchVars>>

-----------------------------------------------------------------------------
(* The user *)

Abort ==
    /\ Running /\ ~aborted
    /\ aborted' = TRUE
    /\ UNCHANGED <<isStreaming, messages, events, prompts, queueVars, loopVars, batchVars>>

MayQueue == Len(accepted) + Len(acceptedFollowUps) < MaxMessages

Steer ==
    /\ MayQueue
    /\ Batch!Steer
    /\ UNCHANGED <<agentVars, loopVars, followUpQueue, acceptedFollowUps>>

FollowUp ==
    /\ MayQueue
    /\ followUpQueue' = Append(followUpQueue, Len(acceptedFollowUps) + 1)
    /\ acceptedFollowUps' = Append(acceptedFollowUps, Len(acceptedFollowUps) + 1)
    /\ UNCHANGED <<agentVars, loopVars, batchVars, steeringQueue, accepted>>

PopLastSteer ==
    /\ Batch!PopLastSteer
    /\ UNCHANGED <<agentVars, loopVars, followUpQueue, acceptedFollowUps>>

PopLastFollowUp ==
    /\ followUpQueue # <<>>
    /\ followUpQueue' = WithoutLast(followUpQueue)
    /\ acceptedFollowUps' = WithoutLast(acceptedFollowUps)
    /\ UNCHANGED <<agentVars, loopVars, batchVars, steeringQueue, accepted>>

ClearAllQueues ==
    /\ steeringQueue # <<>> \/ followUpQueue # <<>>
    /\ steeringQueue' = <<>> /\ followUpQueue' = <<>>
    /\ accepted' = SubSeq(accepted, 1, Len(accepted) - Len(steeringQueue))
    /\ acceptedFollowUps' =
           SubSeq(acceptedFollowUps, 1, Len(acceptedFollowUps) - Len(followUpQueue))
    /\ UNCHANGED <<agentVars, loopVars, batchVars>>

-----------------------------------------------------------------------------

CallCounts == 0..MaxCalls
Stops == {"stop", "toolUse", "length", "error"}

Provider ==
    \/ StartResponse
    \/ \E n \in CallCounts, stop \in Stops : FinishResponse(n, stop)
    \/ RetryHarmonyLeak
    \/ Throw

Loop ==
    \/ InjectPending
    \/ \E n \in CallCounts : AbortResponse(n)
    \/ StopTurn \/ PassTurn \/ RunTools \/ ToolStep \/ FinishTools \/ Yield
    \/ Consume \/ FinishRun

Caller == Prompt \/ Continue

Environment ==
    Abort \/ Steer \/ FollowUp \/ PopLastSteer \/ PopLastFollowUp \/ ClearAllQueues

Next == Provider \/ Loop \/ Caller \/ Environment

(***************************************************************************)
(* The event loop runs what is ready; tools and hooks settle.  The provider*)
(* may never answer, and nobody has to call the Agent.                     *)
(***************************************************************************)
Spec == Init /\ [][Next]_vars /\ WF_vars(Loop)

-----------------------------------------------------------------------------
(* Properties *)

(* What has been announced: the messages the Agent has, and will have when *)
(* it has consumed the events.                                             *)
Announced == messages \o Ended(events)

UserMessage == [role : {"user"}, from : {"prompt", "steer", "followUp"}, id : Nat]
AssistantMessage ==
    [role : {"assistant"}, calls : CallCounts, stop : Stops \cup {"aborted", "leaked"}]
ToolResultMessage == [role : {"toolResult"}, call : 1..MaxCalls]
Message == UserMessage \cup AssistantMessage \cup ToolResultMessage

FlagTypes ==
    /\ isStreaming \in BOOLEAN /\ aborted \in BOOLEAN /\ partial \in BOOLEAN
    /\ hasMoreToolCalls \in BOOLEAN /\ leftover \in BOOLEAN
    /\ pc \in {"none", "top", "model", "turn", "tools", "yield", "ended", "failed"}
    /\ harmonyRetries \in 0..2
    /\ prompts \in 0..MaxPrompts

ListTypes ==
    /\ messages \in Seq(Message) /\ context \in Seq(Message)
    /\ pending \in Seq(Message) /\ batchResults \in Seq(Message)
    /\ answer \in AssistantMessage
    /\ events \in Seq(Message \cup {AgentEnd})

TypeOK == FlagTypes /\ ListTypes /\ (pc = "tools" => Batch!TypeOK)

(* The Agent's messages and the loop's context are one conversation: what  *)
(* a request is built from is what the session sees, stores and resumes.   *)
ConversationMirrored ==
    /\ pc = "none" => events = <<>>
    /\ pc # "none" => Announced = context \o batchResults

(* The position of the last assistant message before k (0 if none), and the*)
(* calls it is owed results for: all it made, but none if it is a leaked   *)
(* response that the end of a run left behind.                             *)
AssistantBefore(s, k) == Max({0} \cup {j \in 1..(k - 1) : s[j].role = "assistant"})
Owed(message) == IF message.stop = "leaked" THEN {} ELSE 1..message.calls
CallsAt(s, a) == IF a = 0 THEN {} ELSE Owed(s[a])
AnsweredBetween(s, a, k) ==
    {s[j].call : j \in {i \in (a + 1)..(k - 1) : s[i].role = "toolResult"}}

(* Before position k of s every tool call is answered.                     *)
Complete(s, k) ==
    LET a == AssistantBefore(s, k) IN AnsweredBetween(s, a, k) = CallsAt(s, a)

(* A result answers a call of the assistant message before it, once, and   *)
(* nothing but results comes before the last call is answered.             *)
Paired(s) ==
    \A k \in DOMAIN s :
        IF s[k].role = "toolResult"
        THEN LET a == AssistantBefore(s, k)
             IN  s[k].call \in CallsAt(s, a) \ AnsweredBetween(s, a, k)
        ELSE Complete(s, k)

(* The tool_use/tool_result pairing the API requires.  It holds of the     *)
(* conversation as announced, and every request and every idle Agent has   *)
(* it complete, whatever was aborted, cut, skipped or thrown, with one     *)
(* exception the code makes: the calls of a leaked response that the end of*)
(* a run committed (agent.ts:1073-1083) have no results, and never get any.*)
CallsPaired ==
    /\ Paired(Announced)
    /\ pc = "model" => Complete(context, Len(context) + 1)
    /\ pc = "none" => Complete(messages, Len(messages) + 1)

(* The types, the bound on leak retries among them, and the pairing of the *)
(* calls and the results in every request and in what the session stores.  *)
LoopInv == TypeOK /\ CallsPaired

(* No queued message is lost, repeated or overtaken by another of its kind,*)
(* through polls, batch interrupts, aborts, errors, retries and resumed    *)
(* runs: those in the conversation, those the loop or the batch holds, and *)
(* those queued are the ones the user queued and did not withdraw.         *)
MessagesDelivered ==
    /\ IdsFrom("steer", Announced \o pending)
           \o steeringMessages \o taken \o steeringQueue = accepted
    /\ IdsFrom("followUp", Announced \o pending) \o followUpQueue = acceptedFollowUps

(* abort() ends the run wherever it is: waiting for the provider, between  *)
(* turns, in a batch of tools or waiting for its hooks.                    *)
AbortEndsRun == aborted ~> ~Running

(* test/agent-loop.test.ts:81 on a leaked response: "The leaked attempt was*)
(* retried, not committed."                                                *)
LeakNotCommitted == \A n \in CallCounts : Leaked(n) \notin Range(messages)

(* agent.ts on followUp(): "Delivered only when agent has no more tool     *)
(* calls or steering messages."                                            *)
FollowUpsAfterSteering ==
    [][Yield /\ followUpQueue # <<>> => steeringQueue = <<>>]_vars
=============================================================================
