---------------------------- MODULE SessionTurns ----------------------------
(***************************************************************************)
(* session/agent-session.ts: what an AgentSession adds to the runs of its  *)
(* Agent (module AgentLoop).  A prompt starts a run and then waits until   *)
(* every retry and continuation of it has settled; the handler of          *)
(* agent_end, which the Agent calls and does not wait for, decides whether *)
(* a failed run is tried again, sleeps, and leaves a post-prompt task that *)
(* continues the conversation; abort() is to stop all of it.               *)
(*                                                                         *)
(* Runs, handlers, tasks, prompts and abort() are asynchronous functions   *)
(* on one event loop; a step below is the code of one of them between two  *)
(* awaits.  A run is known by its number; so are the handler of its        *)
(* agent_end and the task that handler leaves.  A run has any number of    *)
(* answers that call tools before it ends: with an answer, with an error,  *)
(* or aborted.  Each message has a handler of its own, for message_end.    *)
(* Compaction, rule injections and the fallback model are left out but for *)
(* the awaits they bring.                                                  *)
(***************************************************************************)
EXTENDS Integers, FiniteSets

CONSTANTS
    MaxPrompts,   \* bound on the calls of prompt()
    MaxRuns,      \* bound on the runs of the Agent
    MaxAborts,    \* bound on the calls of abort()
    MaxManual,    \* bound on the calls of retry()
    MaxAnswers,   \* bound on the answers after which a run goes on
    maxRetries    \* the setting retry.maxRetries

ASSUME TurnsAssumption ==
    /\ {MaxPrompts, MaxRuns} \subseteq Nat \ {0}
    /\ {MaxAborts, MaxManual, MaxAnswers, maxRetries} \subseteq Nat

Prompts == 1..MaxPrompts
Runs == 1..MaxRuns

VARIABLES
    promptGeneration,  \* #promptGeneration
    inFlight,          \* #promptInFlightCount
    retryAttempt,      \* #retryAttempt
    retryPending,      \* #retryPromise is set
    controller,        \* the handler #retryAbortController belongs to, 0 for none
    streaming,         \* the run the Agent is in, 0 when it is idle
    stopping,          \* the signal of that run is aborted
    last,              \* the last message: the end of a failed or aborted run, Answered, or 0 (the user's)
    prompt,            \* where each prompt stands
    promptedAt,        \* the generation each prompt has read
    origin,            \* the prompt each run works on, 0 for a run the user asks for by retry()
    startedAt,         \* history: the generation each run began in
    lastAssistantMessage,  \* #lastAssistantMessage: how a message ended, and its run
    resetting,         \* the runs with a good message whose handler is to end the count
    handler,           \* where the agent_end handler of each run stands: first, at how the run has ended
    handledAt,         \* the generation the handler has read; Any for a task without one
    woken,             \* the handlers whose retry signal is aborted
    task,              \* where the continuation of each run stands
    taskAborted,       \* the tasks whose signal is aborted
    abort,             \* where abort() stands
    draining,          \* what abort() waits for: the tasks, then the run
    runs, answers, aborts, manual,  \* counters
    stopped,           \* history: runs whose retry abort() has found deciding, asleep or scheduled
    retries,           \* history: the automatic continuations of each prompt
    races,             \* history: lost, once the code has lost one of those below
    left               \* history: a handler has left the promise of a retry behind

sessionVars == <<promptGeneration, inFlight, retryAttempt, retryPending, controller>>
agentVars == <<streaming, stopping, last, origin, startedAt, runs>>
promptVars == <<prompt, promptedAt>>
messageVars == <<answers, lastAssistantMessage, resetting>>
handlerVars == <<handler, handledAt, woken>>
taskVars == <<task, taskAborted>>
abortVars == <<abort, draining, aborts>>
historyVars == <<stopped, retries, races, left>>
vars == <<sessionVars, agentVars, messageVars, promptVars, handlerVars, taskVars,
          abortVars, manual, historyVars>>

Any == -1
Answered == -1

StopReasons == {"ok", "error", "aborted"}

NoMessage == [run |-> 0, stopReason |-> "none"]

isStreaming == streaming # 0 \/ inFlight > 0

PendingTasks == {r \in Runs : task[r] \notin {"none", "done"}}

(* A handler that has read the generation and has not returned.            *)
Retrying == {r \in Runs : handler[r] \in {"deciding", "sleeping", "exhausted", "cancelled"}}

(* The runs that have been counted and are to be tried again.              *)
Scheduled ==
    {r \in Runs : \/ handler[r] \in {"deciding", "sleeping"}
                  \/ task[r] \in {"delay", "restoring"} /\ handledAt[r] # Any}

(* The runs that may yet fail and be tried again.                          *)
Undecided ==
    {r \in Runs : \/ r = streaming
                  \/ handler[r] = "error"}

(***************************************************************************)
(* Races this code does not exclude and some properties except.  In a step *)
(* of the handler, task or prompt that loses one:                          *)
(*   Late       abort() came before the handler of a failed run read the   *)
(*              generation: the retry belongs to the new one               *)
(*   Unheard    abort() came while a task awaited the key of the model     *)
(*   Premature  prompt() returns before the handler of its failed run has  *)
(*              decided on a retry                                         *)
(*   Resolves   a handler resolves the promise of the retry of another     *)
(*   Mistakes   a handler takes the message of another run for its own     *)
(*   Forgets    the attempts are reset for r (0: for a good message) while *)
(*              another run counts on them: it is to be tried again, or is *)
(*              an attempt itself                                          *)
(*   Uncovers   the place that is given up in the count of prompts is that *)
(*              of a live one                                              *)
(***************************************************************************)
Race(isLost) == races' = IF isLost THEN "lost" ELSE races

Late(r) == promptGeneration # startedAt[r]

Unheard(r) == r \in taskAborted

Premature(p) ==
    \E r \in Runs :
        /\ origin[r] = p
        /\ handler[r] = "error"
        /\ startedAt[r] = promptGeneration

Resolves(r) == Retrying \ {r} # {}

(* The message a handler decides on is the one tracked last, whatever run  *)
(* it is of, and the last of its own run when none is.                     *)
Taken(r) == IF lastAssistantMessage = NoMessage
            THEN [run |-> r, stopReason |-> handler[r]] ELSE lastAssistantMessage

Mistakes(r) == Taken(r).run # r

Forgets(r) ==
    /\ retryAttempt > 0
    /\ \E u \in Runs \ {r} :
           \/ u \in Scheduled
           \/ u \in Undecided /\ retries[origin[u]] > 0

(* The prompts that have neither returned nor been aborted.                *)
LivePrompts == {p \in Prompts : prompt[p] \in {"setup", "queued", "running", "waiting"}
                                /\ promptedAt[p] = promptGeneration}

Uncovers(p) == inFlight <= Cardinality(LivePrompts \ {p})

Init ==
    /\ promptGeneration = 0
    /\ inFlight = 0
    /\ retryAttempt = 0
    /\ retryPending = FALSE
    /\ controller = 0
    /\ streaming = 0
    /\ stopping = FALSE
    /\ last = 0
    /\ prompt = [p \in Prompts |-> "none"]
    /\ promptedAt = [p \in Prompts |-> 0]
    /\ origin = [r \in Runs |-> 0]
    /\ startedAt = [r \in Runs |-> 0]
    /\ lastAssistantMessage = NoMessage
    /\ resetting = {}
    /\ handler = [r \in Runs |-> "none"]
    /\ handledAt = [r \in Runs |-> 0]
    /\ woken = {}
    /\ task = [r \in Runs |-> "none"]
    /\ taskAborted = {}
    /\ abort = "none"
    /\ draining = {}
    /\ runs = 0
    /\ answers = 0
    /\ aborts = 0
    /\ manual = 0
    /\ stopped = {}
    /\ retries = [p \in Prompts \cup {0} |-> 0]
    /\ races = "won"
    /\ left = FALSE

(***************************************************************************)
(* The Agent.                                                              *)
(***************************************************************************)
BeginRun(p) ==
    /\ runs < MaxRuns
    /\ runs' = runs + 1
    /\ streaming' = runs'
    /\ stopping' = FALSE
    /\ last' = 0
    /\ origin' = [origin EXCEPT ![runs'] = p]
    /\ startedAt' = [startedAt EXCEPT ![runs'] = promptGeneration]

(* A message of the run ends.  It is tracked for the handler of agent_end. *)
(* A good one ends a chain of retries, but the handler of its message_end  *)
(* takes a while to end the count of attempts: it tells the extensions.    *)
EndMessage(stopReason) ==
    /\ lastAssistantMessage' = [run |-> streaming, stopReason |-> stopReason]
    /\ IF stopReason = "ok"
       THEN /\ resetting' = resetting \cup {m \in {streaming} : retryAttempt > 0}
            /\ retries' = [retries EXCEPT ![origin[streaming]] = 0]
       ELSE UNCHANGED <<resetting, retries>>

(* The run has an answer that calls tools, and goes on.                    *)
Answer ==
    /\ answers < MaxAnswers
    /\ answers' = answers + 1
    /\ streaming # 0
    /\ EndMessage("ok")
    /\ UNCHANGED <<sessionVars, agentVars, promptVars, handlerVars, taskVars, abortVars, manual,
                   stopped, races, left>>

(* The run ends, the handlers of its last message and of agent_end are     *)
(* called, and whoever awaits the run goes on.                             *)
EndRun ==
    /\ streaming # 0
    /\ \E o \in IF stopping THEN {"aborted"} ELSE {"ok", "error"} :
           /\ EndMessage(o)
           /\ handler' = [handler EXCEPT ![streaming] = o]
           /\ last' = IF o = "ok" THEN Answered ELSE streaming
    /\ streaming' = 0
    /\ stopping' = FALSE
    /\ prompt' = [p \in Prompts |-> IF prompt[p] = "running" THEN "waiting" ELSE prompt[p]]
    /\ task' = [r \in Runs |-> IF task[r] = "running" THEN "done" ELSE task[r]]
    /\ UNCHANGED <<sessionVars, origin, startedAt, runs, answers, promptedAt, handledAt, woken,
                   taskAborted, abortVars, manual, stopped, races, left>>

(***************************************************************************)
(* The handler of message_end of an assistant's message.                   *)
(***************************************************************************)
EndCount(r) ==
    /\ r \in resetting
    /\ resetting' = resetting \ {r}
    /\ retryAttempt' = 0
    /\ Race(Forgets(0))
    /\ UNCHANGED <<promptGeneration, inFlight, retryPending, controller, agentVars, answers,
                   lastAssistantMessage, promptVars, handlerVars, taskVars, abortVars, manual,
                   stopped, retries, left>>

(***************************************************************************)
(* prompt() of an idle session: #promptWithMessage.                        *)
(***************************************************************************)
Prompt(p) ==
    /\ ~isStreaming
    /\ prompt[p] = "none"
    /\ \A q \in Prompts : q < p => prompt[q] # "none"
    /\ prompt' = [prompt EXCEPT ![p] = "setup"]
    /\ promptedAt' = [promptedAt EXCEPT ![p] = promptGeneration]
    /\ inFlight' = inFlight + 1
    /\ UNCHANGED <<promptGeneration, retryAttempt, retryPending, controller, agentVars,
                   messageVars, handlerVars, taskVars, abortVars, manual, historyVars>>

(* #endInFlight                                                            *)
EndInFlight == inFlight' = IF inFlight > 0 THEN inFlight - 1 ELSE 0

(* After its awaits a prompt that has been aborted bails out.              *)
BailOut(p) ==
    /\ prompt[p] = "setup"
    /\ promptGeneration # promptedAt[p]
    /\ prompt' = [prompt EXCEPT ![p] = "returned"]
    /\ EndInFlight
    /\ Race(Uncovers(p))
    /\ UNCHANGED <<promptGeneration, retryAttempt, retryPending, controller, agentVars,
                   messageVars, promptedAt, handlerVars, taskVars, abortVars, manual, stopped,
                   retries, left>>

(* The generation is checked for the last time before the Agent is called; *)
(* when that is busy the prompt waits until it is idle,                    *)
Queue(p) ==
    /\ prompt[p] = "setup"
    /\ promptGeneration = promptedAt[p]
    /\ streaming # 0
    /\ prompt' = [prompt EXCEPT ![p] = "queued"]
    /\ UNCHANGED <<sessionVars, agentVars, messageVars, promptedAt, handlerVars, taskVars,
                   abortVars, manual, historyVars>>

(* for thirty seconds.                                                     *)
TimeOut(p) ==
    /\ prompt[p] = "queued"
    /\ streaming # 0
    /\ prompt' = [prompt EXCEPT ![p] = "returned"]
    /\ EndInFlight
    /\ Race(Uncovers(p))
    /\ UNCHANGED <<promptGeneration, retryAttempt, retryPending, controller, agentVars,
                   messageVars, promptedAt, handlerVars, taskVars, abortVars, manual, stopped,
                   retries, left>>

(* The Agent is idle and may be called: nobody checks again for a prompt   *)
(* that has waited.                                                        *)
MayStart(p) ==
    /\ streaming = 0
    /\ \/ prompt[p] = "setup" /\ promptGeneration = promptedAt[p]
       \/ prompt[p] = "queued"

(* Mutant of StartPrompt: the place in the count is given up once the      *)
(* Agent is streaming.                                                     *)
StartPromptUncounted(p) ==
    /\ MayStart(p)
    /\ BeginRun(p)
    /\ prompt' = [prompt EXCEPT ![p] = "running"]
    /\ EndInFlight
    /\ UNCHANGED <<promptGeneration, retryAttempt, retryPending, controller, messageVars,
                   promptedAt, handlerVars, taskVars, abortVars, manual, historyVars>>

(* #promptAgentWithIdleRetry                                               *)
StartPrompt(p) ==
    /\ MayStart(p)
    /\ BeginRun(p)
    /\ prompt' = [prompt EXCEPT ![p] = "running"]
    /\ UNCHANGED <<sessionVars, messageVars, promptedAt, handlerVars, taskVars, abortVars,
                   manual, historyVars>>

(* Mutant of Settled: the retry that is waiting is forgotten.              *)
SettledTasks == PendingTasks = {} /\ streaming = 0

(* #waitForPostPromptRecovery                                              *)
Settled == ~retryPending /\ PendingTasks = {} /\ streaming = 0

Return(p) ==
    /\ prompt[p] = "waiting"
    /\ Settled
    /\ prompt' = [prompt EXCEPT ![p] = "returned"]
    /\ EndInFlight
    /\ Race(Uncovers(p) \/ Premature(p))
    /\ UNCHANGED <<promptGeneration, retryAttempt, retryPending, controller, agentVars,
                   messageVars, promptedAt, handlerVars, taskVars, abortVars, manual, stopped,
                   retries, left>>

(***************************************************************************)
(* The handler of agent_end.                                               *)
(***************************************************************************)
EndHandler(r) ==
    /\ handler' = [handler EXCEPT ![r] = "done"]
    /\ UNCHANGED <<handledAt, woken>>

(* The message decided on, see Taken, is taken.                            *)
Take ==
    /\ lastAssistantMessage' = NoMessage
    /\ UNCHANGED <<answers, resetting>>

(* The run has ended with the tool yield, or during a handoff: the handler *)
(* leaves, and with it what waits for the promise of a retry.              *)
Leave(r) ==
    /\ handler[r] \in StopReasons
    /\ Take
    /\ EndHandler(r)
    /\ Race(Mistakes(r))
    /\ left' = (left \/ retryPending)
    /\ UNCHANGED <<sessionVars, agentVars, promptVars, taskVars, abortVars, manual, stopped,
                   retries>>

(* An answer, or an aborted run, is not retried.                           *)
Finish(r) ==
    /\ handler[r] \in StopReasons
    /\ Taken(r).stopReason # "error"
    /\ Take
    /\ EndHandler(r)
    /\ retryPending' = FALSE
    /\ Race(Mistakes(r) \/ Resolves(r))
    /\ UNCHANGED <<promptGeneration, inFlight, retryAttempt, controller, agentVars, promptVars,
                   taskVars, abortVars, manual, stopped, retries, left>>

(* Mutant of Decide: one attempt too many.                                 *)
DecideOneMore(r) ==
    /\ handler[r] \in StopReasons
    /\ Taken(r).stopReason = "error"
    /\ Take
    /\ handledAt' = [handledAt EXCEPT ![r] = promptGeneration]
    /\ retryPending' = TRUE
    /\ retryAttempt' = retryAttempt + 1
    /\ handler' = [handler EXCEPT ![r] = IF retryAttempt' > maxRetries + 1 THEN "exhausted" ELSE "deciding"]
    /\ Race(Mistakes(r) \/ Late(r))
    /\ UNCHANGED <<promptGeneration, inFlight, controller, agentVars, promptVars, woken,
                   taskVars, abortVars, manual, stopped, retries, left>>

(* #handleRetryableError up to its first await.  If abort() came while the *)
(* handler was waiting for the extensions, it reads the new generation.    *)
Decide(r) ==
    /\ handler[r] \in StopReasons
    /\ Taken(r).stopReason = "error"
    /\ Take
    /\ handledAt' = [handledAt EXCEPT ![r] = promptGeneration]
    /\ retryPending' = TRUE
    /\ retryAttempt' = retryAttempt + 1
    /\ handler' = [handler EXCEPT ![r] = IF retryAttempt' > maxRetries THEN "exhausted" ELSE "deciding"]
    /\ Race(Mistakes(r) \/ Late(r))
    /\ UNCHANGED <<promptGeneration, inFlight, controller, agentVars, promptVars, woken,
                   taskVars, abortVars, manual, stopped, retries, left>>

(* Mutant of GiveUp: the promise is not resolved.                          *)
GiveUpUnresolved(r) ==
    /\ handler[r] \in {"exhausted", "cancelled"}
    /\ EndHandler(r)
    /\ UNCHANGED <<sessionVars, agentVars, messageVars, promptVars, taskVars, abortVars, manual,
                   historyVars>>

(* The error is final: after too many attempts, which are reset only once  *)
(* the extensions have been told, too long a wait or an aborted sleep.     *)
GiveUp(r) ==
    /\ handler[r] \in {"exhausted", "cancelled"}
    /\ EndHandler(r)
    /\ retryPending' = FALSE
    /\ retryAttempt' = IF handler[r] = "exhausted" THEN 0 ELSE retryAttempt
    /\ Race(Resolves(r) \/ (handler[r] = "exhausted" /\ Forgets(r)))
    /\ UNCHANGED <<promptGeneration, inFlight, controller, agentVars, messageVars, promptVars,
                   taskVars, abortVars, manual, stopped, retries, left>>

(* The provider asks for a longer wait than retry.maxDelayMs.              *)
FailFast(r) ==
    /\ handler[r] = "deciding"
    /\ retryAttempt' = 0
    /\ handler' = [handler EXCEPT ![r] = "cancelled"]
    /\ Race(Forgets(r))
    /\ UNCHANGED <<promptGeneration, inFlight, retryPending, controller, agentVars, messageVars,
                   promptVars, handledAt, woken, taskVars, abortVars, manual, stopped, retries,
                   left>>

(* Whatever answer is last is removed, and the handler sleeps; it wakes an *)
(* older one that still does.                                              *)
Sleep(r) ==
    /\ handler[r] = "deciding"
    /\ handler' = [handler EXCEPT ![r] = "sleeping"]
    /\ woken' = IF controller = 0 THEN woken ELSE woken \cup {controller}
    /\ controller' = r
    /\ last' = 0
    /\ UNCHANGED <<promptGeneration, inFlight, retryAttempt, retryPending, streaming, stopping,
                   origin, startedAt, runs, messageVars, promptVars, handledAt, taskVars,
                   abortVars, manual, historyVars>>

(* The end of the sleep, and #scheduleAgentContinue.                       *)
WakeUp(r) ==
    /\ handler[r] = "sleeping"
    /\ r \notin woken
    /\ EndHandler(r)
    /\ controller' = IF controller = r THEN 0 ELSE controller
    /\ task' = [task EXCEPT ![r] = "delay"]
    /\ UNCHANGED <<promptGeneration, inFlight, retryAttempt, retryPending, agentVars,
                   messageVars, promptVars, taskAborted, abortVars, manual, historyVars>>

(* The sleep was aborted by abort(), or superseded by a younger handler;   *)
(* in that case the caller of the handler resolves the promise, which is   *)
(* the younger one's.                                                      *)
Awakened(r) ==
    /\ handler[r] = "sleeping"
    /\ r \in woken
    /\ IF controller = r
       THEN /\ handler' = [handler EXCEPT ![r] = "cancelled"]
            /\ retryAttempt' = 0
            /\ controller' = 0
            /\ Race(Forgets(r))
            /\ UNCHANGED <<handledAt, woken, retryPending>>
       ELSE /\ EndHandler(r)
            /\ retryPending' = FALSE   \* #resolveRetry
            /\ Race(Resolves(r))
            /\ UNCHANGED <<retryAttempt, controller>>
    /\ UNCHANGED <<promptGeneration, inFlight, agentVars, messageVars, promptVars, taskVars,
                   abortVars, manual, stopped, retries, left>>

(***************************************************************************)
(* Post-prompt tasks: the continuation of a run that is tried again.       *)
(***************************************************************************)
Skipped(r) ==
    \/ r \in taskAborted
    \/ handledAt[r] # Any /\ handledAt[r] # promptGeneration

SkipTask(r) ==
    /\ task[r] = "delay"
    /\ Skipped(r)
    /\ task' = [task EXCEPT ![r] = "done"]
    /\ UNCHANGED <<sessionVars, agentVars, messageVars, promptVars, handlerVars, taskAborted,
                   abortVars, manual, historyVars>>

(* The task begins, and awaits the key of the primary model.               *)
BeginTask(r) ==
    /\ task[r] = "delay"
    /\ ~Skipped(r)
    /\ task' = [task EXCEPT ![r] = "restoring"]
    /\ UNCHANGED <<sessionVars, agentVars, messageVars, promptVars, handlerVars, taskAborted,
                   abortVars, manual, historyVars>>

(* agent.continue(): it throws while the Agent is busy, and after an       *)
(* answer; the error is logged.                                            *)
Refuse(r) ==
    /\ task[r] = "restoring"
    /\ streaming # 0 \/ last # 0
    /\ task' = [task EXCEPT ![r] = "done"]
    /\ UNCHANGED <<sessionVars, agentVars, messageVars, promptVars, handlerVars, taskAborted,
                   abortVars, manual, historyVars>>

Continue(r) ==
    /\ task[r] = "restoring"
    /\ streaming = 0
    /\ last = 0
    /\ LET p == IF handledAt[r] = Any THEN 0 ELSE origin[r]
       IN  /\ BeginRun(p)
           /\ retries' = [retries EXCEPT ![p] = IF handledAt[r] = Any THEN 0 ELSE @ + 1]
    /\ task' = [task EXCEPT ![r] = "running"]
    /\ Race(Unheard(r))
    /\ UNCHANGED <<sessionVars, messageVars, promptVars, handlerVars, taskAborted, abortVars,
                   manual, stopped, left>>

(* retry(), by the user, of the last run.                                  *)
Retry ==
    /\ manual < MaxManual
    /\ ~isStreaming
    /\ ~retryPending
    /\ last \in Runs
    /\ task[last] = "none"
    /\ handler[last] = "done"
    /\ manual' = manual + 1
    /\ retryAttempt' = 0
    /\ handledAt' = [handledAt EXCEPT ![last] = Any]
    /\ task' = [task EXCEPT ![last] = "delay"]
    /\ last' = 0
    /\ stopped' = stopped \ {last}   \* the user wants this one
    /\ Race(Forgets(last))
    /\ UNCHANGED <<promptGeneration, inFlight, retryPending, controller, streaming, stopping,
                   origin, startedAt, runs, messageVars, promptVars, handler, woken,
                   taskAborted, abortVars, retries, left>>

(***************************************************************************)
(* abort()                                                                 *)
(***************************************************************************)
(* Mutant of Abort: the generation stays.                                  *)
AbortSameGeneration ==
    /\ abort = "none"
    /\ aborts < MaxAborts
    /\ aborts' = aborts + 1
    /\ woken' = IF controller = 0 THEN woken ELSE woken \cup {controller}
    /\ retryPending' = FALSE
    /\ taskAborted' = taskAborted \cup PendingTasks
    /\ draining' = PendingTasks
    /\ stopping' = (streaming # 0)
    /\ abort' = "draining"
    /\ stopped' = stopped \cup Retrying \cup {r \in Runs : task[r] = "delay"}
    /\ UNCHANGED <<promptGeneration, inFlight, retryAttempt, controller, streaming, last,
                   origin, startedAt, runs, messageVars, promptVars, handler, handledAt, task,
                   manual, retries, races, left>>

(* abortRetry, a new generation, the tasks, the run: in one step.          *)
Abort ==
    /\ abort = "none"
    /\ aborts < MaxAborts
    /\ aborts' = aborts + 1
    /\ woken' = IF controller = 0 THEN woken ELSE woken \cup {controller}
    /\ retryPending' = FALSE
    /\ promptGeneration' = promptGeneration + 1
    /\ taskAborted' = taskAborted \cup PendingTasks
    /\ draining' = PendingTasks
    /\ stopping' = (streaming # 0)
    /\ abort' = "draining"
    /\ stopped' = stopped \cup Retrying \cup {r \in Runs : task[r] = "delay"}
    /\ UNCHANGED <<inFlight, retryAttempt, controller, streaming, last, origin, startedAt, runs,
                   messageVars, promptVars, handler, handledAt, task, manual, retries, races,
                   left>>

Drained ==
    /\ abort = "draining"
    /\ draining \cap PendingTasks = {}
    /\ abort' = "idling"
    /\ draining' = {streaming} \ {0}
    /\ UNCHANGED <<sessionVars, agentVars, messageVars, promptVars, handlerVars, taskVars,
                   aborts, manual, historyVars>>

(* The run that was awaited is over; the count of prompts is reset, also if *)
(* one has yet to unwind.                                                  *)
EndAbort ==
    /\ abort = "idling"
    /\ streaming \notin draining
    /\ abort' = "none"
    /\ draining' = {}
    /\ inFlight' = 0
    /\ Race(LivePrompts # {})
    /\ UNCHANGED <<promptGeneration, retryAttempt, retryPending, controller, agentVars,
                   messageVars, promptVars, handlerVars, taskVars, aborts, manual, stopped,
                   retries, left>>

HandlerStep(r) ==
    Leave(r) \/ Finish(r) \/ Decide(r) \/ GiveUp(r) \/ FailFast(r) \/ Sleep(r) \/ WakeUp(r) \/ Awakened(r)

TaskStep(r) == SkipTask(r) \/ BeginTask(r) \/ Refuse(r) \/ Continue(r)

PromptStep(p) == BailOut(p) \/ Queue(p) \/ TimeOut(p) \/ StartPrompt(p) \/ Return(p)

AbortStep == Drained \/ EndAbort

Next ==
    \/ \E p \in Prompts : Prompt(p) \/ PromptStep(p)
    \/ Answer
    \/ EndRun
    \/ \E r \in Runs : EndCount(r) \/ HandlerStep(r) \/ TaskStep(r)
    \/ Retry
    \/ Abort
    \/ AbortStep

(* Promises settle, timers fire and runs end; nobody has to call.          *)
Spec ==
    /\ Init
    /\ [][Next]_vars
    /\ WF_vars(EndRun) /\ WF_vars(AbortStep)
    /\ WF_vars(\E r \in Runs : EndCount(r))
    /\ \A r \in Runs : WF_vars(HandlerStep(r) \/ TaskStep(r))
    /\ \A p \in Prompts : WF_vars(PromptStep(p))

-----------------------------------------------------------------------------
SessionTypes ==
    /\ promptGeneration \in 0..MaxAborts
    /\ inFlight \in 0..MaxPrompts
    /\ retryAttempt \in Nat
    /\ controller \in {0} \cup Runs
    /\ controller # 0 => handler[controller] = "sleeping"

FlagTypes == retryPending \in BOOLEAN /\ stopping \in BOOLEAN

AgentTypes ==
    /\ streaming \in {0} \cup Runs
    /\ last \in {Answered, 0} \cup Runs
    /\ origin \in [Runs -> {0} \cup Prompts]
    /\ startedAt \in [Runs -> 0..MaxAborts]
    /\ runs \in 0..MaxRuns

MessageTypes ==
    /\ answers \in 0..MaxAnswers
    /\ lastAssistantMessage \in [run : {0} \cup Runs, stopReason : {"none"} \cup StopReasons]
    /\ resetting \subseteq Runs

PromptTypes ==
    /\ prompt \in [Prompts -> {"none", "setup", "queued", "running", "waiting", "returned"}]
    /\ promptedAt \in [Prompts -> 0..MaxAborts]

HandlerTypes ==
    /\ handler \in [Runs -> {"none", "deciding", "exhausted", "sleeping", "cancelled", "done"}
                                \cup StopReasons]
    /\ handledAt \in [Runs -> {Any} \cup (0..MaxAborts)]
    /\ woken \subseteq Runs

TaskTypes ==
    /\ task \in [Runs -> {"none", "delay", "restoring", "running", "done"}]
    /\ taskAborted \subseteq Runs

AbortTypes ==
    /\ abort \in {"none", "draining", "idling"}
    /\ draining \subseteq Runs
    /\ aborts \in 0..MaxAborts
    /\ manual \in 0..MaxManual

HistoryTypes ==
    /\ stopped \subseteq Runs
    /\ retries \in [{0} \cup Prompts -> 0..MaxRuns]
    /\ races \in {"won", "lost"}
    /\ left \in BOOLEAN

(* The types, and that a controller that is set belongs to a sleep.        *)
TypeOK ==
    /\ SessionTypes
    /\ FlagTypes
    /\ AgentTypes
    /\ MessageTypes
    /\ PromptTypes
    /\ HandlerTypes
    /\ TaskTypes
    /\ AbortTypes
    /\ HistoryTypes

(* What abort() finds under way does not come back: no handler that had    *)
(* begun a retry and no task that was scheduled starts another run.  (A    *)
(* task that is past its last check does: Unheard.)                      *)
AbortStopsRetries ==
    [][\A r \in stopped : ~Continue(r)]_vars

(* A prompt is tried again at most retry.maxRetries times in a row: it     *)
(* takes an answer, which may be one that calls tools, to begin anew.      *)
RetriesBounded ==
    races = "won" => \A p \in Prompts \cup {0} : retries[p] <= maxRetries

(* When prompt() has returned, nothing of it comes after: its runs, and    *)
(* the sleeps and tasks between them, are over (agent-session.ts:2060).    *)
ReturnedIsSettled ==
    races = "won" =>
        \A p \in Prompts : prompt[p] = "returned" =>
            \A r \in Runs : origin[r] = p =>
                /\ streaming # r
                /\ task[r] = "delay" => Skipped(r) \/ handledAt[r] = Any
                /\ task[r] \in {"restoring", "running"} => handledAt[r] = Any

(* A session with a prompt in it that was not aborted says so.             *)
PromptIsCounted ==
    races = "won" => (LivePrompts # {} => inFlight > 0)

(* The types, and a session that says it is busy while a prompt is in it.  *)
CountInv == TypeOK /\ PromptIsCounted

Inside == {p \in Prompts : prompt[p] \notin {"none", "returned"}}

(* Every prompt starts or gives up, and returns, and so does abort(): the  *)
(* promise of a retry is resolved in the end, whatever becomes of it, but  *)
(* for one that a handler has left behind and nobody resolves since (the   *)
(* bound on runs may stop a task).                                         *)
PromptReturns ==
    /\ Inside # {} ~> Inside = {} \/ (retryPending /\ left) \/ runs = MaxRuns
    /\ abort # "none" ~> abort = "none" \/ runs = MaxRuns

-----------------------------------------------------------------------------
(* What the comments say and the code does not do; see the README.         *)

(* A prompt that was not aborted outlives its retries                      *)
(* (agent-session.ts:2060).                                                *)
PromptCoversRetries ==
    \A p \in Prompts : prompt[p] = "returned" /\ promptedAt[p] = promptGeneration
                       => streaming = 0 \/ origin[streaming] # p

(* After abort() the run of an older prompt is stopped or being stopped.   *)
AbortIsFinal ==
    streaming # 0 /\ origin[streaming] # 0 /\ promptedAt[origin[streaming]] # promptGeneration
    => stopping

(* Every prompt begins with the attempts retry.maxRetries grants           *)
(* (agent-session.ts:7960, docs/non-compaction-retry-policy.md:64).        *)
FreshBudget ==
    [][\A p \in Prompts : races = "won" /\ StartPrompt(p) => retryAttempt = 0]_vars
=============================================================================
