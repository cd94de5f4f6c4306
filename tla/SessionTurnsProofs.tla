------------------------- MODULE SessionTurnsProofs -------------------------
(* Proofs about SessionTurns, for any bounds and any retry.maxRetries.     *)
EXTENDS SessionTurns, FiniteSetTheorems, TLAPS

(***************************************************************************)
(* The strengthening.                                                      *)
(***************************************************************************)

(* A run that has not begun has no handler, the run the Agent is in has    *)
(* none yet, and what has a task is done with its handler.                 *)
RunsInOrder ==
    /\ \A r \in Runs : r > runs => handler[r] = "none"
    /\ streaming # 0 => streaming <= runs /\ handler[streaming] = "none"
    /\ \A r \in Runs : task[r] # "none" => handler[r] = "done"
    /\ \A p \in {0} \cup Prompts : retries[p] <= runs

(* The count is below the prompts that have been called.                   *)
CountBounded == \A p \in Prompts : prompt[p] = "none" => inFlight < p

(* What has read the generation has not read a later one; only the user's  *)
(* retry(), of a run that is over, reads none.                             *)
Generations ==
    /\ promptGeneration = aborts
    /\ \A p \in Prompts : promptedAt[p] <= promptGeneration
    /\ \A r \in Runs : startedAt[r] <= promptGeneration
    /\ \A r \in Runs : handledAt[r] <= promptGeneration
    /\ \A r \in Runs : handledAt[r] = Any => handler[r] = "done"

(* The error that is tracked is the one its run has ended with.            *)
Tracked ==
    \A r \in Runs : lastAssistantMessage = [run |-> r, stopReason |-> "error"]
                    => handler[r] \notin {"none", "ok", "aborted"}

(* What abort() has found is past its decision and does not begin, and its *)
(* task has been aborted or will find that the generation has changed.     *)
StoppedStay ==
    \A r \in stopped :
        /\ handler[r] \notin {"none"} \cup StopReasons
        /\ task[r] # "restoring"
        /\ r \in taskAborted \/ (handledAt[r] # Any /\ handledAt[r] < promptGeneration)

(* Each prompt that is neither over nor aborted has its place in the count. *)
Counted == races = "won" => inFlight >= Cardinality(LivePrompts)

(* A prompt that has not begun has no run.                                 *)
NotBegun ==
    \A p \in Prompts : prompt[p] \in {"none", "setup", "queued"} =>
        retries[p] = 0 /\ \A r \in Runs : origin[r] # p

(* What a prompt has been granted: the continuations it has had and those  *)
(* it will have.                                                           *)
Mine(p) == {r \in Scheduled : origin[r] = p}
Granted(p) == retries[p] + Cardinality(Mine(p))

(* While anything of a prompt may be tried again, the attempts count what  *)
(* it has been granted.                                                    *)
Budget ==
    races = "won" => \A p \in {0} \cup Prompts :
        /\ Granted(p) <= maxRetries
        /\ \A u \in Scheduled \cup Undecided : origin[u] = p => Granted(p) <= retryAttempt

(* A handler that retries has a promise to resolve, or has been aborted.   *)
Promised == races = "won" => \A r \in Retrying : retryPending \/ handledAt[r] < promptGeneration

(* What is left of a prompt that has returned has been aborted, or is the  *)
(* user's own retry().                                                     *)
Past ==
    races = "won" => \A r \in Runs : origin[r] # 0 /\ prompt[origin[r]] = "returned" =>
        /\ streaming # r
        /\ task[r] \in {"none", "done"} \/ handledAt[r] = Any \/ (task[r] = "delay" /\ Skipped(r))
        /\ handler[r] = "error" => startedAt[r] < promptGeneration
        /\ r \in Retrying => handledAt[r] < promptGeneration

Shape == TypeOK /\ RunsInOrder /\ CountBounded /\ Generations /\ Tracked

Attempts == NotBegun /\ Budget

Leftovers == Promised /\ Past

IInv == Shape /\ StoppedStay /\ Counted /\ Attempts /\ Leftovers
-----------------------------------------------------------------------------
LEMMA Bounds ==
    /\ MaxPrompts \in Nat /\ MaxRuns \in Nat
    /\ MaxAborts \in Nat /\ MaxManual \in Nat /\ MaxAnswers \in Nat /\ maxRetries \in Nat
BY TurnsAssumption

(* What the steps of a message leave alone.                                *)
LEMMA MessageKeeps ==
    ASSUME Answer \/ \E r \in Runs : EndCount(r)
    PROVE  UNCHANGED <<promptGeneration, inFlight, retryPending, controller, streaming, stopping,
                       last, origin, startedAt, runs, prompt, promptedAt, handler, handledAt, woken,
                       task, taskAborted, abort, draining, aborts, manual, stopped, left>>
BY DEF Answer, EndCount, sessionVars, agentVars, promptVars, handlerVars, taskVars, abortVars

(* What the steps of a prompt other than its run leave alone.              *)
LEMMA PromptKeeps ==
    ASSUME NEW p \in Prompts, Prompt(p) \/ BailOut(p) \/ Queue(p) \/ TimeOut(p) \/ Return(p)
    PROVE  UNCHANGED <<promptGeneration, retryAttempt, retryPending, controller, streaming, stopping,
                       last, origin, startedAt, runs, answers, lastAssistantMessage, resetting,
                       handler, handledAt, woken, task, taskAborted, abort, draining, aborts, manual,
                       stopped, retries, left>>
BY DEF Prompt, BailOut, Queue, TimeOut, Return, sessionVars, agentVars, messageVars, handlerVars,
   taskVars, abortVars, historyVars

(* What the handler that leaves does.                                      *)
LEMMA LeaveDoes ==
    ASSUME NEW r \in Runs, Leave(r)
    PROVE  /\ handler[r] \in StopReasons
           /\ handler' = [handler EXCEPT ![r] = "done"]
           /\ UNCHANGED <<promptGeneration, inFlight, retryAttempt, retryPending, controller, streaming,
                          stopping, last, origin, startedAt, runs, prompt, promptedAt, handledAt, woken,
                          task, taskAborted, abort, draining, aborts, manual, stopped, retries>>
<1>1. handler[r] \in StopReasons /\ EndHandler(r)
  BY ZenonT(60) DEF Leave
<1>2. UNCHANGED <<sessionVars, agentVars, promptVars, taskVars, abortVars, manual, stopped, retries>>
  BY ZenonT(60) DEF Leave
<1>3. QED
  BY <1>1, <1>2 DEF EndHandler, sessionVars, agentVars, promptVars, taskVars, abortVars

(* A message leaves the continuations of a prompt, or ends the count.      *)
LEMMA MessageCounts ==
    ASSUME Shape, NEW o, EndMessage(o), streaming # 0
    PROVE  /\ retries' \in [{0} \cup Prompts -> 0..MaxRuns]
           /\ \A p \in {0} \cup Prompts : retries'[p] \in {0, retries[p]}
<1>1. retries \in [{0} \cup Prompts -> 0..MaxRuns] /\ origin[streaming] \in {0} \cup Prompts
  BY DEF Shape, TypeOK, AgentTypes, HistoryTypes
<1>2. CASE o = "ok"
  <2>1. retries' = [retries EXCEPT ![origin[streaming]] = 0]
    BY <1>2 DEF EndMessage
  <2>2. QED BY <1>1, <2>1, Bounds
<1>3. CASE o # "ok"
  BY <1>1, <1>3 DEF EndMessage
<1>4. QED BY <1>2, <1>3

(* The session is idle, and nothing has run.                               *)
LEMMA ShapeInit == Init => Shape
<1> SUFFICES ASSUME Init PROVE Shape
  OBVIOUS
<1> USE Bounds DEF Init, Runs, Prompts, Any
<1>1. SessionTypes /\ FlagTypes
  <2>1. SessionTypes
    BY DEF SessionTypes
  <2>2. FlagTypes
    BY DEF FlagTypes
  <2>3. QED BY <2>1, <2>2
<1>2. AgentTypes /\ MessageTypes /\ PromptTypes
  BY DEF AgentTypes, MessageTypes, PromptTypes, Answered, NoMessage
<1>3. HandlerTypes /\ TaskTypes
  BY DEF HandlerTypes, TaskTypes
<1>4. AbortTypes /\ HistoryTypes
  <2>1. AbortTypes
    BY DEF AbortTypes
  <2>2. left \in BOOLEAN
    BY ZenonT(30)
  <2>3. HistoryTypes
    BY <2>2 DEF HistoryTypes
  <2>4. QED BY <2>1, <2>3
<1>5. RunsInOrder /\ CountBounded /\ Generations
  BY DEF RunsInOrder, CountBounded, Generations
<1>6. Tracked
  BY DEF Tracked, NoMessage
<1>7. QED BY <1>1, <1>2, <1>3, <1>4, <1>5, <1>6 DEF Shape, TypeOK

(* The types of the fields of the session.                                 *)
LEMMA SessionTypesStep == Shape /\ [Next]_vars => SessionTypes'
<1> SUFFICES ASSUME Shape, [Next]_vars PROVE SessionTypes'
  OBVIOUS
<1> USE Bounds DEF Shape, TypeOK, SessionTypes, HandlerTypes, PromptTypes,
        RunsInOrder, CountBounded, Generations, Runs, Prompts, Any,
        sessionVars, agentVars, promptVars, messageVars, handlerVars, taskVars, abortVars,
        historyVars
<1>1. ASSUME NEW p \in Prompts, Prompt(p) PROVE SessionTypes'
  BY <1>1 DEF Prompt
<1>2. ASSUME NEW p \in Prompts, BailOut(p) \/ TimeOut(p) PROVE SessionTypes'
  BY <1>2 DEF BailOut, TimeOut, EndInFlight
<1>3. ASSUME NEW p \in Prompts, Return(p) PROVE SessionTypes'
  BY <1>3 DEF Return, EndInFlight
<1>4. CASE EndRun
  BY <1>4 DEF EndRun
<1>5. ASSUME NEW r \in Runs, Finish(r) \/ Leave(r) PROVE SessionTypes'
  <2>1. UNCHANGED <<controller, retryAttempt, promptGeneration, inFlight>>
    BY <1>5 DEF Finish, Leave
  <2>2. handler[r] \in StopReasons /\ handler' = [handler EXCEPT ![r] = "done"]
    BY <1>5 DEF Finish, Leave, EndHandler
  <2>3. QED BY <2>1, <2>2 DEF StopReasons
<1>6. ASSUME NEW r \in Runs, Decide(r) PROVE SessionTypes'
  <2>1. retryAttempt' = retryAttempt + 1 /\ UNCHANGED <<controller, promptGeneration, inFlight>>
    BY <1>6 DEF Decide
  <2>2. handler[r] \in StopReasons /\ \E h : handler' = [handler EXCEPT ![r] = h]
    BY <1>6 DEF Decide
  <2>3. QED BY <2>1, <2>2 DEF StopReasons
<1>7. ASSUME NEW r \in Runs, GiveUp(r) PROVE SessionTypes'
  BY <1>7 DEF GiveUp, EndHandler
<1>8. ASSUME NEW r \in Runs, FailFast(r) PROVE SessionTypes'
  BY <1>8 DEF FailFast
<1>9. ASSUME NEW r \in Runs, Sleep(r) PROVE SessionTypes'
  BY <1>9 DEF Sleep
<1>10. ASSUME NEW r \in Runs, WakeUp(r) PROVE SessionTypes'
  BY <1>10 DEF WakeUp, EndHandler
<1>11. ASSUME NEW r \in Runs, Awakened(r) PROVE SessionTypes'
  <2>1. CASE controller = r
    BY <1>11, <2>1 DEF Awakened
  <2>2. CASE controller # r
    <3>1. controller' = controller 
          /\ UNCHANGED <<promptGeneration, inFlight, retryAttempt>>
      BY <1>11, <2>2 DEF Awakened
    <3>2. handler' = [handler EXCEPT ![r] = "done"]
      BY <1>11, <2>2 DEF Awakened, EndHandler
    <3>3. QED BY <2>2, <3>1, <3>2
  <2>3. QED BY <2>1, <2>2
<1>12. CASE Retry
  BY <1>12 DEF Retry
<1>13. CASE Abort
  <2>1. promptGeneration' = promptGeneration + 1 /\ aborts < MaxAborts
        /\ UNCHANGED <<inFlight, retryAttempt, controller, handler>>
    BY <1>13 DEF Abort
  <2>2. QED BY <2>1
<1>14. CASE EndAbort
  BY <1>14 DEF EndAbort
<1>15. ASSUME NEW p \in Prompts, StartPrompt(p) \/ Queue(p) PROVE SessionTypes'
  BY <1>15 DEF StartPrompt, BeginRun, Queue
<1>16. ASSUME NEW r \in Runs, SkipTask(r) \/ BeginTask(r) \/ Refuse(r) \/ Continue(r)
       PROVE SessionTypes'
  <2>1. UNCHANGED <<promptGeneration, inFlight, retryAttempt, controller, handler>>
    BY <1>16 DEF SkipTask, BeginTask, Skipped, Refuse, Continue, BeginRun
  <2>2. QED BY <2>1
<1>17. CASE Drained
  BY <1>17 DEF Drained
<1>18. CASE UNCHANGED vars
  BY <1>18 DEF vars
<1>19. CASE Answer \/ \E r \in Runs : EndCount(r)
  <2>1. retryAttempt' \in {0, retryAttempt}
    BY <1>19 DEF Answer, EndCount
  <2>2. QED BY <1>19, <2>1, MessageKeeps
<1>20. QED
  BY <1>1, <1>2, <1>3, <1>4, <1>5, <1>6, <1>7, <1>8, <1>9, <1>10, <1>11, <1>12,
       <1>13, <1>14, <1>15, <1>16, <1>17, <1>18, <1>19 DEF Next, HandlerStep,
       TaskStep, PromptStep, AbortStep

(* The flags.                                                              *)
LEMMA FlagTypesStep == TypeOK /\ [Next]_vars => FlagTypes'
<1> SUFFICES ASSUME TypeOK, [Next]_vars PROVE FlagTypes'
  OBVIOUS
<1> USE Bounds DEF TypeOK, FlagTypes, sessionVars, agentVars, promptVars, messageVars,
        handlerVars, taskVars, abortVars, historyVars
<1>1. ASSUME NEW p \in Prompts, StartPrompt(p) PROVE FlagTypes'
  BY <1>1 DEF StartPrompt, BeginRun
<1>2. ASSUME NEW p \in Prompts, Return(p) PROVE FlagTypes'
  BY <1>2 DEF Return, EndInFlight
<1>3. CASE EndRun
  BY <1>3 DEF EndRun
<1>4. ASSUME NEW r \in Runs, Finish(r) \/ Leave(r) PROVE FlagTypes'
  BY <1>4 DEF Finish, Leave, EndHandler
<1>5. ASSUME NEW r \in Runs, Decide(r) PROVE FlagTypes'
  BY <1>5 DEF Decide
<1>6. ASSUME NEW r \in Runs, GiveUp(r) PROVE FlagTypes'
  BY <1>6 DEF GiveUp, EndHandler
<1>7. ASSUME NEW r \in Runs, Awakened(r) PROVE FlagTypes'
  BY <1>7 DEF Awakened, EndHandler
<1>8. ASSUME NEW r \in Runs, Continue(r) PROVE FlagTypes'
  BY <1>8 DEF Continue, BeginRun
<1>9. CASE Abort
  BY <1>9 DEF Abort, Retrying, PendingTasks
<1>10. ASSUME NEW p \in Prompts, Prompt(p) \/ BailOut(p) \/ Queue(p) \/ TimeOut(p) PROVE FlagTypes'
  <2>1. UNCHANGED <<retryPending, stopping>>
    BY <1>10, PromptKeeps
  <2>2. QED BY <2>1
<1>11. ASSUME NEW r \in Runs, FailFast(r) \/ Sleep(r) \/ WakeUp(r) \/ SkipTask(r) \/
              BeginTask(r) \/ Refuse(r)
       PROVE FlagTypes'
  <2>1. UNCHANGED <<retryPending, stopping>>
    BY <1>11 DEF FailFast, Sleep, WakeUp, EndHandler, SkipTask,
         BeginTask, Skipped, Refuse
  <2>2. QED BY <2>1
<1>12. CASE Retry \/ Drained \/ EndAbort
  <2>1. UNCHANGED <<retryPending, stopping>>
    BY <1>12 DEF Retry, Drained, EndAbort
  <2>2. QED BY <2>1
<1>13. CASE UNCHANGED vars
  BY <1>13 DEF vars
<1>14. CASE Answer \/ \E r \in Runs : EndCount(r)
  BY <1>14, MessageKeeps
<1>15. QED
  BY <1>1, <1>2, <1>3, <1>4, <1>5, <1>6, <1>7, <1>8, <1>9, <1>10, <1>11, <1>12,
       <1>13, <1>14 DEF Next, HandlerStep, TaskStep, PromptStep, AbortStep

(* The types of what the Agent keeps.                                      *)
LEMMA AgentTypesStep == Shape /\ [Next]_vars => AgentTypes'
<1> SUFFICES ASSUME Shape, [Next]_vars PROVE AgentTypes'
  OBVIOUS
<1> USE Bounds DEF Shape, TypeOK, SessionTypes, AgentTypes, Runs, Prompts, Any,
        sessionVars, agentVars, promptVars, messageVars, handlerVars, taskVars, abortVars,
        historyVars
<1>1. ASSUME NEW p \in Prompts, StartPrompt(p) PROVE AgentTypes'
  <2>1. runs < MaxRuns /\ runs' = runs + 1 /\ streaming' = runs + 1 /\ last' = 0
    BY <1>1 DEF StartPrompt, BeginRun
  <2>2. /\ origin' = [origin EXCEPT ![runs + 1] = p]
        /\ startedAt' = [startedAt EXCEPT ![runs + 1] = promptGeneration]
    BY <1>1, <2>1 DEF StartPrompt, BeginRun
  <2>3. runs + 1 \in Runs
    BY <2>1
  <2>4. QED BY <2>1, <2>2, <2>3
<1>2. CASE EndRun
  BY <1>2 DEF EndRun, Answered
<1>3. ASSUME NEW r \in Runs, Sleep(r) PROVE AgentTypes'
  BY <1>3 DEF Sleep
<1>4. ASSUME NEW r \in Runs, Continue(r) PROVE AgentTypes'
  <2>1. runs < MaxRuns /\ runs' = runs + 1 /\ streaming' = runs + 1 /\ last' = 0
    BY <1>4 DEF Continue, BeginRun
  <2>2. /\ origin' = [origin EXCEPT ![runs + 1] = IF handledAt[r] = Any THEN 0 ELSE origin[r]]
        /\ startedAt' = [startedAt EXCEPT ![runs + 1] = promptGeneration]
    BY <1>4, <2>1 DEF Continue, BeginRun
  <2>3. runs + 1 \in Runs
    BY <2>1
  <2>4. QED BY <2>1, <2>2, <2>3
<1>5. CASE Retry
  BY <1>5 DEF Retry
<1>6. CASE Abort
  BY <1>6 DEF Abort, Retrying, PendingTasks
<1>7. ASSUME NEW p \in Prompts, Prompt(p) \/ BailOut(p) \/ Queue(p) \/ TimeOut(p) \/ Return(p)
      PROVE AgentTypes'
  <2>1. UNCHANGED <<streaming, last, origin, startedAt, runs>>
    BY <1>7, PromptKeeps
  <2>2. QED BY <2>1
<1>8. ASSUME NEW r \in Runs, Leave(r) \/ Finish(r) \/ Decide(r) \/ GiveUp(r) \/ FailFast(r) \/
             WakeUp(r) \/ Awakened(r) \/ SkipTask(r)
      PROVE AgentTypes'
  <2>1. UNCHANGED <<streaming, last, origin, startedAt, runs>>
    BY <1>8 DEF Leave, Finish, EndHandler, Decide, GiveUp,
         FailFast, WakeUp, Awakened, SkipTask
  <2>2. QED BY <2>1
<1>9. ASSUME NEW r \in Runs, BeginTask(r) \/ Refuse(r) PROVE AgentTypes'
  <2>1. UNCHANGED <<streaming, last, origin, startedAt, runs>>
    BY <1>9 DEF BeginTask, Skipped, Refuse
  <2>2. QED BY <2>1
<1>10. CASE Drained \/ EndAbort
  <2>1. UNCHANGED <<streaming, last, origin, startedAt, runs>>
    BY <1>10 DEF Drained, EndAbort
  <2>2. QED BY <2>1
<1>11. CASE UNCHANGED vars
  BY <1>11 DEF vars
<1>12. CASE Answer \/ \E r \in Runs : EndCount(r)
  BY <1>12, MessageKeeps
<1>13. QED
  BY <1>1, <1>2, <1>3, <1>4, <1>5, <1>6, <1>7, <1>8, <1>9, <1>10, <1>11, <1>12 DEF
       Next, HandlerStep, TaskStep, PromptStep, AbortStep

(* The types of the prompts.                                               *)
LEMMA PromptTypesStep == TypeOK /\ [Next]_vars => PromptTypes'
<1> SUFFICES ASSUME TypeOK, [Next]_vars PROVE PromptTypes'
  OBVIOUS
<1> USE Bounds DEF TypeOK, SessionTypes, PromptTypes, Runs, Prompts, Any,
        sessionVars, agentVars, promptVars, messageVars, handlerVars, taskVars, abortVars,
        historyVars
<1>1. ASSUME NEW p \in Prompts, Prompt(p) PROVE PromptTypes'
  BY <1>1 DEF Prompt
<1>2. CASE EndRun
  BY <1>2 DEF EndRun
<1>3. ASSUME NEW p \in Prompts, BailOut(p) \/ Queue(p) \/ TimeOut(p) \/ StartPrompt(p) \/ Return(p)
      PROVE PromptTypes'
  BY <1>3 DEF BailOut, Queue, TimeOut, EndInFlight, StartPrompt, BeginRun, Return
<1>4. ASSUME NEW r \in Runs, Leave(r) \/ Finish(r) \/ Decide(r) \/ GiveUp(r) \/ FailFast(r) \/
             Sleep(r) \/ WakeUp(r) \/ Awakened(r)
      PROVE PromptTypes'
  BY <1>4 DEF Leave, Finish, EndHandler, Decide, GiveUp,
       FailFast, Sleep, WakeUp, Awakened
<1>5. ASSUME NEW r \in Runs, SkipTask(r) \/ BeginTask(r) \/ Refuse(r) \/ Continue(r)
      PROVE PromptTypes'
  BY <1>5 DEF SkipTask, BeginTask, Skipped, Refuse, Continue, BeginRun
<1>6. CASE Retry \/ Abort \/ Drained \/ EndAbort
  BY <1>6 DEF Retry, Abort, Retrying, PendingTasks, Drained, EndAbort
<1>7. CASE UNCHANGED vars
  BY <1>7 DEF vars
<1>8. CASE Answer \/ \E r \in Runs : EndCount(r)
  BY <1>8, MessageKeeps
<1>9. QED
  BY <1>1, <1>2, <1>3, <1>4, <1>5, <1>6, <1>7, <1>8 DEF Next, HandlerStep, TaskStep,
       PromptStep, AbortStep

(* The types of the handlers.                                              *)
LEMMA HandlerTypesStep == TypeOK /\ [Next]_vars => HandlerTypes'
<1> SUFFICES ASSUME TypeOK, [Next]_vars PROVE HandlerTypes'
  OBVIOUS
<1> USE Bounds DEF TypeOK, SessionTypes, AgentTypes, HandlerTypes, Runs,
        Prompts, Any, sessionVars, agentVars, promptVars, messageVars, handlerVars,
        taskVars, abortVars, historyVars
<1>1. CASE EndRun
  <2>1. PICK o \in StopReasons : handler' = [handler EXCEPT ![streaming] = o]
    BY <1>1 DEF EndRun, StopReasons
  <2>2. streaming \in Runs /\ UNCHANGED <<handledAt, woken>>
    BY <1>1 DEF EndRun
  <2>3. QED BY <2>1, <2>2
<1>2. ASSUME NEW r \in Runs, Decide(r) PROVE HandlerTypes'
  BY <1>2 DEF Decide
<1>3. ASSUME NEW r \in Runs, FailFast(r) PROVE HandlerTypes'
  BY <1>3 DEF FailFast
<1>4. ASSUME NEW r \in Runs, Sleep(r) PROVE HandlerTypes'
  BY <1>4 DEF Sleep
<1>5. ASSUME NEW r \in Runs, Awakened(r) PROVE HandlerTypes'
  BY <1>5 DEF Awakened, EndHandler
<1>6. ASSUME NEW r \in Runs, GiveUp(r) PROVE HandlerTypes'
  BY <1>6 DEF GiveUp, EndHandler
<1>7. CASE Retry
  BY <1>7 DEF Retry
<1>8. CASE Abort
  BY <1>8 DEF Abort, Retrying, PendingTasks
<1>9. ASSUME NEW p \in Prompts, Prompt(p) \/ BailOut(p) \/ Queue(p) \/ TimeOut(p) \/ StartPrompt(p) \/ Return(p)
      PROVE HandlerTypes'
  BY <1>9, PromptKeeps DEF StartPrompt, BeginRun
<1>10. ASSUME NEW r \in Runs, Leave(r) \/ Finish(r) \/ WakeUp(r) \/ SkipTask(r) \/ BeginTask(r) \/
              Refuse(r) \/ Continue(r)
       PROVE HandlerTypes'
  BY <1>10 DEF Leave, Finish, EndHandler, WakeUp, SkipTask, BeginTask,
       Skipped, Refuse, Continue, BeginRun
<1>11. CASE Drained \/ EndAbort
  BY <1>11 DEF Drained, EndAbort
<1>12. CASE UNCHANGED vars
  BY <1>12 DEF vars
<1>13. CASE Answer \/ \E r \in Runs : EndCount(r)
  BY <1>13, MessageKeeps
<1>14. QED
  BY <1>1, <1>2, <1>3, <1>4, <1>5, <1>6, <1>7, <1>8, <1>9, <1>10, <1>11, <1>12,
     <1>13 DEF Next, HandlerStep, TaskStep, PromptStep, AbortStep

(* The types of the tasks.                                                 *)
LEMMA TaskTypesStep == TypeOK /\ [Next]_vars => TaskTypes'
<1> SUFFICES ASSUME TypeOK, [Next]_vars PROVE TaskTypes'
  OBVIOUS
<1> USE Bounds DEF TypeOK, AgentTypes, TaskTypes, Runs, Prompts, Any,
        sessionVars, agentVars, promptVars, messageVars, handlerVars, taskVars, abortVars,
        historyVars
<1>1. CASE EndRun
  BY <1>1 DEF EndRun
<1>2. ASSUME NEW r \in Runs, Continue(r) PROVE TaskTypes'
  BY <1>2 DEF Continue, BeginRun
<1>3. CASE Retry
  BY <1>3 DEF Retry
<1>4. CASE Abort
  BY <1>4 DEF Abort, Retrying, PendingTasks
<1>5. ASSUME NEW p \in Prompts, Prompt(p) \/ BailOut(p) \/ Queue(p) \/ TimeOut(p) \/ StartPrompt(p) \/ Return(p)
      PROVE TaskTypes'
  BY <1>5, PromptKeeps DEF StartPrompt, BeginRun
<1>6. ASSUME NEW r \in Runs, Leave(r) \/ Finish(r) \/ Decide(r) \/ GiveUp(r) \/ FailFast(r) \/
             Sleep(r) \/ WakeUp(r) \/ Awakened(r)
      PROVE TaskTypes'
  BY <1>6 DEF Leave, Finish, EndHandler, Decide, GiveUp,
       FailFast, Sleep, WakeUp, Awakened
<1>7. ASSUME NEW r \in Runs, SkipTask(r) \/ BeginTask(r) \/ Refuse(r) PROVE TaskTypes'
  BY <1>7 DEF SkipTask, BeginTask, Skipped, Refuse
<1>8. CASE Drained \/ EndAbort
  BY <1>8 DEF Drained, EndAbort
<1>9. CASE UNCHANGED vars
  BY <1>9 DEF vars
<1>10. CASE Answer \/ \E r \in Runs : EndCount(r)
  BY <1>10, MessageKeeps
<1>11. QED
  BY <1>1, <1>2, <1>3, <1>4, <1>5, <1>6, <1>7, <1>8, <1>9, <1>10 DEF Next,
       HandlerStep, TaskStep, PromptStep, AbortStep

(* The types of the state of abort().                                      *)
LEMMA AbortTypesStep == TypeOK /\ [Next]_vars => AbortTypes'
<1> SUFFICES ASSUME TypeOK, [Next]_vars PROVE AbortTypes'
  OBVIOUS
<1> USE Bounds DEF TypeOK, AgentTypes, TaskTypes, AbortTypes, Runs, Prompts,
        Any, sessionVars, agentVars, promptVars, messageVars, handlerVars, taskVars,
        abortVars, historyVars
<1>1. CASE Retry
  BY <1>1 DEF Retry
<1>2. CASE Abort
  BY <1>2 DEF Abort, Retrying, PendingTasks
<1>3. CASE Drained
  BY <1>3 DEF Drained
<1>4. CASE EndAbort
  BY <1>4 DEF EndAbort
<1>5. ASSUME NEW p \in Prompts, Prompt(p) \/ BailOut(p) \/ Queue(p) \/ TimeOut(p) \/ StartPrompt(p) \/ Return(p)
      PROVE AbortTypes'
  <2>1. UNCHANGED <<abortVars, manual>>
    BY <1>5, PromptKeeps DEF StartPrompt, BeginRun
  <2>2. QED BY <2>1
<1>6. ASSUME NEW r \in Runs, Leave(r) \/ Finish(r) \/ Decide(r) \/ GiveUp(r) \/ FailFast(r) \/
             Sleep(r) \/ WakeUp(r) \/ Awakened(r)
      PROVE AbortTypes'
  <2>1. UNCHANGED <<abortVars, manual>>
    BY <1>6 DEF Leave, Finish, EndHandler, Decide, GiveUp,
         FailFast, Sleep, WakeUp, Awakened
  <2>2. QED BY <2>1
<1>7. ASSUME NEW r \in Runs, SkipTask(r) \/ BeginTask(r) \/ Refuse(r) \/ Continue(r)
      PROVE AbortTypes'
  <2>1. UNCHANGED <<abortVars, manual>>
    BY <1>7 DEF SkipTask, BeginTask, Skipped, Refuse, Continue, BeginRun
  <2>2. QED BY <2>1
<1>8. CASE EndRun
  BY <1>8 DEF EndRun
<1>9. CASE UNCHANGED vars
  BY <1>9 DEF vars
<1>10. CASE Answer \/ \E r \in Runs : EndCount(r)
  BY <1>10, MessageKeeps
<1>11. QED
  BY <1>1, <1>2, <1>3, <1>4, <1>5, <1>6, <1>7, <1>8, <1>9, <1>10 DEF Next,
       HandlerStep, TaskStep, PromptStep, AbortStep

(* The types of what is kept of the messages.                              *)
LEMMA MessageTypesStep == TypeOK /\ [Next]_vars => MessageTypes'
<1> SUFFICES ASSUME TypeOK, [Next]_vars PROVE MessageTypes'
  OBVIOUS
<1> USE DEF MessageTypes
<1>a. answers \in 0..MaxAnswers /\ resetting \subseteq Runs /\ streaming \in {0} \cup Runs
  BY DEF TypeOK, AgentTypes
<1>1. ASSUME UNCHANGED messageVars PROVE MessageTypes'
  BY <1>1 DEF TypeOK, messageVars
<1>2. ASSUME NEW o \in StopReasons, EndMessage(o), streaming # 0, answers' \in 0..MaxAnswers
      PROVE  MessageTypes'
  BY <1>2, <1>a DEF EndMessage, TypeOK
<1>3. CASE Answer
  <2>1. answers' \in 0..MaxAnswers
    BY <1>3, <1>a, Bounds DEF Answer
  <2>2. QED BY <1>2, <1>3, <2>1 DEF Answer, StopReasons
<1>4. CASE EndRun
  BY <1>2, <1>4, <1>a DEF EndRun, StopReasons
<1>5. ASSUME NEW r \in Runs, EndCount(r) PROVE MessageTypes'
  BY <1>5 DEF EndCount, TypeOK
<1>6. ASSUME Take PROVE MessageTypes'
  BY <1>6, <1>a DEF Take, NoMessage, StopReasons
<1>7. ASSUME NEW r \in Runs, HandlerStep(r) PROVE Take \/ UNCHANGED messageVars
  BY <1>7 DEF HandlerStep, Leave, Finish, Decide, GiveUp, FailFast, Sleep, WakeUp, Awakened
<1>8. ASSUME NEW r \in Runs, TaskStep(r) PROVE UNCHANGED messageVars
  BY <1>8 DEF TaskStep, SkipTask, BeginTask, Refuse, Continue
<1>9. ASSUME NEW p \in Prompts, Prompt(p) \/ PromptStep(p) PROVE UNCHANGED messageVars
  BY <1>9 DEF PromptStep, Prompt, BailOut, Queue, TimeOut, StartPrompt, Return
<1>10. CASE Retry \/ Abort \/ AbortStep \/ UNCHANGED vars
  BY <1>1, <1>10 DEF Retry, Abort, AbortStep, Drained, EndAbort, vars
<1>11. QED
  BY <1>1, <1>3, <1>4, <1>5, <1>6, <1>7, <1>8, <1>9, <1>10 DEF Next

(* The types of the history.                                               *)
LEMMA HistoryTypesStep == Shape /\ [Next]_vars => HistoryTypes'
<1> SUFFICES ASSUME Shape, [Next]_vars PROVE HistoryTypes'
  OBVIOUS
<1>a. /\ runs \in 0..MaxRuns /\ retries \in [{0} \cup Prompts -> 0..MaxRuns]
      /\ \A p \in {0} \cup Prompts : retries[p] <= runs
      /\ streaming \in {0} \cup Runs /\ origin \in [Runs -> {0} \cup Prompts]
      /\ stopped \subseteq Runs /\ races \in {"won", "lost"} /\ left \in BOOLEAN
  BY DEF Shape, TypeOK, AgentTypes, HistoryTypes, RunsInOrder
<1>1. ASSUME UNCHANGED <<stopped, retries, left>>, races' \in {races, "lost"} PROVE HistoryTypes'
  BY <1>1, <1>a DEF HistoryTypes
<1>2. ASSUME NEW o \in StopReasons, EndMessage(o), streaming # 0, UNCHANGED <<stopped, races, left>>
      PROVE  HistoryTypes'
  <2>1. retries' \in [{0} \cup Prompts -> 0..MaxRuns]
    BY <1>2, MessageCounts
  <2>2. QED BY <1>2, <1>a, <2>1 DEF HistoryTypes
<1>3. CASE Answer
  BY <1>2, <1>3 DEF Answer, StopReasons
<1>4. CASE EndRun
  BY <1>2, <1>4 DEF EndRun, StopReasons
<1>5. ASSUME NEW r \in Runs, Leave(r) PROVE HistoryTypes'
  <2>1. left' \in BOOLEAN
    BY <1>5, ZenonT(60) DEF Leave
  <2>2. races' \in {races, "lost"} /\ UNCHANGED <<stopped, retries>>
    BY <1>5 DEF Leave, Race
  <2>3. QED BY <1>a, <2>1, <2>2 DEF HistoryTypes
<1>6. ASSUME NEW r \in Runs, HandlerStep(r), ~Leave(r)
      PROVE  UNCHANGED <<stopped, retries, left>> /\ races' \in {races, "lost"}
  <2>1. CASE Finish(r) \/ Decide(r) \/ GiveUp(r) \/ FailFast(r) \/ Awakened(r)
    BY <2>1 DEF Finish, Decide, GiveUp, FailFast, Awakened, Race
  <2>2. CASE Sleep(r) \/ WakeUp(r)
    BY <2>2 DEF Sleep, WakeUp, historyVars
  <2>3. QED BY <1>6, <2>1, <2>2 DEF HandlerStep
<1>7. ASSUME NEW r \in Runs, Continue(r) PROVE HistoryTypes'
  <2>1. runs < MaxRuns
    BY <1>7 DEF Continue, BeginRun
  <2>2. DEFINE p == IF handledAt[r] = Any THEN 0 ELSE origin[r]
  <2>3. p \in {0} \cup Prompts /\ \E n \in {0, retries[p] + 1} : retries' = [retries EXCEPT ![p] = n]
    BY <1>7, <1>a DEF Continue
  <2> HIDE DEF p
  <2>4. retries[p] + 1 \in 0..MaxRuns
    <3>1. retries[p] \in Nat /\ retries[p] <= runs /\ runs \in Nat
      BY <2>3, <1>a, Bounds
    <3>2. QED BY <2>1, <3>1, Bounds
  <2>5. retries' \in [{0} \cup Prompts -> 0..MaxRuns]
    BY <2>3, <2>4, <1>a, Bounds
  <2>6. races' \in {races, "lost"} /\ UNCHANGED <<stopped, left>>
    BY <1>7 DEF Continue, Race
  <2>7. QED BY <1>a, <2>5, <2>6 DEF HistoryTypes
<1>8. ASSUME NEW r \in Runs, SkipTask(r) \/ BeginTask(r) \/ Refuse(r) \/ EndCount(r)
      PROVE  UNCHANGED <<stopped, retries, left>> /\ races' \in {races, "lost"}
  BY <1>8 DEF SkipTask, BeginTask, Refuse, EndCount, Race, historyVars
<1>9. ASSUME NEW p \in Prompts, Prompt(p) \/ PromptStep(p)
      PROVE  UNCHANGED <<stopped, retries, left>> /\ races' \in {races, "lost"}
  <2>1. CASE BailOut(p) \/ TimeOut(p) \/ Return(p)
    BY <2>1 DEF BailOut, TimeOut, Return, Race
  <2>2. CASE Prompt(p) \/ Queue(p) \/ StartPrompt(p)
    BY <2>2 DEF Prompt, Queue, StartPrompt, historyVars
  <2>3. QED BY <1>9, <2>1, <2>2 DEF PromptStep
<1>10. CASE Retry \/ Abort
  <2>1. stopped' \subseteq Runs /\ UNCHANGED <<retries, left>>
    BY <1>10, <1>a DEF Retry, Abort, Retrying
  <2>2. races' \in {races, "lost"}
    BY <1>10 DEF Retry, Abort, Race
  <2>3. QED BY <1>a, <2>1, <2>2 DEF HistoryTypes
<1>11. CASE AbortStep \/ UNCHANGED vars
  <2>1. UNCHANGED <<stopped, retries, left>> /\ races' \in {races, "lost"}
    BY <1>11 DEF AbortStep, Drained, EndAbort, Race, vars, historyVars
  <2>2. QED BY <1>1, <2>1
<1>12. QED
  BY <1>1, <1>3, <1>4, <1>5, <1>6, <1>7, <1>8, <1>9, <1>10, <1>11 DEF Next, TaskStep

(* Runs, handlers and tasks come in this order.                            *)
LEMMA OrderStep == Shape /\ [Next]_vars => RunsInOrder'
<1> SUFFICES ASSUME Shape, [Next]_vars PROVE RunsInOrder'
  OBVIOUS
<1> USE Bounds DEF Shape, TypeOK, AgentTypes, HandlerTypes, TaskTypes,
        HistoryTypes, RunsInOrder, Runs, Prompts, Any, sessionVars, agentVars,
        promptVars, messageVars, handlerVars, taskVars, abortVars, historyVars
<1>a. ASSUME \A p \in {0} \cup Prompts : retries'[p] \in {0, retries[p]}
      PROVE  \A p \in {0} \cup Prompts : retries'[p] \in Int /\ retries'[p] <= runs
  <2> SUFFICES ASSUME NEW p \in {0} \cup Prompts PROVE retries'[p] \in Int /\ retries'[p] <= runs
    OBVIOUS
  <2>1. retries[p] \in Nat /\ retries[p] <= runs /\ runs \in Nat
    OBVIOUS
  <2>2. retries'[p] = 0 \/ retries'[p] = retries[p]
    BY <1>a
  <2>3. QED BY <2>1, <2>2
<1>1. ASSUME NEW p \in Prompts, StartPrompt(p) PROVE RunsInOrder'
  BY <1>1 DEF StartPrompt, BeginRun
<1>2. CASE EndRun
  <2>1. PICK o \in StopReasons : EndMessage(o) /\ handler' = [handler EXCEPT ![streaming] = o]
    BY <1>2 DEF EndRun, StopReasons
  <2>2. /\ streaming \in Runs /\ streaming' = 0 /\ UNCHANGED runs
        /\ \A r \in Runs : task'[r] # "none" => task[r] # "none"
    BY <1>2 DEF EndRun
  <2>3. \A p \in {0} \cup Prompts : retries'[p] \in {0, retries[p]}
    BY <1>2, <2>1, MessageCounts DEF EndRun
  <2>4. \A r \in Runs : r # streaming => handler'[r] = handler[r]
    BY <2>1
  <2>5. \A p \in {0} \cup Prompts : retries'[p] \in Int /\ retries'[p] <= runs
    BY <1>a, <2>3
  <2>6. QED BY <2>2, <2>4, <2>5
<1>3. ASSUME NEW r \in Runs, Finish(r) \/ Leave(r) PROVE RunsInOrder'
  <2>1. handler[r] \in StopReasons /\ handler' = [handler EXCEPT ![r] = "done"]
    BY <1>3 DEF Finish, Leave, EndHandler
  <2>2. UNCHANGED <<streaming, runs, task, retries>>
    BY <1>3 DEF Finish, Leave
  <2>3. QED BY <2>1, <2>2 DEF StopReasons
<1>4. ASSUME NEW r \in Runs, Decide(r) PROVE RunsInOrder'
  <2>1. handler[r] \in StopReasons /\ \E h : handler' = [handler EXCEPT ![r] = h]
    BY <1>4 DEF Decide
  <2>2. UNCHANGED <<streaming, runs, task, retries>>
    BY <1>4 DEF Decide
  <2>3. QED BY <2>1, <2>2 DEF StopReasons
<1>5. ASSUME NEW r \in Runs, GiveUp(r) PROVE RunsInOrder'
  BY <1>5 DEF GiveUp, EndHandler
<1>6. ASSUME NEW r \in Runs, FailFast(r) PROVE RunsInOrder'
  BY <1>6 DEF FailFast
<1>7. ASSUME NEW r \in Runs, Sleep(r) PROVE RunsInOrder'
  BY <1>7 DEF Sleep
<1>8. ASSUME NEW r \in Runs, WakeUp(r) PROVE RunsInOrder'
  BY <1>8 DEF WakeUp, EndHandler
<1>9. ASSUME NEW r \in Runs, Awakened(r) PROVE RunsInOrder'
  BY <1>9 DEF Awakened, EndHandler
<1>10. ASSUME NEW r \in Runs, SkipTask(r) PROVE RunsInOrder'
  BY <1>10 DEF SkipTask
<1>11. ASSUME NEW r \in Runs, BeginTask(r) PROVE RunsInOrder'
  BY <1>11 DEF BeginTask, Skipped
<1>12. ASSUME NEW r \in Runs, Refuse(r) PROVE RunsInOrder'
  BY <1>12 DEF Refuse
<1>13. ASSUME NEW r \in Runs, Continue(r) PROVE RunsInOrder'
  <2>1. runs < MaxRuns /\ runs' = runs + 1 /\ streaming' = runs + 1 /\ UNCHANGED handler
    BY <1>13 DEF Continue, BeginRun
  <2>2. PICK p \in {0} \cup Prompts :
             \E n \in {0, retries[p] + 1} : retries' = [retries EXCEPT ![p] = n]
    BY <1>13 DEF Continue
  <2>3. \A q \in {0} \cup Prompts : retries'[q] <= runs + 1
    BY <2>2
  <2>4. task[r] = "restoring" /\ task' = [task EXCEPT ![r] = "running"]
    BY <1>13 DEF Continue
  <2>5. QED BY <2>1, <2>3, <2>4
<1>14. CASE Retry
  BY <1>14 DEF Retry
<1>15. ASSUME NEW p \in Prompts, Prompt(p) \/ BailOut(p) \/ Queue(p) \/ TimeOut(p) \/ Return(p)
       PROVE RunsInOrder'
  <2>1. UNCHANGED <<handler, streaming, runs, task, retries>>
    BY <1>15, PromptKeeps
  <2>2. QED BY <2>1
<1>16. CASE Abort \/ Drained \/ EndAbort
  <2>1. UNCHANGED <<handler, streaming, runs, task, retries>>
    BY <1>16 DEF Abort, Retrying, PendingTasks, Drained, EndAbort
  <2>2. QED BY <2>1
<1>17. CASE UNCHANGED vars
  BY <1>17 DEF vars
<1>18. CASE Answer \/ \E r \in Runs : EndCount(r)
  <2>1. \A p \in {0} \cup Prompts : retries'[p] \in {0, retries[p]}
    BY <1>18, MessageCounts DEF Answer, EndCount
  <2>2. UNCHANGED <<handler, streaming, runs, task>>
    BY <1>18, MessageKeeps
  <2>3. \A p \in {0} \cup Prompts : retries'[p] <= runs
    BY <1>a, <2>1
  <2>4. QED BY <2>2, <2>3
<1>19. QED
  BY <1>1, <1>2, <1>3, <1>4, <1>5, <1>6, <1>7, <1>8, <1>9, <1>10, <1>11, <1>12,
       <1>13, <1>14, <1>15, <1>16, <1>17, <1>18 DEF Next, HandlerStep, TaskStep,
       PromptStep, AbortStep

(* The count is raised only by a new prompt.                               *)
LEMMA CountStep == TypeOK /\ CountBounded /\ [Next]_vars => CountBounded'
<1> SUFFICES ASSUME TypeOK /\ CountBounded, [Next]_vars PROVE CountBounded'
  OBVIOUS
<1> USE Bounds DEF TypeOK, SessionTypes, PromptTypes, CountBounded, Prompts,
        sessionVars, agentVars, promptVars, messageVars, handlerVars, taskVars, abortVars,
        historyVars
<1>1. ASSUME NEW p \in Prompts, Prompt(p) PROVE CountBounded'
  BY <1>1 DEF Prompt
<1>2. ASSUME NEW p \in Prompts, BailOut(p) \/ TimeOut(p) PROVE CountBounded'
  BY <1>2 DEF BailOut, TimeOut, EndInFlight
<1>3. ASSUME NEW p \in Prompts, StartPrompt(p) \/ Queue(p) PROVE CountBounded'
  BY <1>3 DEF StartPrompt, MayStart, Queue
<1>4. ASSUME NEW p \in Prompts, Return(p) PROVE CountBounded'
  BY <1>4 DEF Return, EndInFlight
<1>5. CASE EndRun
  BY <1>5 DEF EndRun
<1>6. CASE EndAbort
  BY <1>6 DEF EndAbort
<1>7. ASSUME NEW r \in Runs, Leave(r) \/ Finish(r) \/ Decide(r) \/ GiveUp(r) \/ FailFast(r) \/
             Sleep(r) \/ WakeUp(r) \/ Awakened(r)
      PROVE CountBounded'
  <2>1. UNCHANGED <<prompt, inFlight>>
    BY <1>7 DEF Leave, Finish, EndHandler, Decide, GiveUp,
         FailFast, Sleep, WakeUp, Awakened
  <2>2. QED BY <2>1
<1>8. ASSUME NEW r \in Runs, SkipTask(r) \/ BeginTask(r) \/ Refuse(r) \/ Continue(r)
      PROVE CountBounded'
  <2>1. UNCHANGED <<prompt, inFlight>>
    BY <1>8 DEF SkipTask, BeginTask, Skipped, Refuse, Continue, BeginRun
  <2>2. QED BY <2>1
<1>9. CASE Retry \/ Abort \/ Drained
  <2>1. UNCHANGED <<prompt, inFlight>>
    BY <1>9 DEF Retry, Abort, Retrying, PendingTasks, Drained
  <2>2. QED BY <2>1
<1>10. CASE UNCHANGED vars
  BY <1>10 DEF vars
<1>11. CASE Answer \/ \E r \in Runs : EndCount(r)
  BY <1>11, MessageKeeps
<1>12. QED
  BY <1>1, <1>2, <1>3, <1>4, <1>5, <1>6, <1>7, <1>8, <1>9, <1>10, <1>11 DEF Next,
       HandlerStep, TaskStep, PromptStep, AbortStep

(* Only abort() begins a generation.                                       *)
LEMMA GenerationsStep == Shape /\ [Next]_vars => Generations'
<1> SUFFICES ASSUME Shape, [Next]_vars PROVE Generations'
  OBVIOUS
<1> USE Bounds DEF Shape, TypeOK, SessionTypes, PromptTypes, HandlerTypes,
        TaskTypes, AbortTypes, RunsInOrder, Generations, Runs, Prompts, Any,
        sessionVars, agentVars, promptVars, messageVars, handlerVars, taskVars, abortVars,
        historyVars
<1>1. ASSUME NEW p \in Prompts, Prompt(p) PROVE Generations'
  BY <1>1 DEF Prompt
<1>2. CASE EndRun
  <2>1. \E o \in StopReasons : handler' = [handler EXCEPT ![streaming] = o]
    BY <1>2 DEF EndRun, StopReasons
  <2>2. /\ handler[streaming] = "none"
        /\ UNCHANGED <<promptGeneration, aborts, promptedAt, startedAt, handledAt>>
    BY <1>2 DEF EndRun
  <2>3. QED BY <2>1, <2>2
<1>3. ASSUME NEW r \in Runs, Finish(r) \/ Leave(r) PROVE Generations'
  BY <1>3 DEF Finish, Leave, EndHandler
<1>4. ASSUME NEW r \in Runs, Decide(r) PROVE Generations'
  <2>1. handler[r] \in StopReasons /\ handledAt' = [handledAt EXCEPT ![r] = promptGeneration]
    BY <1>4 DEF Decide
  <2>2. \E h \in {"exhausted", "deciding"} : handler' = [handler EXCEPT ![r] = h]
    BY <1>4 DEF Decide
  <2>3. UNCHANGED <<promptGeneration, aborts, promptedAt, startedAt>>
    BY <1>4 DEF Decide
  <2>4. QED BY <2>1, <2>2, <2>3
<1>5. ASSUME NEW r \in Runs, GiveUp(r) PROVE Generations'
  BY <1>5 DEF GiveUp, EndHandler
<1>6. ASSUME NEW r \in Runs, FailFast(r) PROVE Generations'
  BY <1>6 DEF FailFast
<1>7. ASSUME NEW r \in Runs, Sleep(r) PROVE Generations'
  BY <1>7 DEF Sleep
<1>8. ASSUME NEW r \in Runs, WakeUp(r) PROVE Generations'
  BY <1>8 DEF WakeUp, EndHandler
<1>9. ASSUME NEW r \in Runs, Awakened(r) PROVE Generations'
  BY <1>9 DEF Awakened, EndHandler
<1>10. CASE Retry
  BY <1>10 DEF Retry
<1>11. CASE Abort
  <2>1. promptGeneration' = promptGeneration + 1 /\ aborts' = aborts + 1
        /\ UNCHANGED <<promptedAt, startedAt, handledAt, handler>>
    BY <1>11 DEF Abort
  <2>2. \A r \in Runs : handledAt[r] \in Int
    OBVIOUS
  <2>3. \A r \in Runs : handledAt[r] <= promptGeneration + 1
    BY <2>2
  <2>4. \A p \in Prompts : promptedAt[p] <= promptGeneration + 1
    OBVIOUS
  <2>5. \A r \in Runs : startedAt[r] <= promptGeneration + 1
    BY DEF AgentTypes
  <2>6. QED BY <2>1, <2>3, <2>4, <2>5
<1>12. ASSUME NEW p \in Prompts, BailOut(p) \/ Queue(p) \/ TimeOut(p) \/ Return(p)
       PROVE Generations'
  <2>1. UNCHANGED <<promptGeneration, aborts, startedAt, handledAt, handler>>
    BY <1>12, PromptKeeps
  <2>2. UNCHANGED promptedAt
    BY <1>12 DEF BailOut, Queue, TimeOut, Return
  <2>3. QED BY <2>1, <2>2
<1>13. ASSUME NEW r \in Runs, SkipTask(r) \/ BeginTask(r) \/ Refuse(r)
       PROVE Generations'
  <2>1. UNCHANGED <<promptGeneration, aborts, promptedAt, startedAt, handledAt, handler>>
    BY <1>13 DEF SkipTask, BeginTask, Skipped, Refuse
  <2>2. QED BY <2>1
<1>14. CASE Drained \/ EndAbort
  <2>1. UNCHANGED <<promptGeneration, aborts, promptedAt, startedAt, handledAt, handler>>
    BY <1>14 DEF Drained, EndAbort
  <2>2. QED BY <2>1
<1>15. CASE UNCHANGED vars
  BY <1>15 DEF vars
<1>16. CASE Answer \/ \E r \in Runs : EndCount(r)
  <2>1. aborts' = aborts
    BY <1>16 DEF Answer, EndCount
  <2>2. QED BY <1>16, <2>1, MessageKeeps
<1>17. ASSUME BeginRun(0) \/ \E p \in Prompts : BeginRun(p),
              UNCHANGED <<promptGeneration, aborts, promptedAt, handledAt, handler>>
       PROVE  Generations'
  <2>1. startedAt' = [startedAt EXCEPT ![runs + 1] = promptGeneration]
    BY <1>17 DEF BeginRun
  <2>2. \A r \in Runs : startedAt'[r] <= promptGeneration
    BY <2>1 DEF AgentTypes
  <2>3. QED BY <1>17, <2>2
<1>18. ASSUME NEW p \in Prompts, StartPrompt(p) PROVE Generations'
  BY <1>17, <1>18 DEF StartPrompt
<1>19. ASSUME NEW r \in Runs, Continue(r) PROVE Generations'
  <2>1. origin[r] \in {0} \cup Prompts
    BY DEF AgentTypes
  <2>2. QED BY <1>17, <1>19, <2>1 DEF Continue
<1>20. QED
  BY <1>1, <1>2, <1>3, <1>4, <1>5, <1>6, <1>7, <1>8, <1>9, <1>10, <1>11, <1>12,
       <1>13, <1>14, <1>15, <1>16, <1>18, <1>19 DEF Next, HandlerStep, TaskStep, PromptStep,
       AbortStep

(* Only the end of a run tracks an error.                                  *)
LEMMA TrackedStep == Shape /\ [Next]_vars => Tracked'
<1> SUFFICES ASSUME Shape, [Next]_vars PROVE Tracked'
  OBVIOUS
<1>a. /\ DOMAIN handler = Runs /\ streaming \in {0} \cup Runs
      /\ \A r \in Runs : lastAssistantMessage = [run |-> r, stopReason |-> "error"]
                         => handler[r] \notin {"none", "ok", "aborted"}
  BY DEF Shape, Tracked, TypeOK, AgentTypes, HandlerTypes
<1>1. ASSUME lastAssistantMessage' \in {NoMessage, lastAssistantMessage},
             \A r \in Runs : handler'[r] \in {"none", "ok", "aborted"} => handler'[r] = handler[r]
      PROVE  Tracked'
  BY <1>1, <1>a DEF Tracked, NoMessage
<1>2. CASE Answer
  <2>1. lastAssistantMessage' = [run |-> streaming, stopReason |-> "ok"]
    BY <1>2 DEF Answer, EndMessage
  <2>2. QED BY <2>1 DEF Tracked
<1>3. CASE EndRun
  <2>1. PICK o \in StopReasons : /\ lastAssistantMessage' = [run |-> streaming, stopReason |-> o]
                                 /\ handler' = [handler EXCEPT ![streaming] = o]
    BY <1>3 DEF EndRun, EndMessage, StopReasons
  <2>2. ASSUME NEW r \in Runs, lastAssistantMessage' = [run |-> r, stopReason |-> "error"]
        PROVE  handler'[r] = "error"
    <3>1. r = streaming /\ o = "error"
      BY <2>1, <2>2
    <3>2. QED BY <2>1, <2>2, <3>1, <1>a
  <2>3. QED BY <2>2 DEF Tracked
<1>4. ASSUME NEW r \in Runs, Leave(r) \/ Finish(r) \/ Decide(r) PROVE Tracked'
  <2>1. lastAssistantMessage' = NoMessage
    BY <1>4 DEF Leave, Finish, Decide, Take
  <2>2. QED BY <2>1 DEF Tracked, NoMessage
<1>5. ASSUME NEW r \in Runs, NEW h \in {"done", "cancelled", "sleeping"},
             handler' = [handler EXCEPT ![r] = h], UNCHANGED messageVars
      PROVE  Tracked'
  <2>1. \A q \in Runs : handler'[q] \in {"none", "ok", "aborted"} => handler'[q] = handler[q]
    BY <1>5, <1>a
  <2>2. QED BY <1>1, <1>5, <2>1 DEF messageVars
<1>6. ASSUME NEW r \in Runs, GiveUp(r) \/ FailFast(r) \/ Sleep(r) \/ WakeUp(r) \/ Awakened(r)
      PROVE  Tracked'
  <2>1. /\ \E h \in {"done", "cancelled", "sleeping"} : handler' = [handler EXCEPT ![r] = h]
        /\ UNCHANGED messageVars
    BY <1>6 DEF GiveUp, FailFast, Sleep, WakeUp, Awakened, EndHandler
  <2>2. QED BY <1>5, <2>1
<1>7. ASSUME UNCHANGED <<handler, lastAssistantMessage>> PROVE Tracked'
  BY <1>1, <1>7
<1>8. ASSUME NEW r \in Runs, EndCount(r) \/ TaskStep(r) PROVE UNCHANGED <<handler, lastAssistantMessage>>
  BY <1>8 DEF EndCount, TaskStep, SkipTask, BeginTask, Refuse, Continue, handlerVars, messageVars
<1>9. ASSUME NEW p \in Prompts, Prompt(p) \/ PromptStep(p)
      PROVE  UNCHANGED <<handler, lastAssistantMessage>>
  BY <1>9, PromptKeeps DEF PromptStep, StartPrompt, handlerVars, messageVars
<1>10. CASE Retry \/ Abort \/ AbortStep \/ UNCHANGED vars
  BY <1>7, <1>10 DEF Retry, Abort, AbortStep, Drained, EndAbort, vars, handlerVars, messageVars
<1>11. QED
  BY <1>2, <1>3, <1>4, <1>6, <1>7, <1>8, <1>9, <1>10 DEF Next, HandlerStep

(* Nothing brings back what abort() has found.                             *)
LEMMA StoppedStep == Shape /\ StoppedStay /\ [Next]_vars => StoppedStay'
<1> SUFFICES ASSUME Shape /\ StoppedStay, [Next]_vars PROVE StoppedStay'
  OBVIOUS
<1> USE Bounds DEF Shape, TypeOK, SessionTypes, AgentTypes, HandlerTypes,
        TaskTypes, HistoryTypes, RunsInOrder, Generations, StoppedStay, StopReasons, Runs,
        Prompts, Any, sessionVars, agentVars, promptVars, messageVars, handlerVars,
        taskVars, abortVars, historyVars
<1>1. CASE EndRun
  <2>1. /\ \E o : handler' = [handler EXCEPT ![streaming] = o]
        /\ handler[streaming] = "none"
        /\ UNCHANGED <<handledAt, promptGeneration, taskAborted, stopped>>
    BY <1>1 DEF EndRun
  <2>2. \A q \in Runs : task'[q] = "restoring" => task[q] = "restoring"
    BY <1>1 DEF EndRun
  <2>3. QED BY <2>1, <2>2
<1>2. ASSUME NEW r \in Runs, Finish(r) \/ Leave(r) PROVE StoppedStay'
  <2>1. /\ handler' = [handler EXCEPT ![r] = "done"]
        /\ UNCHANGED <<stopped, taskAborted, handledAt, promptGeneration, task>>
    BY <1>2, LeaveDoes DEF Finish, EndHandler
  <2>2. QED BY <2>1
<1>3. ASSUME NEW r \in Runs, Decide(r) PROVE StoppedStay'
  <2>1. handler[r] \in StopReasons /\ r \notin stopped
    BY <1>3 DEF Decide
  <2>2. /\ handledAt' = [handledAt EXCEPT ![r] = promptGeneration]
        /\ UNCHANGED <<promptGeneration, task, taskAborted, stopped>>
    BY <1>3 DEF Decide
  <2>3. \E h \in {"exhausted", "deciding"} : handler' = [handler EXCEPT ![r] = h]
    BY <1>3 DEF Decide
  <2>4. QED BY <2>1, <2>2, <2>3
<1>4. ASSUME NEW r \in Runs, GiveUp(r) PROVE StoppedStay'
  BY <1>4 DEF GiveUp, EndHandler
<1>5. ASSUME NEW r \in Runs, FailFast(r) PROVE StoppedStay'
  BY <1>5 DEF FailFast
<1>6. ASSUME NEW r \in Runs, Sleep(r) PROVE StoppedStay'
  BY <1>6 DEF Sleep
<1>7. ASSUME NEW r \in Runs, WakeUp(r) PROVE StoppedStay'
  BY <1>7 DEF WakeUp, EndHandler
<1>8. ASSUME NEW r \in Runs, Awakened(r) PROVE StoppedStay'
  <2>1. \E h \in {"cancelled", "done"} : handler' = [handler EXCEPT ![r] = h]
    BY <1>8 DEF Awakened, EndHandler
  <2>2. UNCHANGED <<promptGeneration, handledAt, task, taskAborted, stopped>>
    BY <1>8 DEF Awakened, EndHandler
  <2>3. QED BY <2>1, <2>2
<1>9. ASSUME NEW r \in Runs, SkipTask(r) PROVE StoppedStay'
  BY <1>9 DEF SkipTask
<1>10. ASSUME NEW r \in Runs, BeginTask(r) PROVE StoppedStay'
  <2>1. r \notin stopped
    BY <1>10 DEF BeginTask, Skipped
  <2>2. /\ task' = [task EXCEPT ![r] = "restoring"]
        /\ UNCHANGED <<stopped, handler, taskAborted, handledAt, promptGeneration>>
    BY <1>10 DEF BeginTask
  <2>3. QED BY <2>1, <2>2
<1>11. ASSUME NEW r \in Runs, Refuse(r) PROVE StoppedStay'
  BY <1>11 DEF Refuse
<1>12. ASSUME NEW r \in Runs, Continue(r) PROVE StoppedStay'
  BY <1>12 DEF Continue, BeginRun
<1>13. CASE Retry
  BY <1>13 DEF Retry
<1>14. CASE Abort
  <2>1. promptGeneration' = promptGeneration + 1 /\ taskAborted' = taskAborted \cup PendingTasks
        /\ stopped' = stopped \cup Retrying \cup {r \in Runs : task[r] = "delay"}
        /\ UNCHANGED <<handler, handledAt, task>>
    BY <1>14 DEF Abort
  <2>2. ASSUME NEW r \in Runs, task[r] = "delay" PROVE handler[r] = "done" /\ r \in taskAborted'
    BY <2>1, <2>2 DEF PendingTasks
  <2>3. ASSUME NEW r \in Retrying
        PROVE  handler[r] \notin {"none", "done"} \cup StopReasons /\ handledAt[r] # Any /\ task[r] = "none"
    BY <2>3 DEF Retrying
  <2>4. ASSUME NEW r \in stopped
        PROVE  /\ handler[r] \notin {"none"} \cup StopReasons
               /\ task[r] # "restoring"
               /\ r \in taskAborted' \/ (handledAt[r] # Any /\ handledAt[r] < promptGeneration')
    BY <2>1, <2>4
  <2>5. \A r \in Retrying : r \in Runs /\ handledAt[r] < promptGeneration'
    <3>1. \A r \in Runs : handledAt[r] \in Int /\ handledAt[r] <= promptGeneration
      OBVIOUS
    <3>2. Retrying \subseteq Runs
      BY DEF Retrying
    <3>3. QED BY <2>1, <3>1, <3>2
  <2>6. QED BY <2>1, <2>2, <2>3, <2>4, <2>5
<1>15. ASSUME NEW p \in Prompts, Prompt(p) \/ BailOut(p) \/ Queue(p) \/ TimeOut(p) \/ StartPrompt(p) \/ Return(p)
       PROVE StoppedStay'
  <2>1. UNCHANGED <<stopped, handler, taskAborted, handledAt, promptGeneration, task>>
    BY <1>15, PromptKeeps DEF StartPrompt, BeginRun
  <2>2. QED BY <2>1
<1>16. CASE Drained \/ EndAbort
  <2>1. UNCHANGED <<stopped, handler, taskAborted, handledAt, promptGeneration, task>>
    BY <1>16 DEF Drained, EndAbort
  <2>2. QED BY <2>1
<1>17. CASE UNCHANGED vars
  BY <1>17 DEF vars
<1>18. CASE Answer \/ \E r \in Runs : EndCount(r)
  <2>1. UNCHANGED <<stopped, handler, taskAborted, handledAt, promptGeneration, task>>
    BY <1>18, MessageKeeps
  <2>2. QED BY <2>1
<1>19. QED
  BY <1>1, <1>2, <1>3, <1>4, <1>5, <1>6, <1>7, <1>8, <1>9, <1>10, <1>11, <1>12,
       <1>13, <1>14, <1>15, <1>16, <1>17, <1>18 DEF Next, HandlerStep, TaskStep,
       PromptStep, AbortStep

(***************************************************************************)
(* The count of prompts.                                                   *)
(***************************************************************************)
LEMMA LiveFinite == IsFiniteSet(LivePrompts) /\ Cardinality(LivePrompts) \in Nat
<1>1. IsFiniteSet(Prompts)
  BY Bounds, FS_Interval DEF Prompts
<1>2. LivePrompts \subseteq Prompts
  BY DEF LivePrompts
<1>3. QED BY <1>1, <1>2, FS_Subset, FS_CardinalityType

(* A race that is lost stays lost.                                         *)
LEMMA RacesStay == [Next]_vars /\ races' = "won" => races = "won"
<1> SUFFICES ASSUME [Next]_vars, races' = "won" PROVE races = "won"
  OBVIOUS
<1>1. ASSUME NEW r \in Runs, HandlerStep(r) PROVE races = "won"
  BY <1>1 DEF HandlerStep, Leave, Finish, Decide, GiveUp, FailFast, Sleep, WakeUp, Awakened, Race,
     historyVars
<1>2. ASSUME NEW r \in Runs, EndCount(r) \/ TaskStep(r) PROVE races = "won"
  BY <1>2 DEF EndCount, TaskStep, SkipTask, BeginTask, Refuse, Continue, Race, historyVars
<1>3. ASSUME NEW p \in Prompts, Prompt(p) \/ PromptStep(p) PROVE races = "won"
  BY <1>3 DEF PromptStep, Prompt, BailOut, Queue, TimeOut, StartPrompt, Return, Race, historyVars
<1>4. CASE Answer \/ EndRun
  BY <1>4 DEF Answer, EndRun
<1>5. CASE Retry \/ Abort \/ AbortStep \/ UNCHANGED vars
  BY <1>5 DEF Retry, Abort, AbortStep, Drained, EndAbort, Race, vars, historyVars
<1>6. QED
  BY <1>1, <1>2, <1>3, <1>4, <1>5 DEF Next

(* A prompt that begins takes a place, one that ends gives up its own.     *)
LEMMA CountedStep == Shape /\ Counted /\ [Next]_vars => Counted'
<1> SUFFICES ASSUME Shape, Counted, [Next]_vars, races' = "won"
             PROVE  inFlight' >= Cardinality(LivePrompts')
  BY DEF Counted
<1> USE Bounds DEF Shape, TypeOK, SessionTypes, PromptTypes, Generations,
        Prompts
<1>1. inFlight >= Cardinality(LivePrompts)
  BY RacesStay DEF Counted
<1>2. ASSUME NEW p \in Prompts, Prompt(p) PROVE inFlight' >= Cardinality(LivePrompts')
  <2>1. prompt[p] = "none" /\ prompt' = [prompt EXCEPT ![p] = "setup"]
        /\ promptedAt' = [promptedAt EXCEPT ![p] = promptGeneration]
        /\ inFlight' = inFlight + 1 /\ UNCHANGED promptGeneration
    BY <1>2 DEF Prompt
  <2>2. LivePrompts' \subseteq LivePrompts \cup {p}
    BY <2>1 DEF LivePrompts
  <2>3. /\ IsFiniteSet(LivePrompts \cup {p})
        /\ Cardinality(LivePrompts \cup {p}) <= Cardinality(LivePrompts) + 1
    <3>1. IsFiniteSet(LivePrompts)
      BY LiveFinite
    <3>2. /\ IsFiniteSet(LivePrompts \cup {p})
          /\ Cardinality(LivePrompts \cup {p})
             = IF p \in LivePrompts THEN Cardinality(LivePrompts) ELSE Cardinality(LivePrompts) + 1
      BY <3>1, FS_AddElement
    <3>3. Cardinality(LivePrompts) \in Nat
      BY LiveFinite
    <3>4. QED BY <3>2, <3>3
  <2>4. Cardinality(LivePrompts') <= Cardinality(LivePrompts) + 1 /\ Cardinality(LivePrompts') \in Nat
    BY <2>2, <2>3, FS_Subset, FS_CardinalityType, LiveFinite
  <2>5. QED BY <2>1, <2>4, <1>1, LiveFinite
<1>3. ASSUME NEW p \in Prompts, BailOut(p) \/ TimeOut(p) \/ Return(p)
      PROVE inFlight' >= Cardinality(LivePrompts')
  <2>1. inFlight > Cardinality(LivePrompts \ {p})
    <3>1. ~Uncovers(p)
      BY <1>3 DEF BailOut, TimeOut, Return, Race
    <3>2. Cardinality(LivePrompts \ {p}) \in Nat
      BY LiveFinite, FS_RemoveElement, FS_CardinalityType
    <3>3. QED BY <3>1, <3>2 DEF Uncovers
  <2>2. prompt' = [prompt EXCEPT ![p] = "returned"] /\ UNCHANGED <<promptedAt, promptGeneration>>
        /\ inFlight' = IF inFlight > 0 THEN inFlight - 1 ELSE 0
    BY <1>3 DEF BailOut, TimeOut, Return, EndInFlight
  <2>3. LivePrompts' = LivePrompts \ {p}
    BY <2>2 DEF LivePrompts
  <2>4. IsFiniteSet(LivePrompts \ {p}) /\ Cardinality(LivePrompts \ {p}) \in Nat
    BY LiveFinite, FS_RemoveElement, FS_CardinalityType
  <2>5. QED BY <2>1, <2>2, <2>3, <2>4
<1>4. ASSUME NEW p \in Prompts, Queue(p) PROVE inFlight' >= Cardinality(LivePrompts')
  <2>1. prompt[p] = "setup" /\ prompt' = [prompt EXCEPT ![p] = "queued"]
        /\ UNCHANGED <<promptedAt, promptGeneration, inFlight>>
    BY <1>4 DEF Queue, sessionVars
  <2>2. LivePrompts' = LivePrompts
    BY <2>1 DEF LivePrompts
  <2>3. QED BY <1>1, <2>1, <2>2
<1>5. CASE Abort
  <2>1. promptGeneration' = promptGeneration + 1 /\ UNCHANGED <<prompt, promptedAt, inFlight>>
    BY <1>5 DEF Abort, promptVars
  <2>2. LivePrompts' = {}
    BY <2>1 DEF LivePrompts
  <2>3. QED BY <2>1, <2>2, FS_EmptySet
<1>6. CASE EndAbort
  <2>1. LivePrompts = {} /\ inFlight' = 0 /\ UNCHANGED <<promptGeneration, promptVars>>
    BY <1>6 DEF EndAbort, Race
  <2>2. LivePrompts' = {}
    BY <2>1 DEF LivePrompts, promptVars
  <2>3. QED BY <2>1, <2>2, FS_EmptySet
<1>7. ASSUME NEW p \in Prompts, StartPrompt(p)
      PROVE inFlight' >= Cardinality(LivePrompts')
  <2>1. prompt[p] \in {"setup", "queued"} /\ prompt' = [prompt EXCEPT ![p] = "running"]
        /\ UNCHANGED <<promptedAt, promptGeneration, inFlight>>
    BY <1>7 DEF StartPrompt, MayStart, BeginRun, sessionVars
  <2>2. LivePrompts' = LivePrompts
    BY <2>1 DEF LivePrompts
  <2>3. QED BY <1>1, <2>1, <2>2
<1>8. CASE EndRun
  <2>1. prompt' = [p \in Prompts |-> IF prompt[p] = "running" THEN "waiting" ELSE prompt[p]]
        /\ UNCHANGED <<promptedAt, promptGeneration, inFlight>>
    BY <1>8 DEF EndRun, sessionVars
  <2>2. LivePrompts' = LivePrompts
    BY <2>1 DEF LivePrompts
  <2>3. QED BY <1>1, <2>1, <2>2
<1>9. ASSUME UNCHANGED <<prompt, promptedAt, promptGeneration, inFlight>>
      PROVE  inFlight' >= Cardinality(LivePrompts')
  BY <1>1, <1>9 DEF LivePrompts
<1>10. ASSUME NEW r \in Runs, HandlerStep(r)
       PROVE  UNCHANGED <<prompt, promptedAt, promptGeneration, inFlight>>
  BY <1>10, LeaveDoes DEF HandlerStep, Finish, Decide, GiveUp, FailFast, Sleep, WakeUp,
       Awakened, promptVars
<1>11. ASSUME NEW r \in Runs, TaskStep(r)
       PROVE  UNCHANGED <<prompt, promptedAt, promptGeneration, inFlight>>
  BY <1>11 DEF TaskStep, SkipTask, BeginTask, Refuse, Continue, promptVars, messageVars,
       sessionVars
<1>12. CASE Retry \/ Drained \/ UNCHANGED vars
  <2>1. UNCHANGED <<prompt, promptedAt, promptGeneration, inFlight>>
    BY <1>12 DEF Retry, Drained, vars, promptVars, messageVars, sessionVars
  <2>2. QED BY <1>9, <2>1
<1>13. CASE Answer \/ \E r \in Runs : EndCount(r)
  BY <1>9, <1>13, MessageKeeps
<1>14. QED
  BY <1>2, <1>3, <1>4, <1>5, <1>6, <1>7, <1>8, <1>9, <1>10, <1>11, <1>12, <1>13 DEF
       Next, PromptStep, AbortStep

(* What the steps of a handler and the checks of a task leave alone.       *)
LEMMA HandlerKeeps ==
    ASSUME NEW r \in Runs, HandlerStep(r)
    PROVE  UNCHANGED <<promptGeneration, streaming, origin, startedAt, runs, prompt,
                       promptedAt, taskAborted, retries>>
BY LeaveDoes DEF HandlerStep, Finish, Decide, GiveUp, FailFast, Sleep, WakeUp, Awakened, agentVars,
   promptVars, taskVars, historyVars

LEMMA TaskKeeps ==
    ASSUME NEW r \in Runs, SkipTask(r) \/ BeginTask(r) \/ Refuse(r)
    PROVE  UNCHANGED <<promptGeneration, retryAttempt, retryPending, streaming, origin,
                       startedAt, runs, prompt, promptedAt, handler, handledAt, taskAborted,
                       retries, races>>
BY DEF SkipTask, BeginTask, Refuse, sessionVars, agentVars, promptVars, messageVars, handlerVars, historyVars

(***************************************************************************)
(* The attempts.                                                           *)
(***************************************************************************)
(* A run or a continuation comes only of a prompt that has begun.         *)
LEMMA NotBegunStep == Shape /\ NotBegun /\ [Next]_vars => NotBegun'
<1> SUFFICES ASSUME Shape, NotBegun, [Next]_vars PROVE NotBegun'
  OBVIOUS
<1> USE Bounds DEF Shape, TypeOK, AgentTypes, PromptTypes, HistoryTypes, NotBegun, Runs,
        Prompts
<1>1. ASSUME NEW p \in Prompts, Prompt(p) PROVE NotBegun'
  BY <1>1 DEF Prompt, agentVars, historyVars
<1>2. ASSUME NEW p \in Prompts, BailOut(p) \/ Queue(p) \/ TimeOut(p) PROVE NotBegun'
  <2>1. /\ prompt[p] \in {"setup", "queued"}
        /\ \E t \in {"queued", "returned"} : prompt' = [prompt EXCEPT ![p] = t]
    BY <1>2 DEF BailOut, Queue, TimeOut
  <2>2. UNCHANGED <<origin, retries>>
    BY <1>2, PromptKeeps
  <2>3. QED BY <2>1, <2>2
<1>3. ASSUME NEW p \in Prompts, StartPrompt(p) PROVE NotBegun'
  <2>1. prompt' = [prompt EXCEPT ![p] = "running"] /\ UNCHANGED retries
        /\ origin' = [origin EXCEPT ![runs + 1] = p]
    BY <1>3 DEF StartPrompt, BeginRun, historyVars
  <2>2. QED BY <2>1
<1>4. ASSUME NEW p \in Prompts, Return(p) PROVE NotBegun'
  BY <1>4 DEF Return, agentVars
<1>5. CASE EndRun
  <2>1. \A p \in {0} \cup Prompts : retries'[p] \in {0, retries[p]}
    BY <1>5, MessageCounts DEF EndRun
  <2>2. UNCHANGED origin /\ \A p \in Prompts : prompt'[p] \in {"none", "setup", "queued"} => prompt[p] = prompt'[p]
    BY <1>5 DEF EndRun
  <2>3. QED BY <2>1, <2>2
<1>6. ASSUME NEW r \in Runs, Continue(r) PROVE NotBegun'
  <2>1. UNCHANGED prompt
    BY <1>6 DEF Continue, promptVars
  <2>2. CASE handledAt[r] = Any
    <3>1. origin' = [origin EXCEPT ![runs + 1] = 0] /\ retries' = [retries EXCEPT ![0] = 0]
      BY <1>6, <2>2 DEF Continue, BeginRun
    <3>2. QED BY <2>1, <3>1
  <2>3. CASE handledAt[r] # Any
    <3>1. /\ origin' = [origin EXCEPT ![runs + 1] = origin[r]]
          /\ retries' = [retries EXCEPT ![origin[r]] = @ + 1]
      BY <1>6, <2>3 DEF Continue, BeginRun
    <3>2. QED BY <2>1, <3>1
  <2>4. QED BY <2>2, <2>3
<1>7. ASSUME UNCHANGED <<prompt, origin, retries>> PROVE NotBegun'
  BY <1>7
<1>8. ASSUME NEW r \in Runs, HandlerStep(r) PROVE UNCHANGED <<prompt, origin, retries>>
  BY <1>8, HandlerKeeps
<1>9. ASSUME NEW r \in Runs, SkipTask(r) \/ BeginTask(r) \/ Refuse(r)
      PROVE  UNCHANGED <<prompt, origin, retries>>
  BY <1>9, TaskKeeps
<1>10. CASE Retry \/ Abort \/ Drained \/ EndAbort \/ UNCHANGED vars
  BY <1>7, <1>10 DEF Retry, Abort, Drained, EndAbort, vars, promptVars, messageVars, agentVars, historyVars
<1>11. CASE Answer \/ \E r \in Runs : EndCount(r)
  <2>1. \A p \in {0} \cup Prompts : retries'[p] \in {0, retries[p]}
    BY <1>11, MessageCounts DEF Answer, EndCount
  <2>2. QED BY <1>11, <2>1, MessageKeeps
<1>12. QED
  BY <1>1, <1>2, <1>3, <1>4, <1>5, <1>6, <1>7, <1>8, <1>9, <1>10, <1>11 DEF Next, TaskStep, PromptStep,
     AbortStep

(* There are finitely many runs to try again.                             *)
LEMMA MineFinite ==
    \A p : /\ IsFiniteSet(Mine(p)) /\ Cardinality(Mine(p)) \in Nat
           /\ IsFiniteSet(Mine(p)') /\ Cardinality(Mine(p)') \in Nat
<1>1. IsFiniteSet(Runs)
  BY Bounds, FS_Interval DEF Runs
<1>2. \A p : Mine(p) \subseteq Runs /\ Mine(p)' \subseteq Runs
  BY DEF Mine, Scheduled
<1>3. QED BY <1>1, <1>2, FS_Subset, FS_CardinalityType

(* The budget when there is no more to try again than before.              *)
LEMMA LessToDo ==
    ASSUME Shape, Budget, races = "won", Scheduled' \subseteq Scheduled,
           \A p \in {0} \cup Prompts : retries'[p] \in {0, retries[p]},
           \A u \in Scheduled : origin'[u] = origin[u],
           \A u \in Scheduled' \cup Undecided' :
               u \in Scheduled \cup Undecided /\ origin'[u] = origin[u],
           retryAttempt' \in Nat, retryAttempt' >= retryAttempt
    PROVE  Budget'
<1>1. ASSUME NEW p \in {0} \cup Prompts PROVE Granted(p)' <= Granted(p)
  <2>1. Mine(p)' \subseteq Mine(p)
    BY DEF Mine
  <2>2. Cardinality(Mine(p)') <= Cardinality(Mine(p)) /\ Cardinality(Mine(p)') \in Nat
    BY <2>1, MineFinite, FS_Subset, FS_CardinalityType
  <2>3. retries[p] \in Nat
    BY Bounds DEF Shape, TypeOK, HistoryTypes
  <2>4. retries'[p] \in {0, retries[p]}
    OBVIOUS
  <2>5. retries'[p] \in Nat /\ retries'[p] <= retries[p]
    BY <2>3, <2>4
  <2>6. QED BY <2>2, <2>3, <2>5, MineFinite DEF Granted
<1>2. \A p \in {0} \cup Prompts : Granted(p) \in Int /\ Granted(p)' \in Int
  <2>1. \A p \in {0} \cup Prompts : retries[p] \in Int /\ retries'[p] \in Int
    BY Bounds DEF Shape, TypeOK, HistoryTypes
  <2>2. \A p : Cardinality(Mine(p)') \in Nat
    BY MineFinite
  <2>3. QED BY <2>1, <2>2, MineFinite DEF Granted
<1>3. retryAttempt \in Nat /\ maxRetries \in Nat
  BY Bounds DEF Shape, TypeOK, SessionTypes
<1>4. QED BY <1>1, <1>2, <1>3 DEF Budget

(* The budget when the attempts are reset.                                 *)
LEMMA Reset ==
    ASSUME Shape, Budget, races = "won", UNCHANGED <<retries, origin>>, NEW r,
           Scheduled' \subseteq Scheduled \ {r}, Undecided' \subseteq Undecided \ {r},
           ~Forgets(r), retryAttempt' = 0
    PROVE  Budget'
<1>1. CASE retryAttempt = 0
  BY <1>1, LessToDo
<1>2. CASE retryAttempt # 0
  <2>1. Scheduled' = {} /\ \A u \in Undecided' : retries[origin[u]] <= 0
    <3>1. retryAttempt > 0
      BY <1>2 DEF Shape, TypeOK, SessionTypes
    <3>2. \A u \in Runs \ {r} : u \notin Scheduled /\ (u \in Undecided => ~(retries[origin[u]] > 0))
      BY <3>1 DEF Forgets
    <3>3. Scheduled' \subseteq Runs \ {r} /\ Undecided' \subseteq Runs \ {r}
      BY DEF Scheduled, Undecided
    <3>4. \A u \in Runs : retries[origin[u]] \in Int
      BY Bounds DEF Shape, TypeOK, HistoryTypes, AgentTypes
    <3>5. QED BY <3>2, <3>3, <3>4
  <2>2. \A p : Mine(p)' = {} /\ Cardinality(Mine(p)') = 0
    BY <2>1, FS_EmptySet DEF Mine
  <2>3. \A p \in {0} \cup Prompts : retries[p] \in Int /\ Granted(p)' = retries[p]
    <3>1. \A p \in {0} \cup Prompts : retries[p] \in Int
      BY Bounds DEF Shape, TypeOK, HistoryTypes
    <3>2. QED BY <2>2, <3>1 DEF Granted
  <2>4. ASSUME NEW p \in {0} \cup Prompts PROVE Granted(p)' <= maxRetries
    <3>1. Granted(p) <= maxRetries
      BY DEF Budget
    <3>2. retries[p] <= Granted(p) /\ Granted(p) \in Int
      BY <2>3, MineFinite DEF Granted
    <3>3. QED BY <2>3, <3>1, <3>2, Bounds
  <2>5. QED BY <2>1, <2>3, <2>4 DEF Budget
<1>3. QED BY <1>1, <1>2

(* A handler that does not mistake a message decides on an error of its    *)
(* own run.                                                                *)
LEMMA MistakenNot ==
    ASSUME Shape, NEW r \in Runs, Decide(r), races' = "won"
    PROVE  handler[r] = "error" /\ promptGeneration = startedAt[r]
<1>1. handler[r] \in StopReasons /\ Taken(r).stopReason = "error" /\ ~Mistakes(r) /\ ~Late(r)
  BY DEF Decide, Race
<1>2. CASE lastAssistantMessage = NoMessage
  BY <1>1, <1>2 DEF Taken, Late
<1>3. CASE lastAssistantMessage # NoMessage
  <2>1. lastAssistantMessage.run = r /\ lastAssistantMessage.stopReason = "error"
    BY <1>1, <1>3 DEF Taken, Mistakes
  <2>2. lastAssistantMessage = [run |-> r, stopReason |-> "error"]
    BY <2>1 DEF Shape, TypeOK, MessageTypes
  <2>3. QED BY <1>1, <2>2 DEF Shape, Tracked, StopReasons, Late
<1>4. QED BY <1>2, <1>3

(* Whatever is counted is granted, and nothing is granted uncounted.      *)
LEMMA BudgetStep == Shape /\ NotBegun /\ Budget /\ [Next]_vars => Budget'
<1> SUFFICES ASSUME Shape, NotBegun, Budget, [Next]_vars, races' = "won" PROVE Budget'
  BY DEF Budget
<1>0. races = "won"
  BY RacesStay
<1>a. /\ retryAttempt \in Nat /\ runs \in 0..MaxRuns /\ streaming \in {0} \cup Runs
      /\ origin \in [Runs -> {0} \cup Prompts] /\ retries \in [{0} \cup Prompts -> Nat]
      /\ DOMAIN handler = Runs /\ DOMAIN task = Runs /\ DOMAIN handledAt = Runs
  BY Bounds DEF Shape, TypeOK, SessionTypes, AgentTypes, HistoryTypes, HandlerTypes, TaskTypes
<1>b. /\ \A r \in Runs : handledAt[r] = Any => handler[r] = "done"
      /\ \A r \in Runs : task[r] # "none" => handler[r] = "done"
      /\ streaming # 0 => handler[streaming] = "none"
      /\ \A r \in Runs : r > runs => handler[r] = "none"
      /\ 0 \notin Runs
  BY DEF Runs, Shape, RunsInOrder, Generations
<1>1. ASSUME UNCHANGED <<handler, task, handledAt, streaming, origin, retries, retryAttempt>>
      PROVE  Budget'
  BY <1>0, <1>1, <1>a, LessToDo DEF Scheduled, Undecided
<1>2. ASSUME NEW p \in Prompts, StartPrompt(p) PROVE Budget'
  <2>1. /\ origin' = [origin EXCEPT ![runs + 1] = p] /\ streaming' = runs + 1
        /\ runs + 1 \in Runs
        /\ UNCHANGED <<handler, handledAt, task, retries, retryAttempt>>
    BY <1>2, <1>a, Bounds
       DEF StartPrompt, BeginRun, Runs, historyVars, sessionVars, handlerVars, taskVars
  <2>2. runs + 1 \notin Scheduled
    <3>1. handler[runs + 1] = "none" /\ task[runs + 1] = "none"
      BY <2>1, <1>a, <1>b
    <3>2. QED BY <3>1 DEF Scheduled
  <2>3. Scheduled' = Scheduled /\ \A q : Mine(q)' = Mine(q)
    <3>1. Scheduled' = Scheduled
      BY <2>1 DEF Scheduled
    <3>2. \A u \in Scheduled : origin'[u] = origin[u]
      BY <2>1, <2>2, <1>a DEF Scheduled
    <3>3. QED BY <3>1, <3>2 DEF Mine
  <2>4. Undecided' \subseteq Undecided \cup {runs + 1}
    BY <2>1 DEF Undecided
  <2>5. Granted(p) = 0
    <3>1. prompt[p] \in {"setup", "queued"}
      BY <1>2 DEF StartPrompt, MayStart
    <3>2. retries[p] = 0 /\ Mine(p) = {}
      BY <3>1 DEF NotBegun, Mine, Scheduled
    <3>3. QED BY <3>2, FS_EmptySet DEF Granted
  <2>6. \A q \in {0} \cup Prompts : Granted(q)' = Granted(q)
    BY <2>1, <2>3 DEF Granted
  <2>7. ASSUME NEW q \in {0} \cup Prompts, NEW u \in Scheduled' \cup Undecided', origin'[u] = q
        PROVE  Granted(q) <= retryAttempt
    <3>1. CASE u = runs + 1
      BY <2>1, <2>5, <2>7, <3>1, <1>a
    <3>2. CASE u # runs + 1
      BY <2>1, <2>3, <2>4, <2>7, <3>2, <1>a, <1>0 DEF Budget, Undecided, Scheduled
    <3>3. QED BY <3>1, <3>2
  <2>8. QED BY <2>1, <2>6, <2>7, <1>0 DEF Budget
<1>3. CASE EndRun
  <2>1. /\ streaming # 0 /\ streaming' = 0
        /\ \E o \in StopReasons : handler' = [handler EXCEPT ![streaming] = o]
        /\ \A r \in Runs : task'[r] = IF task[r] = "running" THEN "done" ELSE task[r]
        /\ \A p \in {0} \cup Prompts : retries'[p] \in {0, retries[p]}
        /\ UNCHANGED <<handledAt, origin, retryAttempt>>
    BY <1>3, <1>a, MessageCounts DEF EndRun, StopReasons, sessionVars
  <2>2. Scheduled' \subseteq Scheduled
    BY <2>1, <1>a DEF Scheduled, StopReasons
  <2>3. Undecided' \subseteq Undecided
    BY <2>1, <1>a, <1>b DEF Undecided
  <2>4. QED BY <2>1, <2>2, <2>3, <1>0, <1>a, LessToDo
<1>4. ASSUME NEW r \in Runs, \A u \in Runs \ {r} : handler'[u] = handler[u],
             handler[r] \notin {"none", "done"}, handler'[r] \in {"cancelled", "done"},
             UNCHANGED <<task, handledAt, streaming>>
      PROVE  Undecided' \subseteq Undecided \ {r} /\ Scheduled' \subseteq Scheduled \ {r}
  <2>1. r # streaming /\ task[r] = "none"
    BY <1>4, <1>b
  <2>2. Undecided' \subseteq Undecided \ {r}
    BY <1>4, <2>1, <1>a DEF Undecided
  <2>3. Scheduled' \subseteq Scheduled \ {r}
    BY <1>4, <2>1, <1>a DEF Scheduled
  <2>4. QED BY <2>2, <2>3
<1>5. ASSUME NEW r \in Runs, Leave(r) \/ Finish(r) PROVE Budget'
  <2>1. /\ handler[r] \in StopReasons /\ handler' = [handler EXCEPT ![r] = "done"]
        /\ UNCHANGED <<task, handledAt, streaming, origin, retries, retryAttempt>>
    BY <1>5 DEF Leave, Finish, EndHandler, sessionVars, agentVars, taskVars
  <2>2. Scheduled' \subseteq Scheduled \ {r} /\ Undecided' \subseteq Undecided \ {r}
    BY <1>4, <2>1, <1>a DEF StopReasons
  <2>3. QED BY <2>1, <2>2, <1>0, <1>a, LessToDo
<1>6. ASSUME NEW r \in Runs, GiveUp(r) PROVE Budget'
  <2>1. /\ handler[r] \in {"exhausted", "cancelled"}
        /\ handler' = [handler EXCEPT ![r] = "done"]
        /\ UNCHANGED <<task, handledAt, streaming, origin, retries>>
    BY <1>6 DEF GiveUp, EndHandler, agentVars, taskVars
  <2>2. Scheduled' \subseteq Scheduled \ {r} /\ Undecided' \subseteq Undecided \ {r}
    BY <1>4, <2>1, <1>a
  <2>3. CASE handler[r] = "exhausted"
    <3>1. retryAttempt' = 0
      BY <1>6, <2>3 DEF GiveUp
    <3>2. ~Forgets(r)
      BY <1>6, <2>3 DEF GiveUp, Race
    <3>3. QED BY <2>1, <2>2, <3>1, <3>2, <1>0, Reset
  <2>4. CASE handler[r] # "exhausted"
    <3>1. retryAttempt' = retryAttempt
      BY <1>6, <2>4 DEF GiveUp
    <3>2. QED BY <2>1, <2>2, <3>1, <1>0, <1>a, LessToDo
  <2>5. QED BY <2>3, <2>4
<1>7. ASSUME NEW r \in Runs, FailFast(r) PROVE Budget'
  <2>1. /\ handler[r] = "deciding" /\ handler' = [handler EXCEPT ![r] = "cancelled"]
        /\ UNCHANGED <<task, handledAt, streaming, origin, retries>>
    BY <1>7 DEF FailFast, agentVars, taskVars
  <2>2. Scheduled' \subseteq Scheduled \ {r} /\ Undecided' \subseteq Undecided \ {r}
    BY <1>4, <2>1, <1>a
  <2>3. retryAttempt' = 0 /\ ~Forgets(r)
    BY <1>7 DEF FailFast, Race
  <2>4. QED BY <2>1, <2>2, <2>3, <1>0, Reset
<1>8. ASSUME NEW r \in Runs, Awakened(r) PROVE Budget'
  <2>1. handler[r] = "sleeping" /\ UNCHANGED <<task, handledAt, streaming, origin, retries>>
    BY <1>8 DEF Awakened, EndHandler, agentVars, taskVars
  <2>2. CASE controller = r
    <3>1. /\ handler' = [handler EXCEPT ![r] = "cancelled"]
          /\ retryAttempt' = 0 /\ ~Forgets(r)
      BY <1>8, <2>2 DEF Awakened, Race
    <3>2. Scheduled' \subseteq Scheduled \ {r} /\ Undecided' \subseteq Undecided \ {r}
      BY <1>4, <2>1, <3>1, <1>a
    <3>3. QED BY <2>1, <3>1, <3>2, <1>0, Reset
  <2>3. CASE controller # r
    <3>1. handler' = [handler EXCEPT ![r] = "done"] /\ retryAttempt' = retryAttempt
      BY <1>8, <2>3 DEF Awakened, EndHandler
    <3>2. Scheduled' \subseteq Scheduled \ {r} /\ Undecided' \subseteq Undecided \ {r}
      BY <1>4, <2>1, <3>1, <1>a
    <3>3. QED BY <2>1, <3>1, <3>2, <1>0, <1>a, LessToDo
  <2>4. QED BY <2>2, <2>3
<1>9. ASSUME NEW r \in Runs, Decide(r) PROVE Budget'
  <2>0. handler[r] = "error"
    BY <1>9, MistakenNot
  <2>1. /\ handler[r] = "error"
        /\ retryAttempt' = retryAttempt + 1
        /\ handler' = [handler EXCEPT ![r] = IF retryAttempt + 1 > maxRetries THEN "exhausted" ELSE "deciding"]
        /\ handledAt' = [handledAt EXCEPT ![r] = promptGeneration]
        /\ UNCHANGED <<task, streaming, origin, retries>>
    BY <1>9, <2>0 DEF Decide, agentVars, taskVars, historyVars
  <2>2. r # streaming /\ task[r] = "none"
    BY <2>1, <1>b
  <2>3. Undecided' \subseteq Undecided \ {r} /\ r \in Undecided
    BY <2>1, <2>2, <1>a DEF Undecided
  <2>4. CASE retryAttempt + 1 > maxRetries
    <3>1. Scheduled' \subseteq Scheduled
      BY <2>1, <2>2, <2>4, <1>a DEF Scheduled
    <3>2. QED BY <2>1, <2>3, <3>1, <1>0, <1>a, LessToDo
  <2>5. CASE retryAttempt + 1 <= maxRetries
    <3>1. Scheduled' = Scheduled \cup {r}
      BY <2>1, <2>2, <2>5, <1>a, Bounds DEF Scheduled
    <3>2. r \notin Scheduled
      BY <2>1, <2>2 DEF Scheduled
    <3>3. ASSUME NEW q \in {0} \cup Prompts
          PROVE  /\ q = origin[r] => Granted(q)' = Granted(q) + 1
                 /\ q # origin[r] => Granted(q)' = Granted(q)
                 /\ Granted(q) \in Int
      <4>1. /\ q = origin[r] => Mine(q)' = Mine(q) \cup {r} /\ r \notin Mine(q)
            /\ q # origin[r] => Mine(q)' = Mine(q)
        BY <2>1, <3>1, <3>2 DEF Mine
      <4>2. q = origin[r] => Cardinality(Mine(q)') = Cardinality(Mine(q)) + 1
        BY <4>1, MineFinite, FS_AddElement
      <4>3. UNCHANGED retries /\ retries[q] \in Int
        BY <2>1, <1>a
      <4>4. QED BY <4>1, <4>2, <4>3, MineFinite DEF Granted
    <3>4. origin[r] \in {0} \cup Prompts /\ Granted(origin[r]) <= retryAttempt
      BY <2>3, <1>0, <1>a DEF Budget
    <3>5. ASSUME NEW q \in {0} \cup Prompts PROVE Granted(q)' <= maxRetries
      BY <3>3, <3>4, <2>5, <1>0, <1>a, Bounds DEF Budget
    <3>6. ASSUME NEW q \in {0} \cup Prompts, NEW u \in Scheduled' \cup Undecided', origin[u] = q
          PROVE  Granted(q)' <= retryAttempt + 1
      <4>1. CASE q = origin[r]
        BY <3>3, <3>4, <4>1, <1>a
      <4>2. CASE q # origin[r]
        <5>1. u \in Scheduled \cup Undecided
          BY <3>1, <2>3, <3>6, <4>2
        <5>2. QED BY <3>3, <3>6, <4>2, <5>1, <1>0, <1>a DEF Budget
      <4>3. QED BY <4>1, <4>2
    <3>7. QED BY <2>1, <3>5, <3>6 DEF Budget
  <2>6. QED BY <2>4, <2>5, <1>a, Bounds
<1>10. ASSUME NEW r \in Runs, Sleep(r) PROVE Budget'
  <2>1. /\ handler[r] = "deciding" /\ handler' = [handler EXCEPT ![r] = "sleeping"]
        /\ UNCHANGED <<task, handledAt, streaming, origin, retries, retryAttempt>>
    BY <1>10 DEF Sleep, taskVars, historyVars
  <2>2. Scheduled' \subseteq Scheduled /\ Undecided' \subseteq Undecided
    BY <2>1, <1>a DEF Scheduled, Undecided
  <2>3. QED BY <2>1, <2>2, <1>0, <1>a, LessToDo
<1>11. ASSUME NEW r \in Runs, WakeUp(r) PROVE Budget'
  <2>1. /\ handler[r] = "sleeping" /\ handler' = [handler EXCEPT ![r] = "done"]
        /\ task' = [task EXCEPT ![r] = "delay"]
        /\ UNCHANGED <<handledAt, streaming, origin, retries, retryAttempt>>
    BY <1>11 DEF WakeUp, EndHandler, agentVars, historyVars
  <2>2. Scheduled' \subseteq Scheduled /\ Undecided' \subseteq Undecided
    BY <2>1, <1>a DEF Scheduled, Undecided
  <2>3. QED BY <2>1, <2>2, <1>0, <1>a, LessToDo
<1>12. ASSUME NEW r \in Runs, SkipTask(r) \/ BeginTask(r) \/ Refuse(r) PROVE Budget'
  <2>1. /\ task[r] \in {"delay", "restoring"}
        /\ \E t \in {"restoring", "done"} : task' = [task EXCEPT ![r] = t]
        /\ UNCHANGED <<handler, handledAt, streaming, origin, retries, retryAttempt>>
    BY <1>12, TaskKeeps DEF SkipTask, BeginTask, Refuse
  <2>2. Scheduled' \subseteq Scheduled /\ Undecided' \subseteq Undecided
    BY <2>1, <1>a DEF Scheduled, Undecided
  <2>3. QED BY <2>1, <2>2, <1>0, <1>a, LessToDo
<1>13. ASSUME NEW r \in Runs, Continue(r), handledAt[r] # Any PROVE Budget'
  <2>1. /\ runs + 1 \in Runs /\ streaming = 0 /\ streaming' = runs + 1
        /\ origin' = [origin EXCEPT ![runs + 1] = origin[r]]
        /\ retries' = [retries EXCEPT ![origin[r]] = @ + 1]
        /\ task[r] = "restoring" /\ task' = [task EXCEPT ![r] = "running"]
        /\ UNCHANGED <<handler, handledAt, retryAttempt>>
    BY <1>13, <1>a, Bounds DEF Continue, BeginRun, Runs, sessionVars, handlerVars
  <2>2. handler[runs + 1] = "none" /\ task[runs + 1] = "none" /\ runs + 1 \notin Scheduled
    <3>1. handler[runs + 1] = "none" /\ task[runs + 1] = "none"
      BY <2>1, <1>a, <1>b
    <3>2. QED BY <3>1 DEF Scheduled
  <2>3. r \in Scheduled /\ Scheduled' = Scheduled \ {r}
    <3>1. handler[r] = "done"
      BY <2>1, <1>b
    <3>2. QED BY <1>13, <2>1, <3>1, <1>a DEF Scheduled
  <2>4. Undecided' \subseteq Undecided \cup {runs + 1}
    BY <2>1 DEF Undecided
  <2>5. origin[r] \in {0} \cup Prompts /\ Granted(origin[r]) <= retryAttempt
    BY <2>3, <1>0, <1>a DEF Budget
  <2>6. ASSUME NEW q \in {0} \cup Prompts PROVE Granted(q)' = Granted(q)
    <3>1. \A u \in Scheduled : origin'[u] = origin[u]
      BY <2>1, <2>2, <1>a DEF Scheduled
    <3>2. CASE q = origin[r]
      <4>1. Mine(q)' = Mine(q) \ {r} /\ r \in Mine(q)
        BY <2>3, <3>1, <3>2 DEF Mine
      <4>2. Cardinality(Mine(q)') = Cardinality(Mine(q)) - 1
        BY <4>1, MineFinite, FS_RemoveElement
      <4>3. retries'[q] = retries[q] + 1 /\ retries[q] \in Int
        BY <2>1, <3>2, <1>a
      <4>4. QED BY <4>2, <4>3, MineFinite DEF Granted
    <3>3. CASE q # origin[r]
      <4>1. Mine(q)' = Mine(q)
        BY <2>3, <3>1, <3>3 DEF Mine
      <4>2. retries'[q] = retries[q]
        BY <2>1, <3>3, <1>a
      <4>3. QED BY <4>1, <4>2 DEF Granted
    <3>4. QED BY <3>2, <3>3
  <2>7. ASSUME NEW q \in {0} \cup Prompts, NEW u \in Scheduled' \cup Undecided', origin'[u] = q
        PROVE  Granted(q) <= retryAttempt
    <3>1. CASE u = runs + 1
      BY <2>1, <2>5, <2>7, <3>1, <1>a
    <3>2. CASE u # runs + 1
      BY <2>1, <2>3, <2>4, <2>7, <3>2, <1>a, <1>0 DEF Budget, Undecided, Scheduled
    <3>3. QED BY <3>1, <3>2
  <2>8. QED BY <2>1, <2>6, <2>7, <1>0 DEF Budget
<1>14. ASSUME NEW r \in Runs, Continue(r), handledAt[r] = Any PROVE Budget'
  <2>1. /\ runs + 1 \in Runs /\ streaming = 0 /\ streaming' = runs + 1
        /\ origin' = [origin EXCEPT ![runs + 1] = 0]
        /\ retries' = [retries EXCEPT ![0] = 0]
        /\ task' = [task EXCEPT ![r] = "running"]
        /\ UNCHANGED <<handler, handledAt, retryAttempt>>
    BY <1>14, <1>a, Bounds DEF Continue, BeginRun, Runs, sessionVars, handlerVars
  <2>2. runs + 1 \notin Scheduled
    <3>1. handler[runs + 1] = "none" /\ task[runs + 1] = "none"
      BY <2>1, <1>a, <1>b
    <3>2. QED BY <3>1 DEF Scheduled
  <2>3. Scheduled' = Scheduled /\ \A q : Mine(q)' = Mine(q)
    <3>1. Scheduled' = Scheduled
      BY <1>14, <2>1, <1>a DEF Scheduled
    <3>2. \A u \in Scheduled : origin'[u] = origin[u]
      BY <2>1, <2>2, <1>a DEF Scheduled
    <3>3. QED BY <3>1, <3>2 DEF Mine
  <2>4. Undecided' \subseteq Undecided \cup {runs + 1}
    BY <2>1 DEF Undecided
  <2>5. ASSUME NEW q \in {0} \cup Prompts
        PROVE  Granted(q) \in Int /\ Granted(q)' \in Int /\ Granted(q)' <= Granted(q)
    <3>1. retries[q] \in Nat /\ retries'[q] \in {0, retries[q]}
      BY <2>1, <1>a
    <3>2. QED BY <2>3, <3>1, MineFinite DEF Granted
  <2>6. ASSUME NEW q \in {0} \cup Prompts, NEW u \in Scheduled' \cup Undecided', origin'[u] = q
        PROVE  Granted(q)' <= retryAttempt
    <3>1. CASE u # runs + 1
      <4>1. Granted(q) <= retryAttempt
        BY <2>1, <2>3, <2>4, <2>6, <3>1, <1>a, <1>0 DEF Budget, Undecided, Scheduled
      <4>2. QED BY <4>1, <2>5, <1>a
    <3>2. CASE u = runs + 1 /\ Mine(0) = {}
      <4>1. q = 0 /\ retries'[0] = 0 /\ Mine(0)' = {}
        BY <2>1, <2>3, <2>6, <3>2, <1>a
      <4>2. QED BY <4>1, <1>a, FS_EmptySet DEF Granted
    <3>3. CASE u = runs + 1 /\ Mine(0) # {}
      <4>1. q = 0
        BY <2>1, <2>6, <3>3, <1>a
      <4>2. Granted(0) <= retryAttempt
        BY <3>3, <1>0 DEF Budget, Mine
      <4>3. QED BY <4>1, <4>2, <2>5, <1>a
    <3>4. QED BY <3>1, <3>2, <3>3
  <2>7. \A q \in {0} \cup Prompts : Granted(q)' <= maxRetries
    BY <2>5, <1>0, Bounds DEF Budget
  <2>8. QED BY <2>1, <2>6, <2>7 DEF Budget
<1>15. CASE Retry
  <2>1. /\ streaming = 0 /\ last \in Runs /\ task[last] = "none" /\ handler[last] = "done"
        /\ task' = [task EXCEPT ![last] = "delay"]
        /\ handledAt' = [handledAt EXCEPT ![last] = Any]
        /\ retryAttempt' = 0 /\ ~Forgets(last)
        /\ UNCHANGED <<handler, streaming, origin, retries>>
    BY <1>15 DEF Retry, Race, isStreaming
  <2>2. last \in Runs
    BY <2>1
  <2>3. Scheduled' \subseteq Scheduled \ {last}
    BY <2>1, <2>2, <1>a DEF Scheduled
  <2>4. Undecided' \subseteq Undecided \ {last}
    BY <2>1, <2>2, <1>a DEF Undecided, Runs
  <2>5. QED BY <2>1, <2>3, <2>4, <1>0, Reset
<1>16. CASE Abort \/ Drained \/ EndAbort \/ UNCHANGED vars
  <2>1. UNCHANGED <<handler, task, handledAt, streaming, origin, retries, retryAttempt>>
    BY <1>16 DEF Abort, Drained, EndAbort, vars, agentVars, handlerVars, taskVars, sessionVars,
       historyVars
  <2>2. QED BY <1>1, <2>1
<1>17. ASSUME NEW p \in Prompts, Prompt(p) \/ BailOut(p) \/ Queue(p) \/ TimeOut(p) \/ Return(p)
       PROVE Budget'
  <2>1. UNCHANGED <<handler, task, handledAt, streaming, origin, retries, retryAttempt>>
    BY <1>17, PromptKeeps
  <2>2. QED BY <1>1, <2>1
<1>18. CASE Answer
  <2>1. UNCHANGED retryAttempt /\ \A p \in {0} \cup Prompts : retries'[p] \in {0, retries[p]}
    BY <1>18, MessageCounts DEF Answer, sessionVars
  <2>2. UNCHANGED <<handler, task, handledAt, streaming, origin>>
    BY <1>18, MessageKeeps
  <2>3. Scheduled' = Scheduled /\ Undecided' = Undecided
    BY <2>2 DEF Scheduled, Undecided
  <2>4. QED BY <2>1, <2>2, <2>3, <1>0, <1>a, LessToDo
<1>19. ASSUME NEW r \in Runs, EndCount(r) PROVE Budget'
  <2>1. retryAttempt' = 0 /\ ~Forgets(0) /\ UNCHANGED retries
    BY <1>19 DEF EndCount, Race
  <2>2. UNCHANGED <<handler, task, handledAt, streaming, origin>>
    BY <1>19, MessageKeeps
  <2>3. /\ Scheduled' = Scheduled /\ Scheduled \subseteq Runs
        /\ Undecided' = Undecided /\ Undecided \subseteq Runs
    BY <2>2 DEF Scheduled, Undecided
  <2>4. Scheduled' \subseteq Scheduled \ {0} /\ Undecided' \subseteq Undecided \ {0}
    BY <2>3, <1>b
  <2>5. QED BY <2>1, <2>2, <2>4, <1>0, Reset
<1>20. QED
  BY <1>2, <1>3, <1>5, <1>6, <1>7, <1>8, <1>9, <1>10, <1>11, <1>12, <1>13, <1>14, <1>15, <1>16,
     <1>17, <1>18, <1>19 DEF Next, HandlerStep, TaskStep, PromptStep, AbortStep

(***************************************************************************)
(* What a prompt leaves behind.                                            *)
(***************************************************************************)
(* A promise is resolved under another handler only with a mishap.        *)
LEMMA PromisedStep == Shape /\ Promised /\ [Next]_vars => Promised'
<1> SUFFICES ASSUME Shape, Promised, [Next]_vars, races' = "won" PROVE Promised'
  BY DEF Promised
<1>0. \A r \in Retrying : retryPending \/ handledAt[r] < promptGeneration
  BY RacesStay DEF Promised
<1>a. /\ DOMAIN handler = Runs /\ DOMAIN handledAt = Runs
      /\ streaming \in {0} \cup Runs
      /\ promptGeneration \in Int
      /\ \A r \in Runs : handledAt[r] \in Int /\ handledAt[r] <= promptGeneration
  BY Bounds DEF Shape, TypeOK, SessionTypes, AgentTypes, HandlerTypes, Generations, Any
<1>1. ASSUME NEW r \in Runs, Decide(r) PROVE Promised'
  <2>1. retryPending' = TRUE
    BY <1>1 DEF Decide
  <2>2. QED BY <2>1 DEF Promised
<1>2. ASSUME NEW r \in Runs, handler' = [handler EXCEPT ![r] = "done"], ~Resolves(r)
      PROVE  Promised'
  <2>1. Retrying' = {}
    <3>1. Retrying \ {r} = {}
      BY <1>2 DEF Resolves
    <3>2. QED BY <1>2, <3>1, <1>a DEF Retrying
  <2>2. QED BY <2>1 DEF Promised
<1>3. ASSUME NEW r \in Runs, Finish(r) \/ GiveUp(r) PROVE Promised'
  <2>1. handler' = [handler EXCEPT ![r] = "done"] /\ ~Resolves(r)
    BY <1>3 DEF Finish, GiveUp, EndHandler, Race
  <2>2. QED BY <2>1, <1>2
<1>4. ASSUME Retrying' \subseteq Retrying, UNCHANGED <<handledAt, retryPending, promptGeneration>>
      PROVE  Promised'
  BY <1>0, <1>4 DEF Promised
<1>5. ASSUME NEW r \in Runs, Awakened(r) PROVE Promised'
  <2>1. CASE controller = r
    <3>1. /\ handler[r] = "sleeping" /\ handler' = [handler EXCEPT ![r] = "cancelled"]
          /\ UNCHANGED <<handledAt, retryPending, promptGeneration>>
      BY <1>5, <2>1 DEF Awakened
    <3>2. Retrying' \subseteq Retrying
      BY <3>1, <1>a DEF Retrying
    <3>3. QED BY <1>4, <3>1, <3>2
  <2>2. CASE controller # r
    <3>1. handler' = [handler EXCEPT ![r] = "done"] /\ ~Resolves(r)
      BY <1>5, <2>2 DEF Awakened, EndHandler, Race
    <3>2. QED BY <3>1, <1>2
  <2>3. QED BY <2>1, <2>2
<1>6. ASSUME NEW r \in Runs, Leave(r) \/ FailFast(r) \/ Sleep(r) \/ WakeUp(r) PROVE Promised'
  <2>1. /\ \/ handler[r] \in {"deciding", "sleeping"} /\ \E h : handler' = [handler EXCEPT ![r] = h]
           \/ handler' = [handler EXCEPT ![r] = "done"]
        /\ UNCHANGED <<handledAt, retryPending, promptGeneration>>
    BY <1>6 DEF Leave, sessionVars, FailFast, Sleep, WakeUp, EndHandler
  <2>2. Retrying' \subseteq Retrying
    BY <2>1, <1>a DEF Retrying
  <2>3. QED BY <1>4, <2>1, <2>2
<1>7. CASE EndRun
  <2>1. /\ \E o \in StopReasons : handler' = [handler EXCEPT ![streaming] = o]
        /\ UNCHANGED <<handledAt, retryPending, promptGeneration>>
    BY <1>7 DEF EndRun, StopReasons, sessionVars
  <2>2. Retrying' \subseteq Retrying
    BY <2>1, <1>a DEF Retrying, StopReasons
  <2>3. QED BY <1>4, <2>1, <2>2
<1>8. CASE Retry
  <2>1. /\ handler[last] = "done" /\ handledAt' = [handledAt EXCEPT ![last] = Any]
        /\ UNCHANGED <<handler, retryPending, promptGeneration>>
    BY <1>8 DEF Retry
  <2>2. QED BY <2>1, <1>0, <1>a DEF Promised, Retrying
<1>9. CASE Abort
  <2>1. promptGeneration' = promptGeneration + 1 /\ UNCHANGED <<handler, handledAt>>
    BY <1>9 DEF Abort
  <2>2. QED BY <2>1, <1>a DEF Promised, Retrying
<1>10. ASSUME UNCHANGED <<handler, handledAt, retryPending, promptGeneration>> PROVE Promised'
  BY <1>10, <1>4 DEF Retrying
<1>11. ASSUME NEW p \in Prompts, Prompt(p) \/ PromptStep(p)
       PROVE  UNCHANGED <<handler, handledAt, retryPending, promptGeneration>>
  BY <1>11, PromptKeeps DEF PromptStep, Prompt, BailOut, StartPrompt, Return, sessionVars, handlerVars
<1>12. ASSUME NEW r \in Runs, TaskStep(r)
       PROVE  UNCHANGED <<handler, handledAt, retryPending, promptGeneration>>
  BY <1>12 DEF TaskStep, SkipTask, BeginTask, Refuse, Continue, sessionVars, handlerVars
<1>13. CASE AbortStep \/ UNCHANGED vars
  BY <1>10, <1>13 DEF AbortStep, Drained, EndAbort, vars, sessionVars, handlerVars
<1>14. CASE Answer \/ \E r \in Runs : EndCount(r)
  BY <1>10, <1>14, MessageKeeps
<1>15. QED
  BY <1>1, <1>3, <1>5, <1>6, <1>7, <1>8, <1>9, <1>10, <1>11, <1>12, <1>13, <1>14 DEF Next, HandlerStep

(* A prompt returns after all that is its own, and nothing of it begins.  *)
LEMMA PastStep ==
    Shape /\ NotBegun /\ Promised /\ Past /\ [Next]_vars => Past'
<1> SUFFICES ASSUME Shape, NotBegun, Promised, Past, [Next]_vars, races' = "won" PROVE Past'
  BY DEF Past
<1> DEFINE Over(r) ==
      /\ streaming # r
      /\ task[r] \in {"none", "done"} \/ handledAt[r] = Any \/ (task[r] = "delay" /\ Skipped(r))
      /\ handler[r] = "error" => startedAt[r] < promptGeneration
      /\ r \in Retrying => handledAt[r] < promptGeneration
<1>0. races = "won" /\ \A r \in Runs : origin[r] # 0 /\ prompt[origin[r]] = "returned" => Over(r)
  BY RacesStay DEF Past
<1>a. /\ DOMAIN handler = Runs /\ DOMAIN task = Runs /\ DOMAIN handledAt = Runs
      /\ DOMAIN startedAt = Runs /\ DOMAIN prompt = Prompts
      /\ origin \in [Runs -> {0} \cup Prompts] /\ runs \in Nat 
      /\ streaming \in {0} \cup Runs /\ promptGeneration \in Int
  BY Bounds DEF Shape, TypeOK, SessionTypes, AgentTypes, PromptTypes, HandlerTypes, TaskTypes
<1>b. /\ \A r \in Runs : r > runs => handler[r] = "none"
      /\ \A r \in Runs : task[r] # "none" => handler[r] = "done"
      /\ streaming # 0 => handler[streaming] = "none"
      /\ \A r \in Runs : r \in Nat \ {0}
      /\ \A r \in Runs : handledAt[r] \in Int /\ handledAt[r] <= promptGeneration
      /\ \A r \in Runs : handledAt[r] = Any => handler[r] = "done"
      /\ \A r \in Runs : startedAt[r] \in Int /\ startedAt[r] <= promptGeneration
  BY Bounds DEF Shape, TypeOK, AgentTypes, HandlerTypes, RunsInOrder, Generations, Runs, Any
(* For every run but r everything is as it was.                            *)
<1>1. ASSUME NEW r \in Runs,
             \A u \in Runs \ {r} : /\ task'[u] = task[u] /\ handledAt'[u] = handledAt[u]
                                   /\ handler'[u] = handler[u],
             UNCHANGED <<streaming, origin, startedAt, prompt, taskAborted, promptGeneration>>,
             origin[r] # 0 /\ prompt[origin[r]] = "returned" => Over(r)'
      PROVE  Past'
  <2>1. ASSUME NEW u \in Runs \ {r}, Over(u) PROVE Over(u)'
    BY <1>1, <2>1 DEF Skipped, Retrying
  <2>2. QED BY <1>0, <1>1, <2>1 DEF Past
<1>2. ASSUME UNCHANGED <<task, handledAt, handler, streaming, origin, startedAt, taskAborted,
                         promptGeneration>>,
             \A p \in Prompts : prompt'[p] = "returned" => prompt[p] = "returned"
      PROVE  Past'
  <2>1. ASSUME NEW u \in Runs, Over(u) PROVE Over(u)'
    BY <1>2, <2>1 DEF Skipped, Retrying
  <2>2. QED BY <1>0, <1>a, <1>2, <2>1 DEF Past
<1>3. ASSUME NEW p \in Prompts, Prompt(p) \/ Queue(p) PROVE Past'
  <2>1. /\ \E t \in {"setup", "queued"} : prompt' = [prompt EXCEPT ![p] = t]
        /\ UNCHANGED <<task, handledAt, handler, streaming, origin, startedAt, taskAborted,
                       promptGeneration>>
    BY <1>3, PromptKeeps DEF Prompt, Queue
  <2>2. QED BY <1>2, <1>a, <2>1
<1>4. ASSUME NEW p \in Prompts, BailOut(p) \/ TimeOut(p) PROVE Past'
  <2>1. /\ prompt[p] \in {"setup", "queued"} /\ prompt' = [prompt EXCEPT ![p] = "returned"]
        /\ UNCHANGED <<task, handledAt, handler, streaming, origin, startedAt, taskAborted,
                       promptGeneration>>
    BY <1>4, PromptKeeps DEF BailOut, TimeOut
  <2>2. \A u \in Runs : origin[u] # p
    BY <2>1 DEF NotBegun
  <2>3. ASSUME NEW u \in Runs, Over(u) PROVE Over(u)'
    BY <2>1, <2>3 DEF Skipped, Retrying
  <2>4. QED BY <1>0, <1>a, <2>1, <2>2, <2>3 DEF Past
<1>5. ASSUME NEW p \in Prompts, Return(p) PROVE Past'
  <2>1. /\ ~retryPending /\ PendingTasks = {} /\ streaming = 0 /\ ~Premature(p)
        /\ prompt' = [prompt EXCEPT ![p] = "returned"]
        /\ UNCHANGED <<task, handledAt, handler, streaming, origin, startedAt, taskAborted,
                       promptGeneration>>
    BY <1>5, PromptKeeps DEF Return, Settled, Race
  <2>2. ASSUME NEW u \in Runs, origin[u] = p PROVE Over(u)
    <3>1. streaming # u /\ task[u] \in {"none", "done"}
      BY <2>1, <1>b DEF PendingTasks
    <3>2. ASSUME handler[u] = "error" PROVE startedAt[u] < promptGeneration
      <4>1. startedAt[u] # promptGeneration
        BY <2>1, <2>2, <3>2 DEF Premature
      <4>2. QED BY <1>a, <1>b, <4>1
    <3>3. ASSUME u \in Retrying PROVE handledAt[u] < promptGeneration
      BY <1>0, <2>1, <3>3 DEF Promised
    <3>4. QED BY <3>1, <3>2, <3>3
  <2>3. ASSUME NEW u \in Runs, Over(u) PROVE Over(u)'
    BY <2>1, <2>3 DEF Skipped, Retrying
  <2>4. QED BY <1>0, <1>a, <2>1, <2>2, <2>3 DEF Past
(* A run begins for a prompt that has not returned, or for the user.       *)
<1>6. ASSUME NEW n \in {0} \cup Prompts, n # 0 => prompt'[n] # "returned",
             runs + 1 \in Runs, streaming' = runs + 1,
             origin' = [origin EXCEPT ![runs + 1] = n],
             startedAt' = [startedAt EXCEPT ![runs + 1] = promptGeneration],
             \A q \in Prompts : prompt'[q] = "returned" => prompt[q] = "returned",
             \A u \in Runs : origin[u] # 0 /\ prompt[origin[u]] = "returned"
                             => task'[u] = task[u] \/ handledAt[u] = Any,
             UNCHANGED <<handler, handledAt, taskAborted, promptGeneration>>
      PROVE  Past'
  <2>1. ASSUME NEW u \in Runs, u # runs + 1, origin[u] # 0, prompt'[origin[u]] = "returned" PROVE Over(u)'
    <3>1. Over(u) /\ (task'[u] = task[u] \/ handledAt[u] = Any) /\ startedAt'[u] = startedAt[u]
      BY <1>0, <1>6, <1>a, <2>1
    <3>2. QED BY <1>6, <2>1, <3>1 DEF Skipped, Retrying
  <2>2. QED BY <1>6, <1>a, <2>1 DEF Past
<1>7. ASSUME NEW p \in Prompts, StartPrompt(p) PROVE Past'
  <2>1. /\ runs + 1 \in Runs /\ streaming' = runs + 1
        /\ prompt' = [prompt EXCEPT ![p] = "running"]
        /\ origin' = [origin EXCEPT ![runs + 1] = p]
        /\ startedAt' = [startedAt EXCEPT ![runs + 1] = promptGeneration]
        /\ UNCHANGED <<handler, task, handledAt, taskAborted, promptGeneration>>
    BY <1>7, <1>a, Bounds DEF StartPrompt, MayStart, BeginRun, Runs, sessionVars, handlerVars, taskVars
  <2>2. QED BY <1>6, <1>a, <2>1
<1>8. ASSUME NEW r \in Runs, Continue(r) PROVE Past'
  <2>1. /\ runs + 1 \in Runs /\ streaming = 0 /\ streaming' = runs + 1 /\ task[r] = "restoring"
        /\ origin' = [origin EXCEPT ![runs + 1] = IF handledAt[r] = Any THEN 0 ELSE origin[r]]
        /\ startedAt' = [startedAt EXCEPT ![runs + 1] = promptGeneration]
        /\ task' = [task EXCEPT ![r] = "running"]
        /\ UNCHANGED <<handler, handledAt, prompt, taskAborted, promptGeneration>>
    BY <1>8, <1>a, Bounds DEF Continue, BeginRun, Runs, sessionVars, handlerVars, promptVars
  <2>2. origin[r] # 0 /\ prompt[origin[r]] = "returned" => handledAt[r] = Any
    BY <1>0, <2>1
  <2>3. \A u \in Runs : origin[u] # 0 /\ prompt[origin[u]] = "returned"
                        => task'[u] = task[u] \/ handledAt[u] = Any
    BY <1>a, <2>1, <2>2
  <2>4. CASE handledAt[r] = Any
    BY <1>6, <2>1, <2>3, <2>4
  <2>5. CASE handledAt[r] # Any
    BY <1>6, <1>a, <2>1, <2>2, <2>3, <2>5
  <2>6. QED BY <2>4, <2>5
<1>9. CASE EndRun
  <2>1. /\ streaming # 0 /\ streaming' = 0
        /\ \E o \in StopReasons : handler' = [handler EXCEPT ![streaming] = o]
        /\ \A u \in Runs : task'[u] = IF task[u] = "running" THEN "done" ELSE task[u]
        /\ \A p \in Prompts : prompt'[p] = "returned" => prompt[p] = "returned"
        /\ UNCHANGED <<handledAt, origin, startedAt, taskAborted, promptGeneration>>
    BY <1>9, <1>a DEF EndRun, StopReasons, sessionVars
  <2>2. ASSUME NEW u \in Runs, u # streaming, Over(u) PROVE Over(u)'
    <3>1. handler'[u] = handler[u]
      BY <1>a, <2>1, <2>2
    <3>2. QED BY <1>b, <2>1, <2>2, <3>1 DEF Skipped, Retrying
  <2>3. QED BY <1>0, <1>a, <2>1, <2>2 DEF Past
<1>10. ASSUME NEW r \in Runs, Decide(r) PROVE Past'
  <2>0. handler[r] = "error" /\ promptGeneration = startedAt[r]
    BY <1>10, MistakenNot
  <2>1. /\ handledAt' = [handledAt EXCEPT ![r] = promptGeneration]
        /\ \E h : handler' = [handler EXCEPT ![r] = h]
        /\ UNCHANGED <<task, streaming, origin, startedAt, prompt, taskAborted, promptGeneration>>
    BY <1>10 DEF Decide, agentVars, promptVars, messageVars, taskVars
  <2>3. ~(origin[r] # 0 /\ prompt[origin[r]] = "returned")
    BY <1>0, <1>a, <1>b, <2>0
  <2>4. \A u \in Runs \ {r} : handledAt'[u] = handledAt[u] /\ handler'[u] = handler[u]
    BY <1>a, <2>1
  <2>5. QED BY <1>1, <2>1, <2>3, <2>4
<1>11. ASSUME NEW r \in Runs, Leave(r) \/ Finish(r) \/ GiveUp(r) \/ FailFast(r) \/ Sleep(r) \/ Awakened(r)
       PROVE  Past'
  <2>1. /\ \/ handler' = [handler EXCEPT ![r] = "done"]
           \/ r \in Retrying /\ \E h \in {"sleeping", "cancelled"} : handler' = [handler EXCEPT ![r] = h]
        /\ UNCHANGED <<task, handledAt, streaming, origin, startedAt, prompt, taskAborted,
                       promptGeneration>>
    BY <1>11, LeaveDoes DEF Finish, GiveUp, FailFast, Sleep, Awakened, EndHandler, Retrying,
       agentVars, promptVars, messageVars, taskVars
  <2>2. \A u \in Runs \ {r} : handler'[u] = handler[u]
    BY <1>a, <2>1
  <2>3. ASSUME Over(r) PROVE Over(r)'
    <3>1. handler'[r] # "error" /\ (r \in Retrying' => r \in Retrying)
      BY <1>a, <2>1 DEF Retrying
    <3>2. QED BY <2>1, <2>3, <3>1 DEF Skipped
  <2>4. QED BY <1>0, <1>1, <2>1, <2>2, <2>3
<1>12. ASSUME NEW r \in Runs, WakeUp(r) PROVE Past'
  <2>1. /\ handler[r] = "sleeping" /\ handler' = [handler EXCEPT ![r] = "done"]
        /\ task' = [task EXCEPT ![r] = "delay"]
        /\ UNCHANGED <<handledAt, streaming, origin, startedAt, prompt, taskAborted,
                       promptGeneration>>
    BY <1>12 DEF WakeUp, EndHandler, agentVars, promptVars
  <2>2. \A u \in Runs \ {r} : handler'[u] = handler[u] /\ task'[u] = task[u]
    BY <1>a, <2>1
  <2>3. ASSUME Over(r) PROVE Over(r)'
    <3>1. handledAt[r] < promptGeneration /\ handledAt[r] # Any
      BY <1>b, <2>1, <2>3 DEF Retrying
    <3>2. handler'[r] = "done" /\ task'[r] = "delay" /\ Skipped(r)'
      BY <1>a, <1>b, <2>1, <3>1 DEF Skipped
    <3>3. QED BY <2>1, <2>3, <3>2 DEF Retrying
  <2>4. QED BY <1>0, <1>1, <2>1, <2>2, <2>3
<1>13. ASSUME NEW r \in Runs, SkipTask(r) \/ BeginTask(r) \/ Refuse(r) PROVE Past'
  <2>1. /\ task'[r] = "done" \/ (task[r] = "delay" /\ ~Skipped(r))
        /\ \A u \in Runs \ {r} : task'[u] = task[u]
    BY <1>13, <1>a DEF SkipTask, BeginTask, Refuse
  <2>2. UNCHANGED <<handler, handledAt, streaming, origin, startedAt, prompt, taskAborted,
                    promptGeneration>>
    BY <1>13, TaskKeeps
  <2>3. ASSUME Over(r) PROVE Over(r)'
    BY <2>1, <2>2, <2>3 DEF Retrying
  <2>4. QED BY <1>0, <1>1, <2>1, <2>2, <2>3
<1>14. CASE Retry
  <2>0. PICK r \in Runs : r = last
    BY <1>14 DEF Retry
  <2>1. /\ handler[r] = "done"
        /\ handledAt' = [handledAt EXCEPT ![r] = Any] /\ task' = [task EXCEPT ![r] = "delay"]
        /\ UNCHANGED <<handler, streaming, origin, startedAt, prompt, taskAborted,
                       promptGeneration>>
    BY <1>14, <2>0 DEF Retry, promptVars
  <2>2. \A u \in Runs \ {r} : handledAt'[u] = handledAt[u] /\ task'[u] = task[u]
    BY <1>a, <2>1
  <2>3. ASSUME Over(r) PROVE Over(r)'
    BY <1>a, <2>1, <2>3 DEF Retrying
  <2>4. QED BY <1>0, <1>1, <2>1, <2>2, <2>3
<1>15. CASE Abort
  <2>1. /\ promptGeneration' = promptGeneration + 1 /\ taskAborted \subseteq taskAborted'
        /\ UNCHANGED <<handler, task, handledAt, streaming, origin, startedAt, prompt>>
    BY <1>15 DEF Abort, promptVars
  <2>2. ASSUME NEW u \in Runs, Over(u) PROVE Over(u)'
    <3>1. handledAt[u] # Any => Skipped(u)'
      BY <1>a, <1>b, <2>1 DEF Skipped
    <3>2. QED BY <1>a, <1>b, <2>1, <2>2, <3>1 DEF Retrying
  <2>3. QED BY <1>0, <2>1, <2>2 DEF Past
<1>16. CASE AbortStep \/ UNCHANGED vars
  <2>1. UNCHANGED <<task, handledAt, handler, streaming, origin, startedAt, prompt,
                    taskAborted, promptGeneration>>
    BY <1>16 DEF AbortStep, Drained, EndAbort, vars, sessionVars, agentVars, promptVars, messageVars, handlerVars,
       taskVars
  <2>2. QED BY <1>2, <2>1
<1>17. CASE Answer \/ \E r \in Runs : EndCount(r)
  BY <1>2, <1>17, MessageKeeps
<1>18. QED
  BY <1>3, <1>4, <1>5, <1>7, <1>8, <1>9, <1>10, <1>11, <1>12, <1>13, <1>14, <1>15, <1>16, <1>17 DEF Next,
     HandlerStep, TaskStep, PromptStep

(***************************************************************************)
(* The theorems.                                                           *)
(***************************************************************************)
(* The strengthening is an invariant.                                      *)
THEOREM TurnsInductive == Spec => []IInv
<1>1. Init => IInv
  <2> SUFFICES ASSUME Init PROVE IInv
    OBVIOUS
  <2>1. StoppedStay
    BY DEF Init, StoppedStay
  <2>2. LivePrompts = {} /\ inFlight = 0
    BY DEF Init, LivePrompts
  <2>3. Attempts
    <3>1. Scheduled = {} /\ Undecided = {} /\ NotBegun
      BY Bounds DEF Init, Scheduled, Undecided, NotBegun, Runs, Prompts
    <3>2. \A p \in {0} \cup Prompts : Granted(p) = 0
      <4>1. \A p : Mine(p) = {}
        BY <3>1 DEF Mine
      <4>2. QED BY <4>1, FS_EmptySet DEF Init, Granted
    <3>3. QED BY <3>1, <3>2, Bounds DEF Attempts, Budget
  <2>4. Leftovers
    BY DEF Init, Leftovers, Promised, Past, Retrying
  <2>5. QED BY ShapeInit, <2>1, <2>2, <2>3, <2>4, FS_EmptySet DEF IInv, Counted
<1>2. IInv /\ [Next]_vars => IInv'
  <2> SUFFICES ASSUME IInv, [Next]_vars PROVE IInv'
    OBVIOUS
  <2>1. TypeOK'
    BY SessionTypesStep, FlagTypesStep, AgentTypesStep, MessageTypesStep, PromptTypesStep,
         HandlerTypesStep, TaskTypesStep, AbortTypesStep, HistoryTypesStep DEF
         IInv, Shape, TypeOK
  <2>2. Shape'
    BY <2>1, OrderStep, CountStep, GenerationsStep, TrackedStep DEF IInv, Shape
  <2>3. Attempts'
    BY NotBegunStep, BudgetStep DEF IInv, Attempts
  <2>4. Leftovers'
    BY PromisedStep, PastStep DEF IInv, Attempts, Leftovers
  <2>5. QED BY <2>2, <2>3, <2>4, StoppedStep, CountedStep DEF IInv
<1>3. QED BY <1>1, <1>2, PTL DEF Spec

(* The types are right, and a session with a prompt in it that was not     *)
(* aborted says that it is busy (agent-session.ts, #endInFlight and the    *)
(* reset in abort()), but for the race that abort() itself loses.          *)
THEOREM PromptsAreCounted == Spec => []CountInv
<1>1. IInv => CountInv
  <2> SUFFICES ASSUME IInv, races = "won", LivePrompts # {} PROVE inFlight > 0
    BY DEF IInv, Shape, CountInv, PromptIsCounted
  <2>1. Cardinality(LivePrompts) # 0
    BY LiveFinite, FS_EmptySet
  <2>2. inFlight >= Cardinality(LivePrompts) /\ inFlight \in Int
    BY Bounds DEF IInv, Counted, Shape, TypeOK, SessionTypes
  <2>3. QED BY <2>1, <2>2, LiveFinite
<1>2. QED BY TurnsInductive, <1>1, PTL

(* No retry that abort() has found before its last check starts another    *)
(* run (agent-session.ts, the checks of #schedulePostPromptTask), for any  *)
(* number of prompts, runs and calls of abort().                           *)
THEOREM AbortsStopRetries == Spec => AbortStopsRetries
<1>1. IInv /\ [Next]_vars => [\A r \in stopped : ~Continue(r)]_vars
  BY DEF IInv, StoppedStay, Continue
<1>2. QED BY TurnsInductive, <1>1, PTL DEF Spec, AbortStopsRetries

(* No prompt is tried again more than retry.maxRetries times in a row,     *)
(* without an answer between (agent-session.ts, the comparison in          *)
(* #handleRetryableError and the reset at each answer), although every run *)
(* shares one count of attempts: while anything of a prompt may be tried   *)
(* again, the count covers all that prompt has been granted.               *)
THEOREM RetriesAreBounded == Spec => []RetriesBounded
<1>1. IInv => RetriesBounded
  <2> SUFFICES ASSUME IInv, races = "won", NEW p \in Prompts \cup {0} PROVE retries[p] <= maxRetries
    BY DEF RetriesBounded
  <2>1. Granted(p) <= maxRetries
    BY DEF IInv, Attempts, Budget
  <2>2. retries[p] \in Int
    BY Bounds DEF IInv, Shape, TypeOK, HistoryTypes
  <2>3. QED BY <2>1, <2>2, MineFinite, Bounds DEF Granted
<1>2. QED BY TurnsInductive, <1>1, PTL

(* When prompt() has returned nothing of it comes after (agent-session.ts, *)
(* #waitForPostPromptRecovery): what is left has been aborted and will     *)
(* find so, or the user asked for it by retry().                           *)
THEOREM ReturnedStaysSettled == Spec => []ReturnedIsSettled
<1>1. IInv => ReturnedIsSettled
  <2>1. \A p \in Prompts : p # 0
    BY DEF Prompts
  <2>2. QED BY <2>1 DEF IInv, Leftovers, Past, ReturnedIsSettled
<1>2. QED BY TurnsInductive, <1>1, PTL
=============================================================================
