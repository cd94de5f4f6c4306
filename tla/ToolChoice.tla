----------------------------- MODULE ToolChoice -----------------------------
(***************************************************************************)
(* session/tool-choice-queue.ts and tools/resolve.ts: the choices the      *)
(* session forces on the model's next calls, and the previews of edits     *)
(* that wait in this queue until the model applies or discards them.       *)
(*                                                                         *)
(* The turns of the agent loop take a choice before each call of the       *)
(* model; the handler of turn_end, which nobody waits for, settles it      *)
(* after the extensions have been told; abort() settles what is left.  The *)
(* tool `resolve` runs the code of the preview that is in flight.  A       *)
(* choice is known by what it is for; the todo list a first prompt forces  *)
(* is among them.                                                          *)
(***************************************************************************)
EXTENDS Arrays, FiniteSetsExt

CONSTANTS
    MaxPreviews,  \* bound on the previews the model makes
    MaxTurns,     \* bound on the calls of the model
    MaxPrompts,   \* bound on the prompts
    MaxAborts,    \* bound on the calls of abort()
    MaxResolves   \* bound on the calls of resolve

ASSUME ChoiceAssumption ==
    {MaxPreviews, MaxTurns, MaxPrompts, MaxAborts, MaxResolves} \subseteq Nat

Previews == 1..MaxPreviews
Turns == 1..MaxTurns

VARIABLES
    queue,      \* #queue
    inFlight,   \* #inFlight, a set of at most one
    phase,      \* where the agent loop stands
    turn,       \* how many calls of the model have been begun
    ended,      \* the handler of turn_end of each turn, and how the turn ended
    stray,      \* a tool was left behind, and may still be at work
    prompting,  \* a prompt() is under way
    prompts,    \* counter
    abort,      \* where abort() stands
    aborts,     \* counter
    preview,    \* what has become of each preview
    calls,      \* the calls of resolve that are running
    called,     \* counter
    forced,     \* the user has forced a tool
    applied,    \* history: how often each preview was applied
    settled,    \* history: the choices of the user that were served, in order
    mishaps     \* history: see below

loopVars == <<phase, turn, ended, stray>>
promptVars == <<prompting, prompts>>
abortVars == <<abort, aborts>>
actionVars == <<preview, calls, called, applied>>
userVars == <<forced, settled>>
choiceVars == <<queue, inFlight, loopVars, promptVars, abortVars, actionVars, userVars, mishaps>>

(***************************************************************************)
(* Mishaps: what the queue does not exclude and some properties except.    *)
(*   overwritten  a choice was taken while another had not been settled: a *)
(*                leaked response is tried again, a run has thrown, or the *)
(*                handler is late                                          *)
(*   unanswered   the choice counts as served though resolve never ran:    *)
(*                the response was cut, the call skipped, or the handler   *)
(*                was that of an earlier turn                              *)
(*   abandoned    the choice is put back though resolve has been called:   *)
(*                the preview may be applied again                         *)
(*   repeated     resolve was called again with the choice in flight       *)
(*   kept         a preview could not be discarded                         *)
(***************************************************************************)
Also(name, cond) == mishaps' = mishaps \cup {m \in {name} : cond}

ChoiceInit ==
    /\ queue = <<>>
    /\ inFlight = {}
    /\ phase = "idle"
    /\ turn = 0
    /\ ended = [t \in Turns |-> "none"]
    /\ stray = FALSE
    /\ prompting = FALSE
    /\ prompts = 0
    /\ abort = "none"
    /\ aborts = 0
    /\ preview = [a \in Previews |-> "none"]
    /\ calls = {}
    /\ called = 0
    /\ forced = FALSE
    /\ applied = [a \in Previews |-> 0]
    /\ settled = <<>>
    /\ mishaps = {}

(***************************************************************************)
(* The queue.  A directive has a label, the preview it is for (0 for none) *)
(* and the choices its generator has left.                                 *)
(***************************************************************************)
Directive(label, a, left) == [label |-> label, preview |-> a, left |-> left]

Pending(a) == Directive("preview", a, <<"resolve">>)

(* nextToolChoice(): directives that are exhausted are dropped; when there *)
(* is none left, what is in flight stays.                                  *)
NextToolChoice ==
    LET some == {i \in DOMAIN queue : queue[i].left # <<>>}
        i    == Min(some)
        d    == queue[i]
    IN  IF some = {}
        THEN queue' = <<>> /\ UNCHANGED <<inFlight, mishaps>>
        ELSE /\ queue' = <<[d EXCEPT !.left = Tail(@)]>> \o SubSeq(queue, i + 1, Len(queue))
             /\ inFlight' = {[label |-> d.label, preview |-> d.preview, choice |-> Head(d.left),
                              used |-> FALSE]}
             /\ Also("overwritten", inFlight # {})

(* resolve(): the choice in flight was served.                             *)
Resolve ==
    /\ inFlight' = {}
    /\ settled' = settled \o IF \E f \in inFlight : f.label = "force"
                             THEN <<(CHOOSE f \in inFlight : TRUE).choice>> ELSE <<>>
    /\ mishaps' = mishaps
         \cup {m \in {"unanswered"} : \E f \in inFlight : f.choice = "resolve" /\ ~f.used}
    /\ UNCHANGED queue

(* Mutant of Requeue: the choice comes after those that follow it.         *)
RequeueLast(f) == Append(queue, Directive(f.label, f.preview, <<f.choice>>))

(* onRejected: what the user or a preview has asked for is put back at the *)
(* head of the queue, the todo list is not.                                *)
Requeue(f) ==
    IF f.label = "todo" THEN queue
    ELSE <<Directive(f.label, f.preview, <<f.choice>>)>> \o queue

(* reject()                                                                *)
Reject ==
    /\ \E f \in inFlight :
           /\ queue' = Requeue(f)
           /\ mishaps' = mishaps \cup {m \in {"abandoned"} : f.used}
    /\ inFlight' = {}
    /\ UNCHANGED settled

(***************************************************************************)
(* The user: /force, prompts, abort().                                     *)
(***************************************************************************)
(* setForcedToolChoice                                                     *)
SetForcedToolChoice ==
    /\ ~forced
    /\ forced' = TRUE
    /\ queue' = Append(queue, Directive("force", 0, <<"forced", "none">>))
    /\ UNCHANGED <<inFlight, loopVars, promptVars, abortVars, actionVars, settled, mishaps>>

(* A first prompt may force a todo list, unless the user has forced a tool. *)
Prompt ==
    /\ ~prompting /\ phase = "idle"
    /\ abort \in {"none", "cleaning"}
    /\ prompts < MaxPrompts
    /\ prompts' = prompts + 1
    /\ prompting' = TRUE
    /\ phase' = "waiting"
    /\ \/ UNCHANGED queue
       \/ /\ prompts = 0
          /\ \A i \in DOMAIN queue : queue[i].label # "force"
          /\ queue' = Append(queue, Directive("todo", 0, <<"todo">>))
    /\ UNCHANGED <<inFlight, turn, ended, stray, abortVars, actionVars, userVars, mishaps>>

(* A run that has failed is tried again, or continued.                     *)
Continue ==
    /\ prompting /\ phase = "idle"
    /\ abort = "none"
    /\ phase' = "waiting"
    /\ UNCHANGED <<queue, inFlight, turn, ended, stray, promptVars, abortVars, actionVars, userVars, mishaps>>

(* The prompt returns; removeByLabel("eager-todo").                        *)
EndPrompt ==
    /\ prompting /\ phase = "idle"
    /\ prompting' = FALSE
    /\ queue' = Filtered(queue, {i \in DOMAIN queue : queue[i].label # "todo"})
    /\ inFlight' = {f \in inFlight : f.label # "todo"}
    /\ UNCHANGED <<loopVars, prompts, abortVars, actionVars, userVars, mishaps>>

Abort ==
    /\ abort = "none"
    /\ aborts < MaxAborts
    /\ aborts' = aborts + 1
    /\ abort' = "signalled"
    /\ UNCHANGED <<queue, inFlight, loopVars, promptVars, actionVars, userVars, mishaps>>

(* waitForIdle(), after which abort() waits for the goals.                 *)
AbortedIdle ==
    /\ abort = "signalled"
    /\ phase = "idle"
    /\ abort' = "cleaning"
    /\ UNCHANGED <<queue, inFlight, loopVars, promptVars, aborts, actionVars, userVars, mishaps>>

(* Safety net: a run that ended without turn_end has left its choice.      *)
EndAbort ==
    /\ abort = "cleaning"
    /\ abort' = "none"
    /\ IF inFlight = {}
       THEN UNCHANGED <<queue, inFlight, settled, mishaps>>
       ELSE Reject
    /\ UNCHANGED <<loopVars, promptVars, aborts, actionVars, forced>>

(***************************************************************************)
(* The turns.                                                              *)
(***************************************************************************)
(* The key has been resolved, and the model is called.                     *)
CallModel ==
    /\ phase = "waiting"
    /\ turn < MaxTurns
    /\ turn' = turn + 1
    /\ phase' = "streaming"
    /\ NextToolChoice
    /\ UNCHANGED <<ended, stray, promptVars, abortVars, actionVars, userVars>>

(* The response leaks and is tried again: a turn without a turn_end.       *)
Leak ==
    /\ phase = "streaming"
    /\ phase' = "waiting"
    /\ UNCHANGED <<queue, inFlight, turn, ended, stray, promptVars, abortVars, actionVars, userVars, mishaps>>

Answer ==
    /\ phase = "streaming"
    /\ phase' = "tools"
    /\ UNCHANGED <<queue, inFlight, turn, ended, stray, promptVars, abortVars, actionVars, userVars, mishaps>>

(* The response fails or is aborted.                                       *)
AnswerFails ==
    /\ phase = "streaming"
    /\ phase' = "idle"
    /\ ended' = [ended EXCEPT ![turn] = "failed"]
    /\ UNCHANGED <<queue, inFlight, turn, stray, promptVars, abortVars, actionVars, userVars, mishaps>>

(* An exception ends the run; there is no turn_end.                        *)
Throw ==
    /\ phase \in {"waiting", "streaming"}
    /\ phase' = "idle"
    /\ UNCHANGED <<queue, inFlight, turn, ended, stray, promptVars, abortVars, actionVars, userVars, mishaps>>

(* The tools are done or, once their signal is aborted, left behind: by    *)
(* abort(), or by a steering message, with which the loop goes on.         *)
EndTurn ==
    /\ phase = "tools"
    /\ ended' = [ended EXCEPT ![turn] = "ok"]
    /\ phase' \in {"waiting", "idle"}
    /\ \/ (\A c \in calls : c.turn # turn) /\ UNCHANGED stray
       \/ (abort = "signalled" \/ phase' = "waiting") /\ stray' = TRUE
    /\ UNCHANGED <<queue, inFlight, turn, promptVars, abortVars, actionVars, userVars, mishaps>>

(* The handler of turn_end, once the extensions have been told.            *)
TurnEnd(t) ==
    /\ ended[t] \in {"ok", "failed"}
    /\ ended' = [ended EXCEPT ![t] = "settled"]
    /\ IF inFlight = {}
       THEN UNCHANGED <<queue, inFlight, settled, mishaps>>
       ELSE IF ended[t] = "ok" THEN Resolve ELSE Reject
    /\ UNCHANGED <<phase, turn, stray, promptVars, abortVars, actionVars, forced>>

(***************************************************************************)
(* Previews and the tool `resolve`.                                        *)
(***************************************************************************)
(* A tool of this turn, or one left behind, has made a preview.            *)
Made(a) ==
    /\ phase = "tools" \/ stray
    /\ preview[a] = "none"
    /\ \A b \in Previews : b < a => preview[b] # "none"

(* queueResolveHandler                                                     *)
MakePreview(a) ==
    /\ Made(a)
    /\ preview' = [preview EXCEPT ![a] = "pending"]
    /\ queue' = <<Pending(a)>> \o queue
    /\ UNCHANGED <<inFlight, loopVars, promptVars, abortVars, calls, called, applied, userVars, mishaps>>

(* Its early return: the model there is now, if there is one, cannot be    *)
(* made to call one tool by name.  Nothing is queued for the preview.      *)
MakeUnforceable(a) ==
    /\ Made(a)
    /\ preview' = [preview EXCEPT ![a] = "unforceable"]
    /\ UNCHANGED <<queue, inFlight, loopVars, promptVars, abortVars, calls, called, applied, userVars,
                   mishaps>>

(* resolve: the code of the preview in flight begins.  Without one there   *)
(* is nothing to resolve and the call fails.                               *)
CallResolve(decision) ==
    /\ phase = "tools"
    /\ abort # "signalled"
    /\ called < MaxResolves
    /\ \E f \in inFlight :
           /\ f.preview # 0
           /\ called' = called + 1
           /\ calls' = calls \cup {[preview |-> f.preview, decision |-> decision, turn |-> turn,
                                    id |-> called']}
           /\ inFlight' = {[f EXCEPT !.used = TRUE]}
           /\ Also("repeated", f.used)
    /\ UNCHANGED <<queue, loopVars, promptVars, abortVars, preview, applied, userVars>>

(* Mutant of EndResolve: onApplyError is called in any case.               *)
EndResolvePushing(c) ==
    /\ c \in calls
    /\ calls' = calls \ {c}
    /\ preview' = [preview EXCEPT ![c.preview] =
                       IF c.decision = "apply" \/ @ = "applied" THEN "applied" ELSE "discarded"]
    /\ applied' = [applied EXCEPT ![c.preview] = IF c.decision = "apply" THEN @ + 1 ELSE @]
    /\ queue' = <<Pending(c.preview)>> \o queue
    /\ UNCHANGED <<inFlight, loopVars, promptVars, abortVars, called, userVars, mishaps>>

(* The call ends well.                                                     *)
EndResolve(c) ==
    /\ c \in calls
    /\ calls' = calls \ {c}
    /\ preview' = [preview EXCEPT ![c.preview] =
                       IF c.decision = "apply" \/ @ = "applied" THEN "applied" ELSE "discarded"]
    /\ applied' = [applied EXCEPT ![c.preview] = IF c.decision = "apply" THEN @ + 1 ELSE @]
    /\ UNCHANGED <<queue, inFlight, loopVars, promptVars, abortVars, called, userVars, mishaps>>

(* Mutant of ResolveFails: the preview is not pushed again.                *)
ResolveFailsForGood(c) ==
    /\ c \in calls
    /\ calls' = calls \ {c}
    /\ Also("kept", c.decision = "discard")
    /\ UNCHANGED <<queue, inFlight, loopVars, promptVars, abortVars, preview, called, applied, userVars>>

(* It throws: a preview that could not be applied is pushed again.         *)
ResolveFails(c) ==
    /\ c \in calls
    /\ calls' = calls \ {c}
    /\ queue' = IF c.decision = "apply" THEN <<Pending(c.preview)>> \o queue ELSE queue
    /\ Also("kept", c.decision = "discard")
    /\ UNCHANGED <<inFlight, loopVars, promptVars, abortVars, preview, called, applied, userVars>>

ChoiceNext ==
    \/ SetForcedToolChoice
    \/ Prompt \/ Continue \/ EndPrompt
    \/ Abort \/ AbortedIdle \/ EndAbort
    \/ CallModel \/ Leak \/ Answer \/ AnswerFails \/ Throw \/ EndTurn
    \/ \E t \in Turns : TurnEnd(t)
    \/ \E a \in Previews : MakePreview(a) \/ MakeUnforceable(a)
    \/ \E decision \in {"apply", "discard"} : CallResolve(decision)
    \/ \E c \in calls : EndResolve(c) \/ ResolveFails(c)

ChoiceSpec == ChoiceInit /\ [][ChoiceNext]_choiceVars

-----------------------------------------------------------------------------
Labels == {"preview", "force", "todo"}
Yields == {"resolve", "forced", "none", "todo"}

ChoiceTypeOK ==
    /\ \A i \in DOMAIN queue :
           /\ queue[i].label \in Labels
           /\ queue[i].preview \in {0} \cup Previews
           /\ queue[i].left \in {<<>>} \cup {<<c>> : c \in Yields} \cup {<<"forced", "none">>}
    /\ inFlight \subseteq [label : Labels, preview : {0} \cup Previews, choice : Yields,
                           used : BOOLEAN]
    /\ phase \in {"idle", "waiting", "streaming", "tools"}
    /\ turn \in 0..MaxTurns
    /\ ended \in [Turns -> {"none", "ok", "failed", "settled"}]
    /\ stray \in BOOLEAN /\ prompting \in BOOLEAN /\ forced \in BOOLEAN
    /\ abort \in {"none", "signalled", "cleaning"}
    /\ preview \in [Previews -> {"none", "pending", "unforceable", "applied", "discarded"}]
    /\ calls \subseteq [preview : Previews, decision : {"apply", "discard"}, turn : Turns,
                        id : 1..MaxResolves]
    /\ settled \in Seq(Yields)
    /\ mishaps \subseteq {"overwritten", "unanswered", "abandoned", "repeated", "kept"}

(* What the user has forced is served once and in order, across aborts and *)
(* errors: the tool, and then none (agent-session.ts:1232).                *)
ForcedInOrder ==
    "overwritten" \notin mishaps
    => settled \in {<<>>, <<"forced">>, <<"forced", "none">>}

(* The types, and the order of what the user has forced.                   *)
ChoiceInv == ChoiceTypeOK /\ ForcedInOrder

(* A preview that was queued and is neither applied nor discarded is not   *)
(* stranded (resolve.ts:79): it is queued, in flight or being resolved.    *)
(* Not so the preview of a model that cannot be forced (resolve.ts:50-52): *)
(* it is shown, and nothing is ever queued that could apply or discard it. *)
PreviewKept ==
    mishaps \cap {"overwritten", "unanswered", "kept"} = {} =>
        \A a \in Previews : preview[a] = "pending" =>
            \/ \E i \in DOMAIN queue : queue[i].preview = a /\ queue[i].left # <<>>
            \/ \E f \in inFlight : f.preview = a
            \/ \E c \in calls : c.preview = a

(* A preview is applied at most once, and not after it was discarded.  One *)
(* that was not queued is not applied in the place of another.             *)
AppliedOnce ==
    mishaps \cap {"abandoned", "repeated"} = {} =>
        \A a \in Previews :
            /\ applied[a] <= 1
            /\ preview[a] \in {"discarded", "unforceable"} => applied[a] = 0
=============================================================================
