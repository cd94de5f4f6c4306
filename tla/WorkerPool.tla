---------------------------- MODULE WorkerPool ----------------------------
(***************************************************************************)
(* robomp's event queue (python/robomp): webhook deliveries in a durable   *)
(* table (db.py) and the worker pool that drains it (queue.py), with its   *)
(* slots (slot_pool.py), the cancellation of a running event               *)
(* (cancellation.py) and the graceful shutdown.                            *)
(*                                                                         *)
(* The dispatcher claims the oldest queued row, and runs it in a task of   *)
(* its own unless an event of the same issue is in flight.  A task takes a *)
(* slot and hands the work to a thread (worker.py), which spawns the agent *)
(* process and then arms a hook that kills it.  An operator's cancellation *)
(* and stop() fire the hook; without a hook stop() cancels the task, which *)
(* does not reach the thread.  The rows survive the process; everything    *)
(* else is lost, and a row left running is queued again at the next start. *)
(*                                                                         *)
(* A step is the code between two awaits of the event loop, or one access  *)
(* of a thread to what it shares with the loop.  The dispatcher's waits    *)
(* have timeouts, so the event that ends them early is left out.           *)
(***************************************************************************)
EXTENDS Integers, FiniteSets, Sequences

CONSTANTS
    Events,       \* webhook deliveries
    Key(_),       \* row.issue_key
    Slots,        \* slot UIDs, or the permits of the semaphore
    MaxStarts,    \* bound on the starts of the process
    MaxRetries,   \* bound on the events an operator retries
    MaxCancels    \* bound on the events an operator cancels

None == "none"

ASSUME PoolAssumption ==
    /\ {MaxStarts, MaxRetries, MaxCancels} \subseteq Nat
    /\ None \notin Events \cup Slots

VARIABLES
    \* the table
    rows,       \* events.state
    order,      \* ORDER BY received_at
    \* the process
    pool,       \* down, up, or how far stop() is
    toKill,     \* still_running of stop(), not interrupted yet
    \* the dispatcher
    dispatcher, \* the await it is at
    claimed,    \* the row it has claimed, or None
    \* WorkerPool
    inflight,   \* _inflight: issue keys
    hooks,      \* _cancel_hooks: events with a hook
    cancelled,  \* _cancelled
    shutdownCancelled, \* _shutdown_cancelled
    \* the task, thread and agent process of each event
    task,       \* the await of _run_event
    slot,       \* the slot it has, or None
    thread,     \* how far the worker thread is
    killed,     \* the agent process was stopped by: None, operator, shutdown
    \* history
    starts, retries, cancels, \* numbers of these
    cause,      \* why a row failed
    asked       \* events cancelled by an operator while their row was running

tableVars == <<rows, order, cause>>
dispatchVars == <<dispatcher, claimed>>
cancelVars == <<hooks, cancelled, shutdownCancelled>>
runVars == <<task, slot, thread, killed>>
stopVars == <<pool, toKill>>
historyVars == <<starts, retries, cancels, asked>>
vars == <<tableVars, dispatchVars, inflight, cancelVars, runVars, stopVars, historyVars>>

FreeSlots == Slots \ {slot[e] : e \in Events}
Tasks == {e \in Events : task[e] # "none"}      \* _inflight_tasks
Live == {e \in Events : thread[e] \in {"starting", "spawned", "arming", "armed"}}

(* _inflight_lock is held while the next row is claimed.                   *)
Locked == dispatcher \in {"claimed", "requeueing"}

Init ==
    /\ rows = [e \in Events |-> "absent"] /\ order = <<>>
    /\ cause = [e \in Events |-> None]
    /\ pool = "down" /\ toKill = {}
    /\ dispatcher = "off" /\ claimed = None
    /\ inflight = {} /\ hooks = {} /\ cancelled = {} /\ shutdownCancelled = {}
    /\ task = [e \in Events |-> "none"] /\ slot = [e \in Events |-> None]
    /\ thread = [e \in Events |-> "none"] /\ killed = [e \in Events |-> None]
    /\ starts = 0 /\ retries = 0 /\ cancels = 0 /\ asked = {}

-----------------------------------------------------------------------------
(* The server *)

(* A webhook delivery is recorded; one already recorded is ignored.        *)
RecordEvent(e) ==
    /\ pool = "up"
    /\ rows[e] = "absent"
    /\ rows' = [rows EXCEPT ![e] = "queued"]
    /\ order' = Append(order, e)
    /\ UNCHANGED <<cause, dispatchVars, inflight, cancelVars, runVars, stopVars, historyVars>>

(* Mutant of Retry: any row may be queued again.                           *)
RetryAny(e) ==
    /\ pool = "up" /\ retries < MaxRetries
    /\ rows[e] # "absent"
    /\ retries' = retries + 1
    /\ rows' = [rows EXCEPT ![e] = "queued"]
    /\ UNCHANGED <<order, cause, dispatchVars, inflight, cancelVars, runVars, stopVars,
                   starts, cancels, asked>>

(* A replay or a manual retry: only an inactive row is queued again.       *)
Retry(e) ==
    /\ pool = "up" /\ retries < MaxRetries
    /\ rows[e] \in {"done", "failed"}
    /\ retries' = retries + 1
    /\ rows' = [rows EXCEPT ![e] = "queued"]
    /\ asked' = asked \ {e}
    /\ UNCHANGED <<order, cause, dispatchVars, inflight, cancelVars, runVars, stopVars,
                   starts, cancels>>

(* cancel_event() for a known row, whatever its state: the mark first, then*)
(* the hook if there is one.                                               *)
CancelEvent(e) ==
    /\ pool = "up" /\ cancels < MaxCancels
    /\ rows[e] # "absent"
    /\ cancels' = cancels + 1
    /\ cancelled' = cancelled \cup {e}
    /\ hooks' = hooks \ {e}
    /\ killed' = IF e \in hooks THEN [killed EXCEPT ![e] = "operator"] ELSE killed
    /\ asked' = IF rows[e] = "running" THEN asked \cup {e} ELSE asked
    /\ UNCHANGED <<tableVars, dispatchVars, inflight, shutdownCancelled, task, slot, thread,
                   stopVars, starts, retries>>

-----------------------------------------------------------------------------
(* The dispatcher *)

Oldest(e) == \E k \in DOMAIN order :
    /\ order[k] = e
    /\ rows[e] = "queued" /\ \A j \in 1..(k - 1) : rows[order[j]] # "queued"

(* claim_next_event: the oldest queued row is running now.                 *)
Claim(e) ==
    /\ dispatcher = "ready" /\ Oldest(e)
    /\ rows' = [rows EXCEPT ![e] = "running"]
    /\ claimed' = e
    /\ dispatcher' = "claimed"
    /\ UNCHANGED <<order, cause, inflight, cancelVars, runVars, stopVars, historyVars>>

(* Mutant of Dispatch: the issues in flight are not looked at.             *)
DispatchAnyway ==
    /\ dispatcher = "claimed"
    /\ inflight' = inflight \cup {Key(claimed)}
    /\ task' = [task EXCEPT ![claimed] = "acquiring"]
    /\ claimed' = None /\ dispatcher' = "ready"
    /\ UNCHANGED <<tableVars, cancelVars, slot, thread, killed, stopVars, historyVars>>

(* The claimed row gets a task, or is put back if its issue is in flight.  *)
Dispatch ==
    /\ dispatcher = "claimed"
    /\ IF Key(claimed) \in inflight
       THEN dispatcher' = "requeueing" /\ UNCHANGED <<inflight, task, claimed>>
       ELSE /\ inflight' = inflight \cup {Key(claimed)}
            /\ task' = [task EXCEPT ![claimed] = "acquiring"]
            /\ claimed' = None /\ dispatcher' = "ready"
    /\ UNCHANGED <<tableVars, cancelVars, slot, thread, killed, stopVars, historyVars>>

(* requeue_event from running; then the dispatcher waits.                  *)
PutBack ==
    /\ dispatcher = "requeueing"
    /\ rows' = [rows EXCEPT ![claimed] = IF @ = "running" THEN "queued" ELSE @]
    /\ claimed' = None /\ dispatcher' = "waiting"
    /\ UNCHANGED <<order, cause, inflight, cancelVars, runVars, stopVars, historyVars>>

(* Nothing is queued.                                                      *)
FindNothing ==
    /\ dispatcher = "ready" /\ \A e \in Events : rows[e] # "queued"
    /\ dispatcher' = "waiting"
    /\ UNCHANGED <<tableVars, claimed, inflight, cancelVars, runVars, stopVars, historyVars>>

(* It is woken, or the wait times out.                                     *)
Wake ==
    /\ dispatcher = "waiting"
    /\ dispatcher' = "ready"
    /\ UNCHANGED <<tableVars, claimed, inflight, cancelVars, runVars, stopVars, historyVars>>

-----------------------------------------------------------------------------
(* The task of an event *)

(* A slot is free: the handler starts, and with it the thread.             *)
Acquire(e, s) ==
    /\ task[e] = "acquiring" /\ s \in FreeSlots
    /\ slot' = [slot EXCEPT ![e] = s]
    /\ task' = [task EXCEPT ![e] = "running"]
    /\ thread' = [thread EXCEPT ![e] = "starting"]
    /\ killed' = [killed EXCEPT ![e] = None]
    /\ UNCHANGED <<tableVars, dispatchVars, inflight, cancelVars, stopVars, historyVars>>

(* The row after the handler has returned or raised.                       *)
Mark(e, state, why) ==
    /\ rows' = [rows EXCEPT ![e] = state]
    /\ cause' = [cause EXCEPT ![e] = why]
    /\ UNCHANGED order

(* _run_event's finally block, up to the lock _release waits for.          *)
LeaveSlot(e) ==
    /\ cancelled' = cancelled \ {e}
    /\ shutdownCancelled' = shutdownCancelled \ {e}
    /\ hooks' = hooks \ {e}
    /\ slot' = [slot EXCEPT ![e] = None]
    /\ task' = [task EXCEPT ![e] = "releasing"]

(* The handler has returned.                                               *)
Succeed(e) ==
    /\ task[e] = "running" /\ thread[e] = "succeeded"
    /\ IF e \in cancelled THEN Mark(e, "failed", "operator") ELSE Mark(e, "done", None)
    /\ LeaveSlot(e)
    /\ thread' = [thread EXCEPT ![e] = "none"]
    /\ UNCHANGED <<dispatchVars, inflight, killed, stopVars, historyVars>>

(* The handler has raised: an event stop() interrupted stays running.      *)
Fail(e) ==
    /\ task[e] = "running" /\ thread[e] = "failed"
    /\ IF e \in shutdownCancelled THEN UNCHANGED tableVars
       ELSE Mark(e, "failed", IF e \in cancelled THEN "operator"
                              ELSE IF killed[e] = None THEN "error" ELSE killed[e])
    /\ LeaveSlot(e)
    /\ thread' = [thread EXCEPT ![e] = "none"]
    /\ UNCHANGED <<dispatchVars, inflight, killed, stopVars, historyVars>>

(* Mutant of Release: the lock is not waited for, the key stays.           *)
ReleaseNothing(e) ==
    /\ task[e] = "releasing" /\ ~Locked
    /\ task' = [task EXCEPT ![e] = "none"]
    /\ UNCHANGED <<inflight, tableVars, dispatchVars, cancelVars, slot, thread, killed,
                   stopVars, historyVars>>

(* _release: the issue is no longer in flight.                             *)
Release(e) ==
    /\ task[e] = "releasing" /\ ~Locked
    /\ inflight' = inflight \ {Key(e)}
    /\ task' = [task EXCEPT ![e] = "none"]
    /\ UNCHANGED <<tableVars, dispatchVars, cancelVars, slot, thread, killed, stopVars,
                   historyVars>>

-----------------------------------------------------------------------------
(* The thread of an event *)

MoveThread(e, from, to) ==
    /\ thread[e] = from
    /\ thread' = [thread EXCEPT ![e] = to]
    /\ UNCHANGED <<tableVars, dispatchVars, inflight, task, slot, stopVars, historyVars>>

(* The agent process is started.                                           *)
Spawn(e) ==
    /\ MoveThread(e, "starting", "spawned")
    /\ UNCHANGED <<cancelVars, killed>>

(* _arm_cancel looks whether the event is cancelled already: then the hook *)
(* fires, and is not installed.                                            *)
CheckCancelled(e) ==
    /\ MoveThread(e, "spawned", IF e \in cancelled THEN "armed" ELSE "arming")
    /\ killed' = IF e \in cancelled THEN [killed EXCEPT ![e] = "operator"] ELSE killed
    /\ UNCHANGED cancelVars

InstallHook(e) ==
    /\ MoveThread(e, "arming", "armed")
    /\ hooks' = hooks \cup {e}
    /\ UNCHANGED <<cancelled, shutdownCancelled, killed>>

(* The work ends, by itself or at its time limit; not well if the process  *)
(* was killed.  Work that needs no agent, or fails before, ends earlier.   *)
EndWork(e, outcome) ==
    /\ \E at \in {"starting", "armed"} : MoveThread(e, at, outcome)
    /\ killed[e] # None => outcome = "failed"
    /\ hooks' = hooks \ {e}
    /\ UNCHANGED <<cancelled, shutdownCancelled, killed>>

-----------------------------------------------------------------------------
(* Stopping and starting *)

(* start(): rows left running are queued again.                            *)
Start ==
    /\ pool = "down" /\ starts < MaxStarts
    /\ starts' = starts + 1
    /\ rows' = [e \in Events |-> IF rows[e] = "running" THEN "queued" ELSE rows[e]]
    /\ pool' = "up" /\ dispatcher' = "ready"
    /\ UNCHANGED <<order, cause, claimed, inflight, cancelVars, runVars, toKill, retries,
                   cancels, asked>>

(* stop(): the dispatcher is cancelled at the await it is at; the thread   *)
(* that puts a row back is not.                                            *)
Stop ==
    /\ pool = "up" /\ starts < MaxStarts
    /\ pool' = "draining"
    /\ rows' = IF dispatcher = "requeueing" THEN [rows EXCEPT ![claimed] = "queued"] ELSE rows
    /\ dispatcher' = "off" /\ claimed' = None
    /\ UNCHANGED <<order, cause, inflight, cancelVars, runVars, toKill, historyVars>>

(* The tasks are waited for; those that are left are to be interrupted.    *)
EndDrain ==
    /\ pool = "draining"
    /\ toKill' = Tasks
    /\ pool' = IF Tasks = {} THEN "stopped" ELSE "killing"
    /\ UNCHANGED <<tableVars, dispatchVars, inflight, cancelVars, runVars, historyVars>>

(* task.cancel(): the finally block runs; the row stays, and so does the   *)
(* thread, unless the handler has not come to start it.                    *)
CancelTask(e) ==
    /\ thread' \in {thread} \cup
                  (IF thread[e] = "starting" THEN {[thread EXCEPT ![e] = "none"]} ELSE {})
    /\ task' = [task EXCEPT ![e] = "none"]
    /\ slot' = [slot EXCEPT ![e] = None]
    /\ inflight' = inflight \ {Key(e)}

(* Mutant of Interrupt: the event is recorded after the hook has returned, *)
(* too late for the exception path.                                        *)
InterruptUnrecorded(e) ==
    /\ pool = "killing" /\ e \in toKill
    /\ toKill' = toKill \ {e}
    /\ IF task[e] = "none"
       THEN UNCHANGED <<cancelVars, killed, task, slot, inflight, thread>>
       ELSE IF e \in hooks
            THEN /\ killed' = [killed EXCEPT ![e] = "shutdown"]
                 /\ hooks' = hooks \ {e}
                 /\ UNCHANGED <<cancelled, shutdownCancelled, task, slot, inflight, thread>>
            ELSE /\ CancelTask(e)
                 /\ cancelled' = cancelled \ {e}
                 /\ UNCHANGED <<shutdownCancelled, hooks, killed>>
    /\ UNCHANGED <<tableVars, dispatchVars, pool, historyVars>>

(* One of them: if it has a hook, that is fired; or else its task is       *)
(* cancelled, unless it has ended meanwhile.                               *)
Interrupt(e) ==
    /\ pool = "killing" /\ e \in toKill
    /\ toKill' = toKill \ {e}
    /\ IF task[e] = "none"
       THEN UNCHANGED <<cancelVars, killed, task, slot, inflight, thread>>
       ELSE IF e \in hooks
            THEN /\ shutdownCancelled' = shutdownCancelled \cup {e}
                 /\ killed' = [killed EXCEPT ![e] = "shutdown"]
                 /\ hooks' = hooks \ {e}
                 /\ UNCHANGED <<cancelled, task, slot, inflight, thread>>
            ELSE /\ CancelTask(e)
                 /\ cancelled' = cancelled \ {e}
                 /\ UNCHANGED <<shutdownCancelled, hooks, killed>>
    /\ UNCHANGED <<tableVars, dispatchVars, pool, historyVars>>

(* stop() returns, when all has settled or a last timeout is over.         *)
EndKill ==
    /\ pool = "killing" /\ toKill = {}
    /\ pool' = "stopped"
    /\ UNCHANGED <<tableVars, dispatchVars, inflight, cancelVars, runVars, toKill, historyVars>>

(* Everything but the table is gone.                                       *)
LoseMemory ==
    /\ pool' = "down" /\ toKill' = {}
    /\ dispatcher' = "off" /\ claimed' = None
    /\ inflight' = {} /\ hooks' = {} /\ cancelled' = {} /\ shutdownCancelled' = {}
    /\ task' = [e \in Events |-> "none"] /\ slot' = [e \in Events |-> None]
    /\ thread' = [e \in Events |-> "none"] /\ killed' = [e \in Events |-> None]

(* The process exits: the interpreter waits for its threads.               *)
Exit ==
    /\ pool = "stopped" /\ Live = {}
    /\ LoseMemory
    /\ UNCHANGED <<tableVars, historyVars>>

Crash ==
    /\ pool # "down" /\ starts < MaxStarts
    /\ LoseMemory
    /\ UNCHANGED <<tableVars, historyVars>>

-----------------------------------------------------------------------------

Server == \E e \in Events : RecordEvent(e) \/ Retry(e) \/ CancelEvent(e)

Dispatcher == (\E e \in Events : Claim(e)) \/ Dispatch \/ PutBack \/ FindNothing \/ Wake

TaskStep(e) == Succeed(e) \/ Fail(e) \/ Release(e)

ThreadStep(e) ==
    \/ Spawn(e) \/ CheckCancelled(e) \/ InstallHook(e)
    \/ \E outcome \in {"succeeded", "failed"} : EndWork(e, outcome)

Shutdown == EndDrain \/ (\E e \in Events : Interrupt(e)) \/ EndKill \/ Exit \/ Start

Next ==
    \/ Server \/ Dispatcher \/ Shutdown \/ Stop \/ Crash
    \/ \E e \in Events : TaskStep(e) \/ ThreadStep(e) \/ \E s \in Slots : Acquire(e, s)

(***************************************************************************)
(* The event loop and the threads run; every task has a hard time limit.   *)
(* A slot that is released often enough is given to each that waits (the   *)
(* queue is FIFO), and a released lock to each that waits for it.  A       *)
(* stopped process is started again, up to the bound.                      *)
(***************************************************************************)
Fairness ==
    /\ WF_vars(Dispatcher) /\ WF_vars(Shutdown)
    /\ \A e \in Events : /\ WF_vars(ThreadStep(e))
                         /\ WF_vars(Succeed(e) \/ Fail(e))
                         /\ SF_vars(Release(e))
                         /\ SF_vars(\E s \in Slots : Acquire(e, s))

Spec == Init /\ [][Next]_vars /\ Fairness

-----------------------------------------------------------------------------
(* Properties *)

TypeOK ==
    /\ rows \in [Events -> {"absent", "queued", "running", "done", "failed"}]
    /\ order \in Seq(Events)
    /\ cause \in [Events -> {None, "operator", "error", "shutdown"}]
    /\ pool \in {"down", "up", "draining", "killing", "stopped"}
    /\ toKill \subseteq Events
    /\ dispatcher \in {"off", "ready", "claimed", "requeueing", "waiting"}
    /\ claimed \in Events \cup {None}
    /\ Locked <=> claimed # None
    /\ inflight \subseteq {Key(e) : e \in Events}
    /\ hooks \subseteq Events /\ cancelled \subseteq Events
    /\ shutdownCancelled \subseteq Events
    /\ task \in [Events -> {"none", "acquiring", "running", "releasing"}]
    /\ slot \in [Events -> Slots \cup {None}]
    /\ \A e \in Events : task[e] = "running" <=> slot[e] # None
    /\ thread \in [Events -> {"none", "starting", "spawned", "arming", "armed",
                              "succeeded", "failed"}]
    /\ killed \in [Events -> {None, "operator", "shutdown"}]

(* Two events of one issue are never worked on at the same time: their     *)
(* workspace is the same.                                                  *)
OneRunPerIssue ==
    \A e, f \in Events :
        e # f /\ Key(e) = Key(f) => ~(e \in Live /\ f \in Live)

(* While the pool is up a row is running exactly if the dispatcher or a    *)
(* task attends to it: no event is stuck in the running state, and none is *)
(* taken from under its task.                                              *)
RunningIsAttended ==
    pool = "up" =>
        \A e \in Events :
            rows[e] = "running" <=> e = claimed \/ task[e] \in {"acquiring", "running"}

(* The types, that a slot is held by the task that runs in it among them,  *)
(* and no row that is running and attended to by nobody.                   *)
PoolInv == TypeOK /\ RunningIsAttended

(* A row fails because its handler did or an operator cancelled it, never  *)
(* because stop() killed its agent.                                        *)
FailedForCause == \A e \in Events : rows[e] = "failed" => cause[e] \in {"error", "operator"}

(* Every event is handled in the end, whatever stops and crashes come in   *)
(* between, and however often it has to be put back.                       *)
EventuallyHandled ==
    \A e \in Events : rows[e] = "queued" ~> rows[e] \in {"done", "failed"}

(* queue.py in stop(): a task without a hook is cancelled "so a worker     *)
(* stuck pre-hook (...) cannot proceed to spawn a fresh subprocess after   *)
(* stop() returns".                                                        *)
NoSpawnAfterStop ==
    [][\A e \in Events : thread[e] = "starting" /\ thread'[e] = "spawned"
           => pool # "stopped"]_vars

(* queue.py on cancel_event(): "so a late-armed hook still observes the    *)
(* request".                                                               *)
LateHookObserves == \A e \in Events : ~(e \in cancelled /\ e \in hooks)

(* server.py on /api/cancel: "the row lands in `failed` with `cancelled by *)
(* operator` as the error".                                                *)
CancelledFails ==
    \A e \in asked : rows[e] # "done"

(* queue.py on cancel_event(): "Request cancellation of a running event."  *)
(* A retried event starts without a request from before.                   *)
RetriedAfresh == [][\A e \in Events : rows[e] \in {"done", "failed"} /\ rows'[e] = "queued"
                        => e \notin cancelled]_vars
=============================================================================
