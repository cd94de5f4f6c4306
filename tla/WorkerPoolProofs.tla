-------------------------- MODULE WorkerPoolProofs --------------------------
(* Proofs about WorkerPool, for any events, issues, slots and bounds.      *)
EXTENDS WorkerPool, TLAPS

(***************************************************************************)
(* The strengthening.                                                      *)
(***************************************************************************)

(* The dispatcher runs only while the pool is up.                          *)
DispatcherOff == pool # "up" => dispatcher = "off"

(* The issue of a task is in flight.                                       *)
IssueHeld == \A e \in Events : task[e] # "none" => Key(e) \in inflight

Busy(e) == task[e] # "none" \/ e \in Live

(* An issue has one task, or the thread that outlived it.                  *)
OneTask == \A e, f \in Events : e # f /\ Key(e) = Key(f) => ~(Busy(e) /\ Busy(f))

(* A thread works for its task until stop() cancels that.                  *)
LiveHasTask ==
    \A e \in Live : \/ task[e] = "running"
                    \/ pool \in {"killing", "stopped"} /\ task[e] = "none"

DownIsEmpty == pool = "down" => \A e \in Events : task[e] = "none"

(* The claimed row has no task that works on it.                           *)
ClaimedIsFree == claimed # None => task[claimed] \notin {"acquiring", "running"}

(* Only a shutdown interrupts events, and it says so of those it kills.    *)
ShutdownOnly == shutdownCancelled # {} => pool \in {"killing", "stopped"}

KillRecorded ==
    \A e \in Events :
        task[e] = "running" /\ killed[e] = "shutdown" => e \in shutdownCancelled

Scheduling == DispatcherOff /\ IssueHeld /\ OneTask /\ LiveHasTask /\ DownIsEmpty
Attended == ClaimedIsFree /\ RunningIsAttended
Causes == ShutdownOnly /\ KillRecorded /\ FailedForCause

IInv == TypeOK /\ Scheduling /\ Attended /\ Causes
-----------------------------------------------------------------------------
(* The process is down, and nothing is recorded.                           *)
LEMMA InvInit == Init => IInv
BY PoolAssumption DEF Init, IInv, TypeOK, Locked, Scheduling, DispatcherOff,
     IssueHeld, OneTask, Busy, Live, LiveHasTask, DownIsEmpty, Attended,
     ClaimedIsFree, RunningIsAttended, None, Causes, ShutdownOnly,
     KillRecorded, FailedForCause

(* The types of the table, and of what a task gives up.                    *)
TableTypes ==
    /\ rows \in [Events -> {"absent", "queued", "running", "done", "failed"}]
    /\ order \in Seq(Events)
    /\ cause \in [Events -> {None, "operator", "error", "shutdown"}]

LEMMA MarkTypes ==
    ASSUME TypeOK, NEW e \in Events, NEW state \in {"done", "failed"},
           NEW why \in {None, "operator", "error", "shutdown"}, Mark(e, state, why)
    PROVE  TableTypes'
  BY DEF TypeOK, TableTypes, Mark

SlotTypes ==
    /\ hooks \subseteq Events /\ cancelled \subseteq Events
    /\ shutdownCancelled \subseteq Events
    /\ task \in [Events -> {"none", "acquiring", "running", "releasing"}]
    /\ slot \in [Events -> Slots \cup {None}]
    /\ \A e \in Events : task[e] = "running" <=> slot[e] # None

LEMMA LeaveSlotTypes ==
    ASSUME TypeOK, NEW e \in Events, LeaveSlot(e)
    PROVE  SlotTypes'
  BY DEF TypeOK, SlotTypes, LeaveSlot

(* Types.  A row that gets a task has none, and so no slot.                *)
LEMMA TypeStep == TypeOK /\ Scheduling /\ [Next]_vars => TypeOK'
<1> SUFFICES ASSUME TypeOK /\ Scheduling, [Next]_vars PROVE TypeOK'
  OBVIOUS
<1> USE PoolAssumption DEF TypeOK, Locked, Scheduling, DispatcherOff,
        tableVars, dispatchVars, cancelVars, runVars, stopVars, historyVars
<1>1. ASSUME NEW e \in Events, RecordEvent(e) PROVE TypeOK'
  BY <1>1 DEF RecordEvent
<1>2. ASSUME NEW e \in Events, Retry(e) PROVE TypeOK'
  BY <1>2 DEF Retry
<1>3. ASSUME NEW e \in Events, CancelEvent(e) PROVE TypeOK'
  BY <1>3 DEF CancelEvent
<1>4. ASSUME NEW e \in Events, Claim(e) PROVE TypeOK'
  BY <1>4 DEF Claim, Oldest
<1>5. CASE Dispatch
  <2>1. claimed \in Events
    BY <1>5 DEF Dispatch
  <2>2. Key(claimed) \notin inflight => task[claimed] = "none"
    BY <2>1 DEF IssueHeld
  <2>3. QED BY <1>5, <2>1, <2>2 DEF Dispatch
<1>6. CASE PutBack \/ FindNothing \/ Wake
  BY <1>6 DEF PutBack, FindNothing, Wake
<1>7. ASSUME NEW e \in Events, NEW s \in Slots, Acquire(e, s) PROVE TypeOK'
  <2>1. slot' = [slot EXCEPT ![e] = s] /\ task' = [task EXCEPT ![e] = "running"]
    BY <1>7 DEF Acquire
  <2>2. \A f \in Events : task'[f] = "running" <=> slot'[f] # None
    BY <2>1
  <2>3. QED BY <1>7, <2>2 DEF Acquire
<1>8. ASSUME NEW e \in Events, Succeed(e) PROVE TypeOK'
  <2>1. TableTypes'
    BY <1>8, MarkTypes DEF Succeed
  <2>2. SlotTypes'
    BY <1>8, LeaveSlotTypes DEF Succeed
  <2>3. /\ thread' = [thread EXCEPT ![e] = "none"]
        /\ UNCHANGED <<pool, toKill, dispatcher, claimed, inflight, killed>>
    BY <1>8 DEF Succeed
  <2>4. QED BY <2>1, <2>2, <2>3 DEF TableTypes, SlotTypes
<1>9. ASSUME NEW e \in Events, Fail(e) PROVE TypeOK'
  <2>1. TableTypes'
    <3>1. CASE e \in shutdownCancelled
      BY <1>9, <3>1 DEF Fail, TableTypes
    <3>2. CASE e \notin shutdownCancelled
      BY <1>9, <3>2, MarkTypes DEF Fail
    <3>3. QED BY <3>1, <3>2
  <2>2. SlotTypes'
    BY <1>9, LeaveSlotTypes DEF Fail
  <2>3. /\ thread' = [thread EXCEPT ![e] = "none"]
        /\ UNCHANGED <<pool, toKill, dispatcher, claimed, inflight, killed>>
    BY <1>9 DEF Fail
  <2>4. QED BY <2>1, <2>2, <2>3 DEF TableTypes, SlotTypes
<1>10. ASSUME NEW e \in Events, Release(e) PROVE TypeOK'
  BY <1>10 DEF Release
<1>11. ASSUME NEW e \in Events, Spawn(e) \/ CheckCancelled(e) \/ InstallHook(e)
       PROVE TypeOK'
  BY <1>11 DEF Spawn, MoveThread, CheckCancelled, InstallHook
<1>12. ASSUME NEW e \in Events, NEW o \in {"succeeded", "failed"}, EndWork(e, o)
       PROVE TypeOK'
  <2>1. thread' = [thread EXCEPT ![e] = o] /\ hooks' = hooks \ {e}
    BY <1>12 DEF EndWork, MoveThread
  <2>2. UNCHANGED <<rows, order, cause, pool, toKill, dispatcher, claimed, inflight,
                    cancelled, shutdownCancelled, task, slot, killed>>
    BY <1>12 DEF EndWork, MoveThread
  <2>3. QED BY <2>1, <2>2
<1>13. ASSUME NEW e \in Events, Interrupt(e) PROVE TypeOK'
  <2>1. CASE task[e] = "none" \/ e \in hooks
    BY <1>13, <2>1 DEF Interrupt
  <2>2. CASE task[e] # "none" /\ e \notin hooks
    <3>1. CancelTask(e)
      BY <1>13, <2>2 DEF Interrupt
    <3>2. \A f \in Events : task'[f] = "running" <=> slot'[f] # None
      BY <3>1 DEF CancelTask
    <3>3. QED BY <1>13, <2>2, <3>1, <3>2 DEF Interrupt, CancelTask
  <2>3. QED BY <2>1, <2>2
<1>14. CASE Start \/ Stop
  BY <1>14 DEF Start, Stop
<1>15. CASE EndDrain \/ EndKill
  BY <1>15 DEF EndDrain, Tasks, EndKill
<1>16. CASE Exit \/ Crash
  BY <1>16 DEF Exit, LoseMemory, Crash
<1>17. CASE UNCHANGED vars
  BY <1>17 DEF vars
<1>18. QED
  BY <1>1, <1>2, <1>3, <1>4, <1>5, <1>6, <1>7, <1>8, <1>9, <1>10, <1>11, <1>12,
       <1>13, <1>14, <1>15, <1>16, <1>17 DEF Next, Server, Dispatcher,
       Shutdown, TaskStep, ThreadStep

(* One task per issue: a task is made only for an issue not in flight.     *)
LEMMA SchedulingStep == TypeOK /\ Scheduling /\ [Next]_vars => Scheduling'
<1> SUFFICES ASSUME TypeOK /\ Scheduling, [Next]_vars PROVE Scheduling'
  OBVIOUS
<1> USE PoolAssumption DEF TypeOK, Locked, Scheduling, DispatcherOff,
        IssueHeld, OneTask, Busy, Live, LiveHasTask, DownIsEmpty, tableVars,
        dispatchVars, cancelVars, runVars, stopVars, historyVars
<1>1. ASSUME NEW e \in Events, RecordEvent(e) PROVE Scheduling'
  BY <1>1 DEF RecordEvent
<1>2. ASSUME NEW e \in Events, Retry(e) PROVE Scheduling'
  BY <1>2 DEF Retry
<1>3. ASSUME NEW e \in Events, CancelEvent(e) PROVE Scheduling'
  BY <1>3 DEF CancelEvent
<1>4. ASSUME NEW e \in Events, Claim(e) PROVE Scheduling'
  BY <1>4 DEF Claim, Oldest
<1>5. CASE Dispatch
  BY <1>5 DEF Dispatch
<1>6. CASE PutBack \/ FindNothing \/ Wake
  BY <1>6 DEF PutBack, FindNothing, Wake
<1>7. ASSUME NEW e \in Events, NEW s \in Slots, Acquire(e, s) PROVE Scheduling'
  BY <1>7 DEF Acquire
<1>8. ASSUME NEW e \in Events, Succeed(e) PROVE Scheduling'
  BY <1>8 DEF Succeed, LeaveSlot, Mark
<1>9. ASSUME NEW e \in Events, Fail(e) PROVE Scheduling'
  BY <1>9 DEF Fail, LeaveSlot, Mark
<1>10. ASSUME NEW e \in Events, Release(e) PROVE Scheduling'
  BY <1>10 DEF Release
<1>11. ASSUME NEW e \in Events, Spawn(e) \/ CheckCancelled(e) \/ InstallHook(e)
       PROVE Scheduling'
  BY <1>11 DEF Spawn, MoveThread, CheckCancelled, InstallHook
<1>12. ASSUME NEW e \in Events, NEW o \in {"succeeded", "failed"}, EndWork(e, o)
       PROVE Scheduling'
  BY <1>12 DEF EndWork, MoveThread
<1>13. ASSUME NEW e \in Events, Interrupt(e) PROVE Scheduling'
  BY <1>13 DEF Interrupt, CancelTask
<1>14. CASE Start \/ Stop
  BY <1>14 DEF Start, Stop
<1>15. CASE EndDrain \/ EndKill
  BY <1>15 DEF EndDrain, Tasks, EndKill
<1>16. CASE Exit \/ Crash
  BY <1>16 DEF Exit, LoseMemory, Crash
<1>17. CASE UNCHANGED vars
  BY <1>17 DEF vars
<1>18. QED
  BY <1>1, <1>2, <1>3, <1>4, <1>5, <1>6, <1>7, <1>8, <1>9, <1>10, <1>11, <1>12,
       <1>13, <1>14, <1>15, <1>16, <1>17 DEF Next, Server, Dispatcher,
       Shutdown, TaskStep, ThreadStep

(* What is running is claimed or has a task.                               *)
LEMMA AttendedStep == IInv /\ [Next]_vars => Attended'
<1> SUFFICES ASSUME IInv, [Next]_vars PROVE Attended'
  OBVIOUS
<1> USE PoolAssumption DEF IInv, TypeOK, Locked, Scheduling, DispatcherOff,
        IssueHeld, DownIsEmpty, Causes, ShutdownOnly, Attended, ClaimedIsFree,
        RunningIsAttended, tableVars, dispatchVars, cancelVars, runVars,
        stopVars, historyVars
<1>1. ASSUME NEW e \in Events, RecordEvent(e) \/ Retry(e) \/ CancelEvent(e)
      PROVE Attended'
  BY <1>1 DEF RecordEvent, Retry, CancelEvent
<1>2. ASSUME NEW e \in Events, Claim(e) PROVE Attended'
  BY <1>2 DEF Claim, Oldest
<1>3. CASE Dispatch
  BY <1>3 DEF Dispatch
<1>4. CASE PutBack \/ FindNothing \/ Wake
  BY <1>4 DEF PutBack, FindNothing, Wake
<1>5. ASSUME NEW e \in Events, NEW s \in Slots, Acquire(e, s) PROVE Attended'
  BY <1>5 DEF Acquire
<1>6. ASSUME NEW e \in Events, Succeed(e) \/ Fail(e) PROVE Attended'
  BY <1>6, SMTT(30) DEF Succeed, LeaveSlot, Mark, Fail
<1>7. ASSUME NEW e \in Events, Release(e) PROVE Attended'
  BY <1>7 DEF Release
<1>8. ASSUME NEW e \in Events, Spawn(e) \/ CheckCancelled(e) \/ InstallHook(e)
      PROVE Attended'
  BY <1>8 DEF Spawn, MoveThread, CheckCancelled, InstallHook
<1>9. ASSUME NEW e \in Events, NEW o \in {"succeeded", "failed"}, EndWork(e, o)
      PROVE Attended'
  BY <1>9 DEF EndWork, MoveThread
<1>10. ASSUME NEW e \in Events, Interrupt(e) PROVE Attended'
  BY <1>10 DEF Interrupt, CancelTask
<1>11. CASE Start \/ Stop
  BY <1>11 DEF Start, Stop
<1>12. CASE EndDrain \/ EndKill
  BY <1>12 DEF EndDrain, Tasks, EndKill
<1>13. CASE Exit \/ Crash
  BY <1>13 DEF Exit, LoseMemory, Crash
<1>14. CASE UNCHANGED vars
  BY <1>14 DEF vars
<1>15. QED
  BY <1>1, <1>2, <1>3, <1>4, <1>5, <1>6, <1>7, <1>8, <1>9, <1>10, <1>11, <1>12,
       <1>13, <1>14 DEF Next, Server, Dispatcher, Shutdown, TaskStep,
       ThreadStep

(* Who is killed by a shutdown is recorded before its handler can raise.   *)
LEMMA CausesStep == TypeOK /\ Causes /\ [Next]_vars => Causes'
<1> SUFFICES ASSUME TypeOK /\ Causes, [Next]_vars PROVE Causes'
  OBVIOUS
<1> USE PoolAssumption DEF TypeOK, None, Causes, ShutdownOnly, KillRecorded,
        FailedForCause, tableVars, dispatchVars, cancelVars, runVars, stopVars,
        historyVars
<1>1. ASSUME NEW e \in Events, RecordEvent(e) PROVE Causes'
  BY <1>1 DEF RecordEvent
<1>2. ASSUME NEW e \in Events, Retry(e) PROVE Causes'
  BY <1>2 DEF Retry
<1>3. ASSUME NEW e \in Events, CancelEvent(e) PROVE Causes'
  BY <1>3 DEF CancelEvent
<1>4. ASSUME NEW e \in Events, Claim(e) PROVE Causes'
  BY <1>4 DEF Claim, Oldest
<1>5. CASE Dispatch
  BY <1>5 DEF Dispatch
<1>6. CASE PutBack \/ FindNothing \/ Wake
  BY <1>6 DEF PutBack, FindNothing, Wake
<1>7. ASSUME NEW e \in Events, NEW s \in Slots, Acquire(e, s) PROVE Causes'
  BY <1>7 DEF Acquire
<1>8. ASSUME NEW e \in Events, Succeed(e) PROVE Causes'
  BY <1>8 DEF Succeed, LeaveSlot, Mark
<1>9. ASSUME NEW e \in Events, Fail(e) PROVE Causes'
  BY <1>9 DEF Fail, LeaveSlot, Mark
<1>10. ASSUME NEW e \in Events, Release(e) PROVE Causes'
  BY <1>10 DEF Release
<1>11. ASSUME NEW e \in Events, Spawn(e) \/ CheckCancelled(e) \/ InstallHook(e)
       PROVE Causes'
  BY <1>11 DEF Spawn, MoveThread, CheckCancelled, InstallHook
<1>12. ASSUME NEW e \in Events, NEW o \in {"succeeded", "failed"}, EndWork(e, o)
       PROVE Causes'
  BY <1>12 DEF EndWork, MoveThread
<1>13. ASSUME NEW e \in Events, Interrupt(e) PROVE Causes'
  BY <1>13 DEF Interrupt, CancelTask
<1>14. CASE Start \/ Stop
  BY <1>14 DEF Start, Stop
<1>15. CASE EndDrain \/ EndKill
  BY <1>15 DEF EndDrain, Tasks, EndKill
<1>16. CASE Exit \/ Crash
  BY <1>16 DEF Exit, LoseMemory, Crash
<1>17. CASE UNCHANGED vars
  BY <1>17 DEF vars
<1>18. QED
  BY <1>1, <1>2, <1>3, <1>4, <1>5, <1>6, <1>7, <1>8, <1>9, <1>10, <1>11, <1>12,
       <1>13, <1>14, <1>15, <1>16, <1>17 DEF Next, Server, Dispatcher,
       Shutdown, TaskStep, ThreadStep

(***************************************************************************)
(* The theorems.                                                           *)
(***************************************************************************)
(* The strengthening is an invariant.                                      *)
THEOREM PoolInductive == Spec => []IInv
<1>1. IInv /\ [Next]_vars => IInv'
  BY TypeStep, SchedulingStep, AttendedStep, CausesStep DEF IInv
<1>2. QED BY InvInit, <1>1, PTL DEF Spec

(* The types are right, and while the pool is up no row is running that    *)
(* nobody attends to: queue.py's claim, put back, mark and requeue leave   *)
(* none behind, for any number of events, slots, starts and retries.       *)
THEOREM RowsAreAttended == Spec => []PoolInv
<1>1. IInv => PoolInv
  BY DEF IInv, PoolInv, Attended
<1>2. QED BY PoolInductive, <1>1, PTL

(* The events of one issue are worked on one at a time, also by threads    *)
(* that have outlived their tasks (queue.py, _claim_next_unique).          *)
THEOREM IssuesRunAlone == Spec => []OneRunPerIssue
<1>1. IInv => OneRunPerIssue
  BY DEF IInv, Scheduling, OneTask, Busy, OneRunPerIssue
<1>2. QED BY PoolInductive, <1>1, PTL

(* A shutdown fails no row (queue.py, the except branch of _run_event).    *)
THEOREM ShutdownFailsNothing == Spec => []FailedForCause
<1>1. IInv => FailedForCause
  BY DEF IInv, Causes
<1>2. QED BY PoolInductive, <1>1, PTL
=============================================================================
