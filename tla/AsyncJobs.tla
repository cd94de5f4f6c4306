----------------------------- MODULE AsyncJobs -----------------------------
(***************************************************************************)
(* Background jobs: AsyncJobManager (async/job-manager.ts), the job tool   *)
(* that polls and cancels them (tools/job.ts) and the bash calls that turn *)
(* into background jobs (tools/bash.ts), all of one agent.                 *)
(*                                                                         *)
(* A job runs on its own; when it ends the manager delivers its result to  *)
(* the session through onJobComplete, one delivery at a time, again with a *)
(* backoff when that fails.  A result also reaches the model through the   *)
(* answer of a poll, or of the bash call that waited for it; the delivery  *)
(* is then suppressed.  Suppression goes by job id, and ids are used again *)
(* once the retention of a finished job is over.                           *)
(*                                                                         *)
(* A run is the closure and the AsyncJob object of one registration, known *)
(* by its rank.  A step is the code between two awaits.  An idle delivery  *)
(* loop takes a delivery in the step that queues it; here it is a step of  *)
(* its own, which allows no order a busy loop does not.                    *)
(***************************************************************************)
EXTENDS Arrays, FiniteSets

CONSTANTS
    MaxRuns,     \* bound on the number of registrations
    MaxRunning,  \* AsyncJobManager#maxRunningJobs
    Polls,       \* the calls of the job tool that may wait at once
    MaxFailures  \* bound on the number of failed deliveries

ASSUME RunsAssumption == MaxRuns \in Nat /\ MaxRunning \in Nat
ASSUME FailuresAssumption == MaxFailures \in Nat

Runs == 1..MaxRuns
Ids == 1..MaxRuns       \* bg_1, bg_2, ... ; as many as runs are enough
NoRun == 0

VARIABLES
    \* the AsyncJob objects
    status,       \* job.status; "none" before the registration
    settled,      \* the runs whose promise has settled
    idOf,         \* job.id
    \* AsyncJobManager
    jobs,         \* #jobs: the run of each id, or NoRun
    deliveries,   \* #deliveries: the run, and whether its backoff is over
    inFlight,     \* #inFlightDeliveries: runs handed to onJobComplete
    loopDelivery, \* the delivery the delivery loop awaits, or NoRun
    suppressed,   \* #suppressedDeliveries
    watched,      \* #watchedJobs
    timers,       \* #evictionTimers
    disposal,     \* #disposed, and how far dispose() is
    awaited,      \* the runs dispose() waits for
    \* the callers
    polls,        \* of each call of the job tool: what it tracks and watches
    foreground,   \* runs a bash call still waits for
    \* history
    failures,     \* number of failed deliveries
    handed,       \* runs onJobComplete has passed on, in order
    reported,     \* runs whose outcome was part of a tool's answer
    overlapping   \* runs given an id whose earlier run was not over

runVars == <<status, settled, idOf, overlapping>>
queueVars == <<deliveries, inFlight, loopDelivery, failures, handed>>
disposalVars == <<disposal, awaited>>
callerVars == <<polls, foreground, reported>>
jobVars == <<runVars, jobs, queueVars, suppressed, watched, timers, disposalVars, callerVars>>

NotPolling == [tracked |-> {}, watching |-> {}]

Registered == {r \in Runs : status[r] # "none"}
Known == {jobs[i] : i \in Ids} \ {NoRun}
RunningJobs == {r \in Known : status[r] = "running"}
IsSuppressed(i) == i \in suppressed \cup watched
QueuedRuns == {deliveries[k].run : k \in DOMAIN deliveries}

Init ==
    /\ status = [r \in Runs |-> "none"] /\ settled = {} /\ idOf = [r \in Runs |-> NoRun]
    /\ overlapping = {}
    /\ jobs = [i \in Ids |-> NoRun]
    /\ deliveries = <<>> /\ inFlight = {} /\ loopDelivery = NoRun
    /\ suppressed = {} /\ watched = {} /\ timers = {}
    /\ disposal = "none" /\ awaited = {}
    /\ polls = [p \in Polls |-> NotPolling] /\ foreground = {}
    /\ failures = 0 /\ handed = <<>> /\ reported = {}

-----------------------------------------------------------------------------
(* Jobs *)

(* #resolveJobId: the first id no job of the map has.                      *)
FreeId(i) == jobs[i] = NoRun /\ \A j \in Ids : j < i => jobs[j] # NoRun

(* A run nobody waits for any more.                                        *)
IsOver(r) ==
    r \in settled \ foreground /\ \A p \in Polls : r \notin polls[p].tracked

(***************************************************************************)
(* register(): refused at the limit.  The id's suppression is cleared.  A  *)
(* bash call may wait for the job it registers.                            *)
(***************************************************************************)
Register(r, i, waiting) ==
    /\ disposal = "none"
    /\ status[r] = "none" /\ \A q \in Runs : q < r => status[q] # "none"
    /\ Cardinality(RunningJobs) < MaxRunning
    /\ FreeId(i)
    /\ suppressed' = suppressed \ {i}
    /\ status' = [status EXCEPT ![r] = "running"]
    /\ idOf' = [idOf EXCEPT ![r] = i]
    /\ jobs' = [jobs EXCEPT ![i] = r]
    /\ overlapping' = IF \A q \in Runs : idOf[q] = i => IsOver(q) THEN overlapping
                      ELSE overlapping \cup {r}
    /\ foreground' = IF waiting THEN foreground \cup {r} ELSE foreground
    /\ UNCHANGED <<settled, queueVars, watched, timers, disposalVars, polls, reported>>

(***************************************************************************)
(* The run returns or throws: unless it was cancelled, the outcome is      *)
(* queued for delivery ("completed" stands for "failed" too), but not if   *)
(* the id is acknowledged or watched.  The id's eviction is scheduled.     *)
(***************************************************************************)
Settle(r) ==
    /\ status[r] \in {"running", "cancelled"} /\ r \notin settled
    /\ settled' = settled \cup {r}
    /\ timers' = timers \cup {idOf[r]}
    /\ IF status[r] = "cancelled"
       THEN UNCHANGED <<status, deliveries>>
       ELSE /\ status' = [status EXCEPT ![r] = "completed"]
            /\ deliveries' = IF IsSuppressed(idOf[r]) THEN deliveries
                             ELSE Append(deliveries, [run |-> r, due |-> TRUE])
    /\ UNCHANGED <<idOf, overlapping, jobs, inFlight, loopDelivery, failures, handed, suppressed,
                   watched, disposalVars, callerVars>>

(* The effect of cancelling a set of running jobs.                         *)
CancelRuns(S) ==
    /\ status' = [r \in Runs |-> IF r \in S THEN "cancelled" ELSE status[r]]
    /\ timers' = timers \cup {idOf[r] : r \in S}

(* cancelAll() of the session's agent: a new or another session, a handoff.*)
CancelAll ==
    /\ disposal = "none" /\ RunningJobs # {}
    /\ CancelRuns(RunningJobs)
    /\ UNCHANGED <<settled, idOf, overlapping, jobs, queueVars, suppressed, watched, disposalVars, callerVars>>

(* The retention of a finished job is over: its id is free again.  It lasts*)
(* minutes from the last end or cancellation under this id: a tool that a  *)
(* settled job wakes up has answered, and onJobComplete has returned.      *)
Evict(i) ==
    /\ i \in timers
    /\ \A r \in inFlight \cup (settled \cap foreground) : idOf[r] # i
    /\ \A p \in Polls, r \in settled :
           r \in polls[p].tracked => idOf[r] \notin polls[p].watching
    /\ timers' = timers \ {i}
    /\ jobs' = [jobs EXCEPT ![i] = NoRun]
    /\ suppressed' = suppressed \ {i}
    /\ watched' = watched \ {i}
    /\ UNCHANGED <<runVars, queueVars, disposalVars, callerVars>>

-----------------------------------------------------------------------------
(* Deliveries *)

(* #runDeliveryLoop drops a head that was suppressed while it waited.      *)
DropHead ==
    /\ loopDelivery = NoRun /\ deliveries # <<>>
    /\ IsSuppressed(idOf[Head(deliveries).run])
    /\ deliveries' = Tail(deliveries)
    /\ UNCHANGED <<runVars, jobs, inFlight, loopDelivery, failures, handed, suppressed,
                   watched, timers, disposalVars, callerVars>>

(* Mutant of DeliverHead: the head leaves the queue only once delivered.   *)
DeliverHeadInPlace ==
    /\ loopDelivery = NoRun /\ deliveries # <<>> /\ Head(deliveries).due
    /\ ~IsSuppressed(idOf[Head(deliveries).run])
    /\ loopDelivery' = Head(deliveries).run
    /\ inFlight' = inFlight \cup {Head(deliveries).run}
    /\ UNCHANGED <<runVars, jobs, deliveries, failures, handed, suppressed, watched,
                   timers, disposalVars, callerVars>>

(* #runDeliveryLoop takes the head once its backoff is over, and calls     *)
(* onJobComplete.                                                          *)
DeliverHead ==
    /\ loopDelivery = NoRun /\ deliveries # <<>> /\ Head(deliveries).due
    /\ ~IsSuppressed(idOf[Head(deliveries).run])
    /\ deliveries' = Tail(deliveries)
    /\ loopDelivery' = Head(deliveries).run
    /\ inFlight' = inFlight \cup {Head(deliveries).run}
    /\ UNCHANGED <<runVars, jobs, failures, handed, suppressed, watched, timers,
                   disposalVars, callerVars>>

(* #deliverNextFiltered, for a client that drains the agent's deliveries:  *)
(* any delivery that is due, beside the loop.                              *)
DeliverDrained(k) ==
    /\ deliveries[k].due /\ ~IsSuppressed(idOf[deliveries[k].run])
    /\ deliveries' = SubSeq(deliveries, 1, k - 1)
                         \o SubSeq(deliveries, k + 1, Len(deliveries))
    /\ inFlight' = inFlight \cup {deliveries[k].run}
    /\ UNCHANGED <<runVars, jobs, loopDelivery, failures, handed, suppressed, watched,
                   timers, disposalVars, callerVars>>

(* The backoff of a failed delivery is over.                               *)
BackoffOver(k) ==
    /\ ~deliveries[k].due
    /\ deliveries' = [deliveries EXCEPT ![k].due = TRUE]
    /\ UNCHANGED <<runVars, jobs, inFlight, loopDelivery, failures, handed, suppressed,
                   watched, timers, disposalVars, callerVars>>

(* onJobComplete is over for a run; the loop, if it awaits it, goes on.    *)
EndDelivery(r) ==
    /\ r \in inFlight
    /\ inFlight' = inFlight \ {r}
    /\ loopDelivery' = IF loopDelivery = r THEN NoRun ELSE loopDelivery
    /\ UNCHANGED <<runVars, jobs, suppressed, watched, timers, disposalVars, callerVars>>

(* Mutant of FinishDelivery: no second look after the result is formatted. *)
FinishDeliveryUnchecked(r) ==
    /\ EndDelivery(r)
    /\ handed' = Append(handed, r)
    /\ UNCHANGED <<deliveries, failures>>

(* onJobComplete has formatted the result; it passes it on to the session  *)
(* unless it was suppressed meanwhile.                                     *)
FinishDelivery(r) ==
    /\ EndDelivery(r)
    /\ handed' = IF IsSuppressed(idOf[r]) THEN handed ELSE Append(handed, r)
    /\ UNCHANGED <<deliveries, failures>>

(* Mutant of FailDelivery: the failed delivery is given up.                *)
FailDeliveryForGood(r) ==
    /\ EndDelivery(r)
    /\ failures < MaxFailures
    /\ failures' = failures + 1
    /\ UNCHANGED <<deliveries, handed>>

(* onJobComplete throws: the delivery goes to the end of the queue.        *)
FailDelivery(r) ==
    /\ EndDelivery(r)
    /\ failures < MaxFailures
    /\ failures' = failures + 1
    /\ deliveries' = IF IsSuppressed(idOf[r]) THEN deliveries
                     ELSE Append(deliveries, [run |-> r, due |-> FALSE])
    /\ UNCHANGED handed

-----------------------------------------------------------------------------
(* The job tool, and bash calls that wait *)

(* acknowledgeDeliveries: ids are suppressed, and what is queued is swept. *)
Acknowledge(ids) ==
    /\ suppressed' = suppressed \cup ids
    /\ deliveries' = Filtered(deliveries,
                              {k \in DOMAIN deliveries :
                                   idOf[deliveries[k].run] \notin suppressed' \cup watched'})

(* #snapshotJobs: each tracked job is looked up again by its id.           *)
Latest(r) == IF jobs[idOf[r]] # NoRun THEN jobs[idOf[r]] ELSE r

(* #buildResult for a set of runs: those that ended are acknowledged.      *)
BuildResult(S) ==
    LET ended == {q \in {Latest(r) : r \in S} : status[q] # "running"}
    IN  /\ Acknowledge({idOf[q] : q \in ended})
        /\ reported' = reported \cup ended

(* A poll answers at once when none of the jobs is running; otherwise it   *)
(* watches those that are, and waits.                                      *)
StartPoll(p, S) ==
    /\ disposal = "none" /\ polls[p] = NotPolling
    /\ S \subseteq Known /\ S # {}
    /\ LET running == S \cap RunningJobs
       IN  IF running = {}
           THEN UNCHANGED <<polls, watched>> /\ BuildResult(S)
           ELSE /\ polls' = [polls EXCEPT ![p] =
                                 [tracked |-> S, watching |-> {idOf[r] : r \in running}]]
                /\ watched' = watched \cup {idOf[r] : r \in running}
                /\ UNCHANGED <<suppressed, deliveries, reported>>
    /\ UNCHANGED <<runVars, jobs, inFlight, loopDelivery, failures, handed, timers,
                   disposalVars, foreground>>

(* Mutant of ReturnPoll: no finally block, the jobs stay watched.          *)
ReturnPollWatching(p) ==
    /\ polls[p] # NotPolling
    /\ polls' = [polls EXCEPT ![p] = NotPolling]
    /\ watched' = watched
    /\ BuildResult(polls[p].tracked)
    /\ UNCHANGED <<runVars, jobs, inFlight, loopDelivery, failures, handed, timers,
                   disposalVars, foreground>>

(* The wait is over: a job ended, the time is up, or the call is aborted.  *)
ReturnPoll(p) ==
    /\ polls[p] # NotPolling
    /\ polls' = [polls EXCEPT ![p] = NotPolling]
    /\ watched' = watched \ polls[p].watching
    /\ BuildResult(polls[p].tracked)
    /\ UNCHANGED <<runVars, jobs, inFlight, loopDelivery, failures, handed, timers,
                   disposalVars, foreground>>

(* The cancel operation of the job tool, which answers at once; with the   *)
(* same effect, an aborted bash call cancels the job it waits for.         *)
CancelJob(r) ==
    /\ disposal = "none" /\ r \in RunningJobs
    /\ CancelRuns({r})
    /\ foreground' = foreground \ {r}
    /\ reported' = reported \cup {r}
    /\ watched' = watched
    /\ Acknowledge({idOf[r]})
    /\ UNCHANGED <<settled, idOf, overlapping, jobs, inFlight, loopDelivery, failures, handed,
                   disposalVars, polls>>

(* The job a bash call waits for ends: the call answers with its result.   *)
ReturnForeground(r) ==
    /\ r \in foreground \cap settled
    /\ foreground' = foreground \ {r}
    /\ reported' = reported \cup {r}
    /\ watched' = watched
    /\ Acknowledge({idOf[r]})
    /\ UNCHANGED <<runVars, jobs, inFlight, loopDelivery, failures, handed, timers,
                   disposalVars, polls>>

(* The bash call has waited long enough: the job goes on in the background.*)
Background(r) ==
    /\ r \in foreground \ settled
    /\ foreground' = foreground \ {r}
    /\ UNCHANGED <<runVars, jobs, queueVars, suppressed, watched, timers, disposalVars,
                   polls, reported>>

-----------------------------------------------------------------------------
(* dispose() *)

(* Mutant of Dispose: running jobs are left alone, and waited for.         *)
DisposeGently ==
    /\ disposal = "none"
    /\ disposal' = "waiting" /\ awaited' = Known
    /\ timers' = {}
    /\ UNCHANGED <<runVars, jobs, queueVars, suppressed, watched, callerVars>>

(* It cancels every running job of the map, and waits for all of the map.  *)
Dispose ==
    /\ disposal = "none"
    /\ disposal' = "waiting" /\ awaited' = Known
    /\ status' = [r \in Runs |-> IF r \in RunningJobs THEN "cancelled" ELSE status[r]]
    /\ timers' = {idOf[r] : r \in RunningJobs}
    /\ UNCHANGED <<settled, idOf, overlapping, jobs, queueVars, suppressed, watched, callerVars>>

(* All have settled, and the deliveries are drained or that took too long: *)
(* everything is forgotten.  A delivery in flight goes on.                 *)
FinishDispose ==
    /\ disposal = "waiting" /\ awaited \subseteq settled
    /\ disposal' = "done" /\ UNCHANGED awaited
    /\ jobs' = [i \in Ids |-> NoRun]
    /\ deliveries' = <<>>
    /\ suppressed' = {} /\ watched' = {} /\ timers' = {}
    /\ UNCHANGED <<runVars, inFlight, loopDelivery, failures, handed, callerVars>>

-----------------------------------------------------------------------------

JobEnds == \E r \in Runs : Settle(r)

Delivery ==
    \/ DropHead \/ DeliverHead
    \/ \E k \in DOMAIN deliveries : BackoffOver(k)
    \/ \E r \in Runs : FinishDelivery(r) \/ FailDelivery(r)

Tools ==
    \/ \E p \in Polls : ReturnPoll(p)
    \/ \E r \in Runs : ReturnForeground(r)

Callers ==
    \/ \E r \in Runs, i \in Ids, waiting \in BOOLEAN : Register(r, i, waiting)
    \/ \E p \in Polls, S \in SUBSET Runs : StartPoll(p, S)
    \/ \E r \in Runs : CancelJob(r) \/ Background(r)
    \/ \E k \in DOMAIN deliveries : DeliverDrained(k)
    \/ CancelAll \/ Dispose

Next ==
    \/ JobEnds \/ Delivery \/ Tools \/ Callers
    \/ \E i \in Ids : Evict(i)
    \/ FinishDispose

(***************************************************************************)
(* The event loop runs what is ready, backoffs and waits end, and a job    *)
(* that was cancelled obeys its signal.  A job may run for ever, and       *)
(* nobody has to call the manager.                                         *)
(***************************************************************************)
Fairness ==
    /\ WF_jobVars(DropHead \/ DeliverHead)
    /\ WF_jobVars(\E k \in DOMAIN deliveries : BackoffOver(k))
    /\ \A r \in Runs : WF_jobVars(FinishDelivery(r) \/ FailDelivery(r))
    /\ \A p \in Polls : WF_jobVars(ReturnPoll(p))
    /\ \A r \in Runs : WF_jobVars(ReturnForeground(r))
    /\ \A r \in Runs : WF_jobVars(status[r] = "cancelled" /\ Settle(r))
    /\ WF_jobVars(FinishDispose)

Spec == Init /\ [][Next]_jobVars /\ Fairness

-----------------------------------------------------------------------------
(* Properties *)

Statuses == {"none", "running", "completed", "cancelled"}

TypeOK ==
    /\ status \in [Runs -> Statuses]
    /\ settled \subseteq Registered
    /\ idOf \in [Runs -> Ids \cup {NoRun}]
    /\ jobs \in [Ids -> Runs \cup {NoRun}]
    /\ deliveries \in Seq([run : Runs, due : BOOLEAN])
    /\ inFlight \subseteq Runs
    /\ loopDelivery \in inFlight \cup {NoRun}
    /\ suppressed \subseteq Ids /\ watched \subseteq Ids /\ timers \subseteq Ids
    /\ disposal \in {"none", "waiting", "done"}
    /\ awaited \subseteq Runs
    /\ polls \in [Polls -> [tracked : SUBSET Runs, watching : SUBSET Ids]]
    /\ foreground \subseteq Runs
    /\ failures \in 0..MaxFailures
    /\ handed \in Seq(Runs)
    /\ reported \subseteq Runs
    /\ overlapping \subseteq Runs

WasHanded(r) == \E k \in DOMAIN handed : handed[k] = r

(* The id of a run has been given to a later one, or was taken from an     *)
(* earlier one that was not over (a cancelled run may outlive its record). *)
IdShared(r) ==
    r \in overlapping \/ \E q \in Registered : q > r /\ idOf[q] = idOf[r]

(* Nobody is left without an answer: the outcome of a job that was not     *)
(* cancelled is queued, being delivered, handed to the session, part of an *)
(* answer of a tool, or tracked by a poll that will answer with it.  It    *)
(* holds whatever polls come and go, watch the same job, time out or fail, *)
(* and whenever a retention ends, as long as the manager lives and the id  *)
(* means this job alone.                                                   *)
ResultKept ==
    \A r \in Runs :
        status[r] = "completed" /\ disposal # "done" /\ ~IdShared(r) =>
            \/ r \in QueuedRuns \cup inFlight \cup reported
            \/ WasHanded(r)
            \/ \E p \in Polls : r \in polls[p].tracked

(* The loop, a drain beside it and the retries hand a result over once.    *)
HandedOnce == \A j, k \in DOMAIN handed : handed[j] = handed[k] => j = k

(* A cancelled job is not heard of again through the delivery queue.       *)
CancelledIsSilent ==
    \A r \in Runs : status[r] = "cancelled" =>
        r \notin QueuedRuns \cup inFlight /\ ~WasHanded(r)

(* The session hears of an outcome at most once, whatever retries, drains  *)
(* and delivers at a time, and of a cancelled job not at all.              *)
HeardAtMostOnce == HandedOnce /\ CancelledIsSilent

(* What a tool has already answered with is not handed to the session as   *)
(* well, even if its delivery was in flight, as long as the job is known.  *)
ReportedIsNotHanded ==
    [][\A r \in reported :
           ~WasHanded(r) /\ WasHanded(r)' => jobs[idOf[r]] # r]_jobVars

(* The outcome of a job gets somewhere, whatever is ahead of it in the     *)
(* queue and however often deliveries fail.                                *)
ResultsArrive ==
    \A r \in Runs :
        status[r] = "completed" ~>
            WasHanded(r) \/ r \in reported \/ IdShared(r) \/ disposal = "done"

(* dispose() ends, because what it waits for it has cancelled.             *)
DisposeEnds == disposal = "waiting" ~> disposal = "done"

(* job-manager.ts on cancelAll(): "with no filter, cancels every running   *)
(* job (used by `dispose()` to nuke the manager's state)."                 *)
DisposeCancelsAll ==
    [][disposal = "none" /\ disposal' = "waiting" =>
           \A r \in Runs : status'[r] # "running"]_jobVars
=============================================================================
