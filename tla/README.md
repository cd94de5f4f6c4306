# Verification of open-agents

TLA+ models of the parts of this repository that carry its own concurrent logic,
model-checked with TLC on small instances, and theorems about them checked by TLAPS.
Every definition is a translation of the code; `PROJECT.json` (`map`) names the
lines of each one. Paths below are relative to the repository.

Contents: [the system](#the-system) · [the modules](#the-modules) ·
[the runs](#the-runs) · [races the models name](#races-the-models-name) ·
[fairness](#fairness) · [the proofs](#the-proofs) ·
[disagreements](#where-the-code-and-its-documentation-disagree) ·
[what is left out](#what-is-left-out) · [plan](#plan)

How to run, in this directory:

    tlc -workers 2 -config MCToolBatch.cfg MCToolBatch      # a configuration <c>.cfg of a module
    tlapm ToolsProofs.tla                                   # the proofs of a module

## The system

open-agents is a coding agent: a terminal program in TypeScript (`packages/`, on
Bun), with native helpers in Rust (`crates/`) and `robomp`, a Python service
(`python/robomp`) that answers GitHub events by running the agent. These parts
have state that several activities change at once.

| component | state | operations | meets |
|---|---|---|---|
| Agent (`packages/agent/src/agent.ts`) | `state.messages`, `isStreaming`, steering and follow-up queues, abort controller | `prompt`, `continue`, `steer`, `followUp`, `popLast*`, `clear*`, `abort`, consuming events | calls the loop; is called by the session, the UI and extensions |
| Agent loop (`agent-loop.ts`) | its own context, `pendingMessages`, `hasMoreToolCalls`, retry counter | model calls, Harmony retries, turns, follow-ups, `agent_end` | polls the Agent's queues, awaits hooks and providers, pushes events into an event stream |
| Tool batch (`executeToolCalls`) | one record and one promise per tool call, `interruptState`, one shared steering poll | scheduling, hooks, `execute`, results, interrupts, tail sweep | tools; the steering queue |
| Event stream (`packages/ai/src/utils/event-stream.ts`) | queue, waiters, result | push, end, fail, iterate | between loop and Agent |
| Session turns (`coding-agent/src/session/agent-session.ts`) | prompt generation, prompts in flight, retry attempt, promise and controller, post-prompt tasks | prompt, retry after a failed run, continue, abort, `/retry` | the Agent, whose `agent_end` it handles without being waited for |
| Tool-choice queue (`session/tool-choice-queue.ts`, `tools/resolve.ts`) | queued directives, the one in flight | push, take, serve, reject, remove; apply or discard a preview | the loop's turns, `turn_end`, prompts, `abort()`, the tool `resolve` |
| Session file (`session/session-manager.ts`) | entries in memory, the file, backups, the cached descriptor, the queue of rewrites | append, rewrite, prune, close, resume | the disk; crashes |
| Background jobs (`async/job-manager.ts`) | jobs by id, delivery queue, suppressed and watched ids, eviction timers | register, cancel, watch, acknowledge, deliver, drain, evict, dispose | the `job` and `bash` tools; the session |
| Yield queue (`session/yield-queue.ts`) | entries, `#idleFlushPending` | enqueue, flush, idle flush | job deliveries; the turn's end; prompts |
| MCP manager (`mcp/manager.ts`) | connections, pending connections, tool loads and reconnections, epoch, breaker, tools | connect, lose, reconnect, disconnect one or all | transports (child processes, HTTP); tool calls that fail; the user |
| File lock (`config/file-lock.ts`) | a directory with an info file | acquire, find stale, reap, release | other processes, which may die |
| robomp queue (`python/robomp/src/queue.py`, `slot_pool.py`, `cancellation.py`, the `events` table of `db.py`) | rows, in-flight issues, slots, hooks, cancellations, tasks, worker threads | record, claim, put back, run, mark, retry, cancel, start, stop, crash | the HTTP server; worker threads that spawn agents |

`PROJECT.json` lists the other parts too, each with the reason it is not modelled:
subagents, goals, LSP/DAP clients, swarm DAGs, hashline edits, providers and
credentials, compaction, extensions, tools, the terminal interface, the memory
engine, statistics, native crates, the vendored shell, robomp's other modules and
the RPC client.

### What is hard here

*Interleaving on one event loop.* Nothing is preempted, but each `await` lets
everything else run. A tool batch runs up to any number of calls, each of which
awaits twice or more; `steer()` and `abort()` come in between.
*Handlers nobody waits for.* The Agent calls its listeners and goes on: the handler of
`agent_end` decides on a retry, the handler of `turn_end` settles the forced tool,
when the next run or call may have begun.
*Two copies of one truth.* The loop's context and the Agent's messages; the entries
in memory and in the file; the delivery queue, the yield queue and the tool's answer
for one job's result; the table's `running` rows and the pool's memory of them.
*Suppression on promise.* A delivery is dropped because a poll will answer
instead; a flush because the turn will; a row is not marked failed because the
next start will queue it again. Each drop is right only if the promise is kept.
*Ids that are used again,* while what had the id before has not ended.
*Threads next to an event loop* (robomp): cancelling a task does not stop its thread.
*Crash and restart*: of robomp only the table survives, of a session only the file
and its backups, of a lock's owner the directory it made.

Under `hazards`, `PROJECT.json` names each of these at its line, with the
properties that would catch it going wrong.

### What makes each part correct

* Tool batch: an exclusive tool runs alone; every call is answered exactly once;
  "skipped" is only said when a message interrupted the batch; no steering message
  is lost; once interrupted nothing starts; the batch returns. To the loop it looks
  as if its calls ran in the order of the message (`OrderedBatch`).
* Agent and loop: the two conversations agree; calls and results stay paired as
  the API demands, whatever failed; queued messages reach the conversation once, in
  order; `abort()` ends the run.
* Session turns: a prompt is tried again a bounded number of times; it returns, and
  only when all of its runs are over; what `abort()` stopped does not come back; a
  session with a prompt in it says that it is busy.
* Tool choices: what the user forces is served once and in order; a preview is
  neither stranded nor applied twice.
* Session file: what the disk has taken can be read again after any failure and any
  death; the file comes to hold what memory holds.
* Background jobs: the outcome of every job gets somewhere, once; a cancelled job
  is silent; `dispose()` ends.
* Job delivery: a result is not lost between manager and conversation, the model is
  not told twice, and a scheduled flush happens.
* MCP manager: no child process is left behind; a disconnected server stays off;
  reconnections are shared; a loss is noticed.
* File lock: it excludes, spares the locks of others, and is not left behind.
* Event queue: one run per issue; a running row is attended to; shutdown fails no
  row; every event is handled in the end, across crashes.

## The modules

    AgentQueues    <- ToolBatch, AgentLoop       (EXTENDS)
    Arrays         <- AgentLoop, AsyncJobs, ToolChoice, SessionPersistence   (EXTENDS)
    ToolBatch      <- AgentLoop                  (INSTANCE: the batch inside a turn)
    OrderedBatch   <- ToolBatch                  (INSTANCE ... WITH: what the batch implements)
    AsyncJobs      <- JobDelivery                (EXTENDS: the manager inside the session)
    SessionTurns, McpManager, FileLock, WorkerPool

    SequenceFacts  <- ToolsProofs, AgentLoopProofs, JobDeliveryProofs, FilesProofs, McpManagerProofs
    WorkerPoolProofs, SessionTurnsProofs

Each component has an `MC...` module and one or more configurations. In the models a step is
the code between two awaits (in robomp's worker threads and in the file lock, one operation on
shared state). Operators that begin with the name of another and are marked "Mutant of"
are deliberate bugs; they are not part of a specification and exist so that each
property can be shown to notice one.

**AgentQueues** — the dequeue discipline both queues of the Agent share
(`#dequeueSteeringMessages`, `#dequeueFollowUpMessages`, `popLast*`).

**Arrays** — `Array.prototype.filter` as `Filtered(s, K)`: the elements of `s` at the positions
in `K`, in order.

**ToolBatch** — `executeToolCalls` and `runTool`. `task[i]` says which await the
promise of call `i` is at: its barrier (`waiting`), `beforeToolCall` (`before`),
`tool.execute` (`executing`), `afterToolCall` (`after`), the steering poll
(`checking`), or none (`settled`). `Barrier` is the promise the scheduling loop
makes a call wait for: an exclusive call for the last exclusive call and the shared
ones since, a shared call for the last exclusive one. `Start` is the beginning of
`runTool` with its early return if the batch is interrupted; `Produce` the end of
its try block; `Finish` the emission and the call of `checkSteering`, which dequeues
at the call but looks at what it dequeued one turn of the event loop later
(`ResolveCheck`; concurrent polls share one); `Return` the tail sweep. The content
of results is abstracted to `ok`, `error`, `refused`, `skipped`.

**OrderedBatch** — what the batch promises the loop, without promises, hooks or polls: a
call runs once the earlier calls it must not overlap are over, is answered once, and is
skipped only after an interrupt. ToolBatch implements it (`ImplementsOrderedBatch`),
`running` being the calls between their start and their result.

**AgentLoop** — `Agent.prompt/continue/#runLoop` with `runLoopBody` and
`streamAssistantResponse`. `pc` is the await the loop is at. `context` is
`currentContext.messages`, `messages` is `state.messages`, `events` the event stream
between them (only messages that ended, and `agent_end`), which `Consume` drains
step by step. `StartResponse`, `FinishResponse`, `AbortResponse`, `RetryHarmonyLeak`
and `Throw` are the ways a model call goes; `StopTurn`, `PassTurn` and `RunTools` the
three branches after it; `ToolStep` is a step of ToolBatch, whose results are
announced as they are emitted; `FinishTools` appends them and either takes the
batch's interrupt or polls; `Yield` is `onBeforeYield` and the follow-up dequeue;
`FinishRun` the code after the `for await` and its `finally`. `leftover` is the
Agent's `partial` when it belongs to a leaked response the loop has popped; it may hold tool calls,
for which there never are results.

**SessionTurns** — what AgentSession adds to the runs of its Agent. Runs, the handler of
each run's `agent_end`, the post-prompt task it leaves, prompts and `abort()` are
asynchronous functions, each with a variable for the await it is at. A run has answers that call
tools (`Answer`) before its last message (`EndRun`); each good message ends a chain of retries, but
the count of attempts is reset by a handler of its own, which comes later (`EndCount`). The handler of
`agent_end` takes the message tracked last (`lastAssistantMessage`, one field for all of them:
`Taken`), leaves without further ado after a `yield` tool, in a handoff or without a message
(`Leave`), lets an answer be (`Finish`), decides on a retry (`Decide`, `GiveUp`, `FailFast`), sleeps
(`Sleep`, `WakeUp`, `Awakened`) and schedules `Continue`. A prompt bails out when it finds itself
aborted after its set-up (`BailOut`), waits while the Agent is busy (`Queue`, `TimeOut`) and then
starts its run whether or not it has been aborted meanwhile (`StartPrompt`); `Settled` and `Return`
are its wait for all that follows. `Abort`, `Drained`, `EndAbort` are the three parts of `abort()`;
`Retry` is the user's.

**ToolChoice** — the queue of forced tool choices with the turns that take them and the
previews whose code waits in it. `NextToolChoice`, `Resolve`, `Reject` are the methods of
the same names; `CallModel` takes a choice, `TurnEnd` is the session's handler, which
settles it after the extensions have been told; `Leak` and `Throw` are turns without a
`turn_end`, `EndAbort` the safety net for them. `MakePreview` is a preview that is queued,
`MakeUnforceable` one of a model that cannot be made to call a tool by name, for which nothing is
queued. `CallResolve`, `EndResolve`, `ResolveFails` run the code of the preview in flight; a tool that
an abort or a steering message has left behind goes on (`stray`). The specification is `ChoiceSpec`.

**SessionPersistence** — `#fileEntries`, the session file and its backups as sequences of
lines (a line may be torn by a failed write, or garbled by an append behind one), the
cached descriptor and the file it is on (`fd`), the queue of rewrites (`chain`, `step`).
`Append1`, `HotWrite`, `DeferredWrite`, `QueuedWrite` are the ways of an append; `Snapshot`,
`WriteTemp`, `Replace`, `Aside`, `Place`, `Promote`, `Rollback`, `Discard` the steps of a
rewrite and of its fallback on EPERM. The process may `Die` at any step; `ResumeListed` scans
for backups first, `ResumePath` does not. The specification is `FileSpec`.

**AsyncJobs** — `AsyncJobManager`, the `job` tool and the waiting `bash` tool. A run
is one registration; `idOf` is its id, `jobs` the map from ids, so that a cancelled
run can outlive its record and see its id in use again. `Settle` is the end of a
run's promise, `DropHead`/`DeliverHead`/`FinishDelivery`/`FailDelivery`/`BackoffOver`
the delivery loop (with `onJobComplete` of `sdk.ts`), `DeliverDrained` a drain beside
it, `StartPoll`/`ReturnPoll`/`CancelJob` the `job` tool, `ReturnForeground` and
`Background` the `bash` tool, `Dispose`/`FinishDispose` `dispose()`.

**JobDelivery** — AsyncJobs, whose variables and actions it extends (`DeliverySpec`), composed with
the yield queue and the phases of a turn. `onJobComplete` ends with `enqueue` (`Enqueue`); `Yield`
is the flush of `onBeforeYield`, `IdleFlush` the scheduled task of an idle session. A turn may also
end by an error, or an exception, without that flush (`FailTurn`), and be taken up again (`Retry`) or
not. Jobs are
registered and polled by the tools of a turn; the answer of a tool is `shown` to the model or not
(ToolBatch says when it is not).

**McpManager** — the manager's maps for one server. A task is one `connectServers()`
(`Connect` to `EndConnect`) or one `#doReconnect()` (`Attempt`, `Wired`, `Listed`,
`ListFails`, `Cleanup`, `Awake`), with the epoch it has read; a transport is a number, and
`live` are those that are open. The handler of a loss is installed when the handshake has been
awaited, by when the transport may have been lost (`Open`); a listing of tools may be answered over
HTTP although its transport has been closed (`Loaded`, `Listed`). `Lose` is a transport that closes by
itself, whose handler reconnects; `ToolCallFails` a tool call that asks for a reconnection; `Trip` the
breaker.

**FileLock** — one client per call of `withFileLock()`, every file operation a step;
`fs.rm` is two, since it removes the info file and then the directory. `dir` and `info`
are who made the directory and whose token is in it; `seen` is what a call has looked at
before it decided; age is one bit.

**WorkerPool** — robomp's queue. `rows` and `order` are the `events` table, the only
state that survives `Exit` and `Crash`. `dispatcher`, `claimed` and `inflight` are the
dispatch loop with its lock; `task`, `slot` the coroutine `_run_event`; `thread` the
worker thread (`starting`, `spawned`, `arming`, `armed`), which goes on when its task is
cancelled; `hooks`, `cancelled`, `shutdownCancelled` the three sets of the same names.
`Stop`, `EndDrain`, `Interrupt`, `EndKill`, `Exit` are the stages of a shutdown, `Start`
puts running rows back.

**SequenceFacts** — the least-number principle and what filtering a sequence does, for proofs.
**ToolsProofs** (ToolBatch and ToolChoice), **AgentLoopProofs**, **JobDeliveryProofs** (AsyncJobs
and JobDelivery), **FilesProofs** (FileLock and SessionPersistence), **SessionTurnsProofs**,
**McpManagerProofs**, **WorkerPoolProofs** — the theorems.

## The runs

Twelve, each within four minutes on two workers (on an idle machine; `session_turns` and `mcp_manager` take longest).

| run | bounds | states | properties |
|---|---|---|---|
| `tool_batch` | 3 calls, any set of them exclusive, 2 steering messages, immediate mode | 112 000 | `BatchInv`, `ExclusiveAlone`, `SteeringInOrder`, `ImplementsOrderedBatch`, `BatchReturns` |
| `agent_loop` | 2 turns with 2 calls in all, 2 queued messages of either kind, steering mode `all`, 1 prompt and any `continue()` | 496 000 | `LoopInv`, `ConversationMirrored`, `MessagesDelivered`, `AbortEndsRun` |
| `session_turns` | 2 prompts, 3 runs, 1 answer with tool calls, 1 abort, 1 retry by hand, `maxRetries` 1 | 487 000 | `CountInv`, `RetriesBounded`, `ReturnedIsSettled`, `AbortStopsRetries`, `PromptReturns` |
| `tool_choice` | 2 previews, 3 model calls, 1 prompt, 1 abort, 2 calls of `resolve`, one forced tool, one forced todo list | 4 457 000 | `ChoiceInv`, `PreviewKept`, `AppliedOnce` |
| `session_persistence` | 2 entries, 3 rewrites asked for, 3 failures, 1 death | 567 000 | `FileInv`, `SavedIsRecoverable`, `EntryPersisted` |
| `session_persistence_hot` | 3 entries, 1 rewrite asked for, no failure, no death | | *violation* of `HotAppendSurvives` |
| `async_jobs` | 2 runs that share or reuse an id, 2 polls, 1 failed delivery, drains, evictions, dispose | 287 000 | `ResultKept`, `HeardAtMostOnce`, `ReportedIsNotHanded`, `ResultsArrive`, `DisposeEnds` |
| `job_delivery` | 2 runs, 1 poll, 2 prompts, 1 abort; failed deliveries are in `async_jobs` | 138 000 | `FlushInv`, `EntryKept`, `NotToldTwice`, `FlushedInTheEnd` |
| `mcp_manager` | 3 tasks, 2 transports, 1 disconnection, 1 delay, breaker at 2 | 565 000 | `QuietInv`, `StaysOff`, `OneReconnection`, `LossIsNoticed` |
| `file_lock` | 3 calls in 3 processes, 2 attempts each, 1 death | 1 123 000 | `LockInv`, `NothingLeft`, `ReleaseSparesOthers` |
| `worker_pool` | 3 events of 2 issues, 2 slots, 2 starts, 1 retry, 1 cancellation, stop or crash anywhere | 3 078 000 | `PoolInv`, `OneRunPerIssue`, `FailedForCause` |
| `worker_pool_live` | 3 events of 2 issues, 1 slot, 2 starts | 29 000 | `EventuallyHandled` |

Why the bounds are enough for the cases to happen: three calls are the least with an
exclusive one between two shared ones, two messages the least that can be reordered or come
in one dequeue. Two turns suffice to carry something from one to the next (an interrupt, a
retry, a cut message), two calls to answer one and skip one. Two prompts and three runs make a
late handler of an aborted prompt meet the run of the next or its retry, and a retry answer with tool
calls before it fails again. Three model calls let a choice be
overwritten, put back and served. Two entries and three rewrites are a pruning, an append that is
left to the next rewrite and one beside a rewrite or a close; three failures make the fallback and
then its roll-back fail. The safety of SessionPersistence was also checked, outside the runs, with
3 entries and 2 rewrites, with 4 and 2, and by random behaviours of 5 of each. Two runs of one id make the
id be used again, two polls a job watched twice. Three tasks are a connection, a reconnection
and one more in its place. Two contenders beside an owner can both find its lock stale. One slot
and two events of one issue make every kind of waiting happen.

Deadlock is not checked: in each model everything may be done and nobody have to
call again, which is a state where these programs really stop. That something that
must go on does is stated as a liveness property instead.

No symmetry is used. Counters that the code does not bound (messages, prompts, runs,
entries, faults, starts) are bounded by the constants named `Max...`, in the
guard of the action that counts; `MaxTurns` of AgentLoop bounds the assistant messages of all
runs, `MaxToolCalls` their tool calls, `MaxMessages` what is queued and not withdrawn.

**What the passing properties mean.** `ConversationMirrored` relates the two lists at
every moment of a run, counting what is still in the event stream.
`CallsPaired` (in `LoopInv`) holds for every request sent and every idle Agent, after aborts,
errors, cut messages (`length`), interrupts and exceptions, with one exception: the end of a run
commits a leaked response the Agent still has as its `partial` (`agent.ts:1074-1083`), and calls in
it have no results, neither then nor in a later request. The property says that nothing else is ever
unpaired. `MessagesDelivered` says
where every queued message is: conversation, pending, batch or queue, in this order.
`ResultKept` and `EntryKept` are the same for a job's outcome. Both exempt a run whose
id was given to another one (`IdShared`): the manager finds results by id, and
`DisposeCancelsAll` shows what that leads to. `NotToldTwice` and `ReportedIsNotHanded`
hold as long as the manager still has the job; suppression ends with its retention
(see `ToldIsDropped` below). `FlushedInTheEnd` speaks of turns that yield: one that fails or is
aborted flushes nothing, and what it leaves waits for the next turn. `RetriesBounded` bounds the
retries in a row: an answer between two failures, also one that calls tools, begins a new chain, as
`docs/non-compaction-retry-policy.md:78` says. `PromptReturns` has an exception too: a handler that
leaves early (`agent-session.ts:1844-1868`) while a retry's promise is pending leaves the promise
behind, and a prompt may wait for it until something else resolves it. `LossIsNoticed` is of losses
somebody can hear: not of one before the hook is on, nor of one that a reconnection's own listing
outlives (`Unheard`). `StaysOff` says for each of connection, tools and open transports which races
can bring it back. `PreviewKept` does not hold for a preview of a model that cannot be forced. `RunningIsAttended` (in `PoolInv`) is an equivalence: a running
row that nobody attends to would stay for ever, an attended one that is not running would be
claimed again. `FileMirrorsMemory` (in `FileInv`) and `QuietInv` speak of quiet states, which
every interleaving must come back to in order.

Some invariants name their parts: `BatchInv` is the types, `AnsweredExactlyOnce` and
`SkippedMeansInterrupted`; `LockInv` the types, `Exclusive` and `HolderIsNamed`; `LoopInv` the
types and `CallsPaired`; `CountInv` the types and `PromptIsCounted`; `ChoiceInv` the types and
`ForcedInOrder`; `QuietInv` the types, `NoTransportLeaks` and `ToolsAreCurrent`;
`HeardAtMostOnce` is `HandedOnce` and `CancelledIsSilent`; `FlushInv`, `FileInv` and `PoolInv`
likewise.

## Races the models name

Four modules keep a history variable, `mishaps` (`losses` in SessionPersistence): the set of the
races that have been lost so far, each recorded by the action in which the code loses it. SessionTurns
has a predicate for each race, and `races` is `lost` once one of them was. The
properties of these modules say what holds *unless* certain of these races were lost, so that they
still say something about every other interleaving. Without the name the property it excepts fails;
for `evicted` that takes five tasks or more, beyond the run's three, but the theorem
`ReconnectionsAreShared` is of any number. They are the places a reader of the code should look at.

| module | race | where |
|---|---|---|
| SessionTurns | `Late` — `abort()` comes before the handler of a failed run has read the generation; its retry belongs to the new one | `agent-session.ts:7827` |
| | `Unheard` — `abort()` comes while a task awaits the model's key, after its last check | `agent-session.ts:1999` |
| | `Premature` — `prompt()` returns before the handler of its failed run has decided on a retry | `agent-session.ts:2066` |
| | `Resolves` — a handler resolves the promise of another handler's retry | `agent-session.ts:1876`, `:1904` |
| | `Mistakes` — a handler that has waited for the extensions takes the message of a later run for that of its own | `agent-session.ts:1841` |
| | `Forgets` — the attempts are reset (late, for a good message; by a final failure, a wait too long, a cancelled sleep, `retry()`) while another run counts on them | `agent-session.ts:1771`, `:7846`, `:7897`, `:7934`, `:8017` |
| | `Uncovers` — a prompt gives up the place of another, live one in the count, or `abort()` resets the count with a live prompt in it | `agent-session.ts:4967` |
| ToolChoice | `overwritten` — a choice is taken while another is in flight: a leaked response, a run that threw, a handler that is late | `tool-choice-queue.ts:119` |
| | `unanswered` — a choice counts as served though the tool `resolve` never ran: the response was cut, the call skipped, or the handler was that of the turn before. `resolve.ts:79-82` keeps a preview after a failed apply, but not here | `agent-session.ts:1565` |
| | `abandoned` — `abort()` or a failed turn puts back a choice whose `resolve` has been called; the preview can be applied again | `agent-session.ts:4973` |
| | `repeated` — `resolve` is called twice in one turn and runs the same code twice | `resolve.ts:188` |
| | `kept` — discarding fails, and nothing pushes the preview again | `resolve.ts:143` |
| SessionPersistence | `overtaken` — a hot append while a rewrite has the entries already | `session-manager.ts:2384` |
| | `buried` — a resume by path does not look for the backup and starts anew | `session-manager.ts:1984` |
| | `glued` — an append behind a line that a failed write cut short makes both unreadable | `session-storage.ts:84` |
| | `forgotten` — a close, or a rewrite that has read the entries, marks the session as written though an entry was left to the next rewrite meanwhile; the next append is written without it | `session-manager.ts:2426`, `:2391` |
| McpManager | `unwanted` — a first connection comes up after it was given up | `manager.ts:397` |
| | `dropped` — an entry is deleted that is not the one that was closed | `manager.ts:709`, `:741`, `:942` |
| | `replaced` — a connection is put in the place of an open one | `manager.ts:399`, `:913` |
| | `evicted` — the end of a reconnection deletes the entry of another | `manager.ts:775` |
| | `disowned` — a disconnection deletes the entry of a reconnection that goes on | `manager.ts:691`, `:737` |
| | `misplaced` — `connectServers()` returns and overwrites newer tools | `manager.ts:525` |
| | `late` — a reconnection installs the tools it has listed over a transport that is no longer the connection's; nothing is checked after the listing | `manager.ts:930` |
| FileLock | `slow` — the lock comes of age while its owner is alive | `file-lock.ts:54` |
| | `blind` — what is removed is not what was looked at | `file-lock.ts:127` |

AsyncJobs has no such variable; its exceptions are states (`IdShared`, a job no longer known).

## Fairness

* ToolBatch, AgentLoop: weak fairness of the steps the JavaScript event loop takes by
  itself, tools and hooks settling included; a tool that ignores its abort signal and
  never returns hangs the batch in the code as well. Nothing is assumed of the
  provider (it may never answer), of the user or of callers: this is what makes
  `AbortEndsRun` say something.
* SessionTurns: weak fairness of the end of a run (AgentLoop has the reasons a run ends), of
  `abort()`, of the handlers of `message_end`, and of each handler of `agent_end`, task and prompt;
  sleeps end.
* SessionPersistence: weak fairness of the queue of rewrites: the file system answers, with
  success or failure. Nobody has to append.
* AsyncJobs: weak fairness of the delivery loop, backoffs, tools that wait and of a run
  that has been cancelled (it obeys its signal). A job that is not cancelled may run for
  ever.
* JobDelivery: the same, and strong fairness of `Yield`: a turn of the model takes
  finitely many tool calls, so it is able to end again and again and in the end does.
  This is an assumption on the model, not on the code; without it a turn need not end
  and its flush need not happen. No turn has to fail, nor to be taken up again.
* McpManager: weak fairness of the disconnect commands and of each task: requests are
  answered, fail or time out, and sleeps end. No transport has to be lost.
* WorkerPool: weak fairness of the dispatcher, of shutdown steps and of threads (each
  handler has a hard time limit, after which the thread's agent is killed); strong
  fairness of `Acquire` and `Release`, since the slot pool's queue and `asyncio.Lock`
  serve waiters first come, first served. A stopped process is started again, up to
  `MaxStarts`. Each crash or stop is counted, so a run has finitely many.
* FileLock and ToolChoice have safety properties only. A contender of the lock may starve:
  its attempts run out.

## The proofs

The theorems hold for every value of the constants that satisfies the module's
assumption: bounds are naturals, modes are those of the code. Each assumption is named
(`BatchAssumption`, `LoopAssumption`, `TurnsAssumption`, `ChoiceAssumption`,
`PersistenceAssumption`, `RunsAssumption`, `FailuresAssumption`, `DeliveryAssumption`,
`McpAssumption`, `FileLockAssumption`, `PoolAssumption`) and evaluated by TLC in the runs of its
module. Every invariant and every action property the passing runs check is a theorem.

| module | theorem | property |
|---|---|---|
| ToolsProofs | `TypeCorrect`, `ExclusiveToolsRunAlone`, `CallsAnsweredOnce`, `SkipsAreInterrupts`, `SteeringKept` | `TypeOK`, `ExclusiveAlone`, `AnsweredExactlyOnce`, `SkippedMeansInterrupted`, `SteeringInOrder` |
| | `AnswersHold`, `InterruptStopsStarts` | `BatchInv`; `NoStartOnceInterrupted` (an action property) |
| | `BatchIsOrdered` | `ImplementsOrderedBatch` |
| | `ForcedAreServed`, `PreviewsAreKept`, `PreviewsAreAppliedOnce` | `ChoiceInv`, that is the types and `ForcedInOrder`; `PreviewKept`; `AppliedOnce` |
| AgentLoopProofs | `ConversationsAgree`, `LoopHolds`, `MessagesAreDelivered` | `ConversationMirrored`; `LoopInv`, that is `TypeOK` and `CallsPaired`; `MessagesDelivered` |
| JobDeliveryProofs | `ResultsHeardAtMostOnce`, `ResultsAreKept`, `ReportedAreNotHanded` | `HeardAtMostOnce`, `ResultKept`; `ReportedIsNotHanded` (an action property) |
| | `FlushesAreScheduled`, `EntriesAreKept`, `NoneToldTwice` | `FlushInv`, `EntryKept`; `NotToldTwice` (an action property) |
| SessionTurnsProofs | `PromptsAreCounted`, `RetriesAreBounded`, `ReturnedStaysSettled`, `AbortsStopRetries` | `CountInv`, `RetriesBounded`, `ReturnedIsSettled`; `AbortStopsRetries` (an action property) |
| McpManagerProofs | `QuietHolds`, `ReconnectionsAreShared`, `OffStaysOff` | `QuietInv`, that is `TypeOK`, `NoTransportLeaks` and `ToolsAreCurrent`; `OneReconnection`; `StaysOff` |
| FilesProofs | `TypeCorrect`, `AlwaysExclusive`, `HoldersNamed`, `LockHolds`, `NothingLeftBehind`, `ReleasesSpareOthers` | `TypeOK`, `Exclusive`, `HolderIsNamed`, `LockInv`, `NothingLeft`; `ReleaseSparesOthers` (an action property) |
| | `SavedEntriesRecoverable`, `FileMirrored` | `SavedIsRecoverable`; `FileInv`, that is the types and `FileMirrorsMemory` |
| WorkerPoolProofs | `RowsAreAttended`, `IssuesRunAlone`, `ShutdownFailsNothing` | `PoolInv`, `OneRunPerIssue`, `FailedForCause` |

Few of these invariants are inductive as they stand. For each component the strengthening is `IInv`
(`ChoiceIInv`, `JobsInv`, `DeliveryInv`, `FileIInv` where two components share a proof module),
a conjunction of named parts; there is one lemma per action (or per group of actions with one
effect) for the step.

**Filtering.** Four components drop elements of an array of any length: messages by origin,
deliveries by id, directives by label, lines that cannot be read. The prover does not expand
`SelectSeq` of the library, so that the models filter with `Filtered` of Arrays, a recursive
function over the prefixes. What it does (`FilteredPositions`: the result is the kept elements, in
their order, each once; `FilteredConcat`, `FilteredAppend`, `FilteredAll`, `FilteredNone`, and the
`Among...` lemmas, for filters by value) is an induction over the length, and is proved as
the library's theorem on `<` allows: were there a prefix where it fails, there would be a
shortest one (`LeastNatural`).

**ToolBatch.** `BarriersHeld`: a call that is not waiting has every earlier call behind it that it
must not overlap. The code makes it wait for less (the *last* exclusive call and the shared ones
since); `BarrierCovers` shows that this is enough, by taking the greatest exclusive call before it.
That a bounded set of naturals has a greatest element is `GreatestBelow` of SequenceFacts, from the
library's theorem that `<` is well-founded. `OnePoll`: who waits for the shared poll, what it
holds, and that there is none once the batch is interrupted; without it a second poll could
overwrite `steeringMessages`. `Answers`: what the phase of a call says about its result and the
number of its emissions. `SteeringInOrder` is inductive together with `OnePoll`.

**The refinement.** A `Start` maps to the start of a call in OrderedBatch, whose guard is over *all*
earlier calls it must not overlap (`BarrierCovers` again), or to a stutter if the batch is
interrupted; `Finish` to the answer, `ResolveCheck` to the interrupt, `Return` to the skipping
return, every other step to a stutter. OrderedBatch has no fairness: that the batch returns is
`BatchReturns`, under TLC.

**AgentLoop.** The first half is about conversations alone, sequences of messages of any length:
what comes later changes nothing before (`PrefixKept`), and what a user's messages, an answer of
the model, or results of open calls do to a paired conversation (`AddUsers`, `AddAnswer`,
`AddResults`). Then `Types`; `Lists`, which says how the lists are filled (`Flow`: `agent_end` is the
last event, results exist only while tools run, an idle Agent has no events) and that they agree
(`Mirrored`); one lemma per action names what the action announces, and consuming an
event announces nothing. `BatchAnswers` is the part of ToolBatch's `Answers` that is needed here;
it is inductive without `OnePoll`. `Pairing` says which calls are open at each await: those of
the turn's answer that the batch has not emitted, and none wherever a user or the model may speak
next, but for those of a leaked response that was committed. `CallsPaired` alone is not inductive, since it does not say which calls are open.

For `MessagesDelivered` the invariant is extended by `Polling` (a poll under way has a call that
waits for it, only a poll holds messages back, only a batch an interrupt) and `NothingPending`.
What the conversation has of one origin is a filter of the announced and pending messages
(`Said`), and filtering a concatenation concatenates (`IdsFromConcat`): so a step that announces
`t` and leaves messages pending keeps the property if these are the oldest of what a batch kept
or of a queue (`HandsOver`, lemma `HandedOver`), and one lemma per action shows that they are.

**SessionTurns.** `Shape`: types, runs in order (`RunsInOrder`), a count no larger than the number of
prompts called (`CountBounded`), what has read a generation has read none from the future
(`Generations`), and the message tracked last, where it is an error, is the one its run has ended with
(`Tracked`). `StoppedStay`: what `abort()` has found is past its decision, and its task has been
aborted or will find that the generation has changed. `Counted`: each live prompt has its place in the
count, unless a race was lost. The rest holds until a race is lost. `Attempts`: all runs share one
count, and while anything of a prompt may still be tried again that count covers what the prompt has
been granted since its last good message, the continuations it has had (`retries`) and those that are
scheduled; each reset is either harmless or the race `Forgets` (lemma `Reset`). `Leftovers`: a handler that
retries has a promise that `prompt()` waits for, or has been aborted (`Promised`); and what is left of
a prompt that has returned is over, will find that it was aborted, or is the user's own `retry()`
(`Past`). That a handler decides on the message of its own run is not invariant, but the race
`Mistakes` (lemma `MistakenNot`).

**ToolChoice.** `ChoiceTypes` says what a directive of each label may still yield (`YieldsOf`) and
that at most one choice is in flight. `Stage`: what the user forced is at one of six stages, read
off what was served, the choice in flight and the directives of the user left in the queue;
`ForcedInOrder` alone does not say what is left. `Held`: a pending preview is queued, offered or
being resolved. `HeldOnce`: it is in one of these places only and once, and only while it is pending;
otherwise it could be applied from the second place.

**AsyncJobs and JobDelivery.** `JobsInv`: `RecordsOK` (ranks and ids; the map of jobs has the latest
run of each id), `OneCopy` (a result is queued once, or in flight, or handed over once, and only if
its job ended without being cancelled), `CallersOK` (a suppressed id has been answered with and a
reported one is suppressed while the job is known; who watches an id tracks its run; the earlier run
of an id is over unless the model says they overlap) and `ResultKept` itself. `HandedOnce` alone is
not inductive: a delivery in flight whose entry were still queued would be handed over twice.
`DeliveryInv` adds that a result handed over is an entry, delivered, or in the hands of a tool
(`HandedIsKept`) and that the session has not disposed of the manager; the actions of the manager
are those of AsyncJobs, so `JobsInv` is kept by them once.

**McpManager.** `EpochsRead` (the epoch a task has read is not in the future), `ClosedStays` (a
reconnection that failed has closed its transport), `Entered` (the reconnection of this epoch that is
under way is the one the map holds, unless its entry was taken away), `OneOpen` (no transport is open
but the connection's, unless one of the named races was lost), `StillOff` (after `disconnectAll()`
nothing is configured, connected, expected or open). For the tools, three more: `PendingIsActive` (a
task in the maps is still at the await its entry stands for), `FirstIsAlone` (while a first connection
is awaited nothing else connects), and `Current`: tools that are not the connection's belong to a call
of `connectServers()` that has not returned and will set others, or to a reconnection that lists its
own or takes the connection away.

**FileLock.** `InfoInDir`, `CallersLive`, `RemoverSawToken` (a call that removes the lock has seen its
own token in it) hold always; `Clean` holds until a race has been lost: an owner has its directory
(`OwnerHasDir`), a directory is owned or orphaned (`DirOwnedOrOrphan`), and a contender that removes a
lock has seen an orphan (`ReaperSawOrphan`).

**SessionPersistence.** `FileTypes` (memory, entries, tasks, disk); `FilePlaced`: the session file
is there whenever an entry may go to it, and away between the two renames of the fallback;
`SavedKept`: what the disk has taken is readable, in memory, and in the new file of a rewrite under
way, so that replacing the old one loses nothing; `WantedWritten`: what is wanted on disk is there,
or some rewrite has yet to read the entries (`Awaited`) or to end; `FileFollows`: when none has yet to
read them, a rewrite under way has them all, and the file of a session marked as written is what
memory is. `SavedIsRecoverable` alone says nothing of the new file, nor `FileMirrorsMemory` of a queue
that is not drained. That proof did not go through at first, and was right: `FileMirrorsMemory` held in
the run's old bounds and was false beyond them, because a close, or a rewrite under way, can mark the
session as written after an entry was left to the next rewrite. The race is now named (`forgotten`),
and the bounds of the run were changed so that it happens in it.

**WorkerPool.** `Scheduling` (dispatcher, lock, issues in flight, one task per event, a process that is
down has nothing), `Attended` (a claimed row has its claim, a running row its thread or a crash behind
it) and `Causes` (what a shutdown cancels is put back, what is failed has a reason).

Only model-checked: all liveness (`BatchReturns`, `AbortEndsRun`, `PromptReturns`, `ResultsArrive`,
`DisposeEnds`, `FlushedInTheEnd`, `EntryPersisted`, `LossIsNoticed`, `EventuallyHandled`), which the
prover does not handle under fairness. OrderedBatch is implemented without its return
(`BatchReturns`), for the same reason.

## Where the code and its documentation disagree

`session_persistence_hot` is the run that ends in a behaviour which a sentence of the repository
excludes. The comment on the hot path of an append (`session-manager.ts:2697`) says "so the entry
survives an OOM/SIGKILL landing immediately after this call". A rewrite closes the writer and reads
the entries before it awaits; an append in between finds no writer, opens one on the old file and
writes there, and the rename then replaces that file by one without the entry. The writer stays on
the replaced file, so that later appends are lost as well.

### Disagreements without a run

The modules also state these, and TLC finds each violated with the constants of the module's run,
when the configuration has it as its `INVARIANT` or `PROPERTY`.

| definition | the repository says | the code |
|---|---|---|
| `AgentLoop!LeakNotCommitted` (INVARIANT) | `test/agent-loop.test.ts:81`: "The leaked attempt was retried, not committed." | `agent-loop.ts:555`: `continue` tests the inner loop's condition again. In a turn that only a steering message kept going it is false by then, so the call is not repeated, the run ends without an answer, and the Agent, which saw `message_start` but no `message_end`, appends the leaked response (`agent.ts:1082`), with whatever tool calls are in it |
| `AgentLoop!FollowUpsAfterSteering` (PROPERTY) | `agent.ts:731`: "Delivered only when agent has no more tool calls or steering messages." | `agent-loop.ts:651`: a steering message queued while `onBeforeYield` is awaited is overtaken by the follow-up dequeued next |
| `ToolBatch!ProducedResultsPreserved` (PROPERTY) | `docs/provider-streaming-internals.md:165`: "steering interrupts can abort remaining tool execution while preserving already-produced tool results" | `agent-loop.ts:1346`: a call that awaits `afterToolCall` when another call's poll interrupts the batch is reported as skipped, although its tool has answered |
| `SessionTurns!PromptCoversRetries` (INVARIANT) | `agent-session.ts:2061`: "Wait for retry, TTSR resume, and any background continuation to settle." | the handler of the failed run may not have decided on a retry yet; `prompt()` returns and the retry runs on its own |
| `SessionTurns!AbortIsFinal` (INVARIANT) | `agent-session.ts:4949`: "Abort current operation and wait for agent to become idle." | a prompt aborted while it waits for a busy Agent (`:7964-7980`), a handler that reads the generation after `abort()` has raised it (`:7827`), or a task past its check (`:1999`), starts another run for the aborted prompt |
| `SessionTurns!FreshBudget` (PROPERTY) | `agent-session.ts:7960`: "_retryAttempt is reset in the catch block of _autoRetry" | only a delay is aborted there: an abort during the retry's run leaves the attempts counted, and the next prompt has fewer |
| `SessionPersistence!BackupSurvives` (INVARIANT) | as above | after a death between the two renames of the fallback, a resume by path does not look for the backup and starts anew |
| `SessionPersistence!AppendAfterTornLine` (INVARIANT) | as above | a failed write leaves half a line; the next append continues that line, and neither can be read |
| `FileLock!ExclusiveUnlessSlow` (INVARIANT) | `file-lock.ts:58-61` guards against a removal that would "race with another contender's successful mkdir and wipe their dir" | `file-lock.ts:127`: between the look and the removal another contender may have reaped the lock and made its own |
| `AsyncJobs!DisposeCancelsAll` (PROPERTY) | `job-manager.ts:283`: "cancels every running job" | `job-manager.ts:167`: a cancelled run that ends after its record was evicted schedules an eviction of its id, by then that of another, running job, which leaves the map uncancelled |
| `JobDelivery!DeliveredWhenComplete` (PROPERTY) | `prompts/tools/job.md:4`: "Background job results are delivered automatically when complete." | `yield-queue.ts:63`: an entry queued after the turn's last flush, while the session still counts as streaming, schedules no flush and waits for the next prompt; so does one queued in a turn that fails |
| `JobDelivery!SuppressedIsTold` (INVARIANT) | the same | `tools/job.ts:293`: a poll suppresses the deliveries it answers with, and then its answer is replaced by "Skipped due to queued user message." |
| `JobDelivery!ToldIsDropped` (PROPERTY) | `yield-queue.ts:5`: stale entries are those "already delivered through another path" | `job-manager.ts:396`: suppression ends with the job's retention; an entry that is still queued then is told again |
| `WorkerPool!NoSpawnAfterStop` (PROPERTY) | `queue.py:133`: "cannot proceed to spawn a fresh subprocess after stop() returns" | `queue.py:156`: `task.cancel()` reaches the coroutine that awaits `asyncio.to_thread`, not the thread, which then spawns its agent |
| `WorkerPool!LateHookObserves` (INVARIANT) | `queue.py:255`: "so a late-armed hook still observes the request" | `queue.py:239-245`: the request may come between the thread's check and its installation of the hook; it finds no hook, and nobody fires the one installed next |
| `WorkerPool!RetriedAfresh` (PROPERTY) | `queue.py:253`: "Request cancellation of a running event." | `queue.py:259`: the mark is set for an event that is not running too, and is found by the run of a later retry |
| `WorkerPool!CancelledFails` (INVARIANT) | `server.py:640`: "the row lands in `failed`" | `queue.py:259`: the mark is in memory; after a stop or crash the row is queued again and ends done |

The properties of the runs exempt these, so that the disagreement is visible in the exemption only:

* `docs/tools/ast-edit.md:44`: "When preview produced replacements, `ast_edit` also queues a pending
  `resolve` action." `queueResolveHandler` returns without a word when the model cannot be made to call
  a tool by name (`resolve.ts:50-52`); the preview is shown and cannot be applied (`MakeUnforceable`).
* `manager.ts:726` on reconnections under way at `disconnectAll()`: "they'll detect staleness". They
  do after the handshake (`:908`), but not after the listing that follows (`:930`), so that the tools
  of a server that is off come back (`late`).
* `agent-session.ts:2061`, as above: a handler that leaves at `:1847`, `:1862` or `:1867` does not
  resolve the promise of a retry that `prompt()` waits for (`left`).

By reading only: `mcp-command-controller.ts:812-815` connects one server through
`connectServers()`, which ends by assigning the tools of *its* servers to `#tools`
(`manager.ts:525`); the tools of the other servers are gone until the next refresh. The model has
one server, and so cannot show it.

## What is left out

Assumptions of the models, beyond the abstractions named above:

* Callers do not call `prompt()` between the `agent_end` event and the `finally` of the
  run. The session waits for the run or goes through a timer; a listener that prompted
  there would have its abort controller cleared by the run before (`agent.ts:1064`).
* `runTool` does not reject: all of it that can throw is in its `try`.
* Of Harmony mitigation, the branch that resumes from a `recovered` call is not
  modelled: nothing in the repository constructs such an interruption. A provider
  stream that ends without `done` or `error` is not modelled either.
* Of the Agent, the splitting of messages for Cursor (`agent.ts:1158-1248`),
  `emitExternalEvent`, `reset`, `replaceMessages` and the tool-choice hooks are not
  modelled; a run's tool answers are all `ok` inside AgentLoop (ToolBatch has the rest).
* SessionTurns has one way a run is continued, the retry. Compaction, handoff, rule
  injections, fallback models and credentials, queued messages and the switching of sessions,
  which use the same generations and tasks, are left out. Errors are ones that may be retried. A
  message is tracked in the step in which it ends, and whether it ends a chain of retries is read in
  the same step. A handler may leave early after any end of its run: the tools called, a handoff and
  the messages are not in the model. `retry()` by the user comes only once the handler of
  the failed run has returned; the code would take it while the extensions are still being told.
* ToolChoice has previews and choices forced once. `clear()`, the standing handlers of plan
  mode, reminders and the label of what was served last are left out.
* SessionPersistence has one session file. Switching, forking, moving, the tree of entries and
  blobs are left out; what is in an entry makes no difference.
* AsyncJobs has one owner, so the owner filters of the manager are not there, and the
  retention is not zero (its default is five minutes), so a record is evicted by the
  timer only. `dispose()` is not part of JobDelivery.
* The yield queue has entries of one kind, and dispatchers do not throw. Switching the
  session cancels jobs and leaves the yield queue alone (`agent-session.ts:1377`); the model
  has one conversation.
* McpManager has one server. Resources, prompts and credentials are left out, and the window
  of the breaker does not end.
* FileLock knows of the age of a lock only whether it is stale.
* In WorkerPool the wake-up event is left out where it only shortens a wait that times
  out by itself; `attempts` is only logged; the manual triage that replaces a row acts
  like a retry; the database does not fail (if it did, the dispatch loop would end,
  `queue.py:207`); the periodic sweep of the natives cache shares nothing with the events.

Not modelled at all, with the reason, are the components with status `not_modelled` in
`PROJECT.json`: I/O and wire formats (providers, tools, LSP, DAP, terminal), pattern
matching on text, numeric scoring, native and vendored code; and those the plan has next. Most
of the repository's lines are of these kinds; the modelled part is where several activities share
state.

## Plan

Done, in this order: AgentQueues, ToolBatch and its proofs, AgentLoop, AsyncJobs, JobDelivery,
WorkerPool; then FileLock, SessionPersistence, SessionTurns, McpManager and ToolChoice,
OrderedBatch and the refinement, and the proofs of AgentLoop, FileLock, WorkerPool, SessionTurns and
McpManager; then those of AsyncJobs, JobDelivery, ToolChoice, SessionPersistence and of
`MessagesDelivered`. Next, most important first:

1. **Compaction and continuation** in SessionTurns (`agent-session.ts`): the other things that
   schedule a run, and the switching of sessions while they wait.
2. **TaskPool** (`task/parallel.ts`): bounded workers, failure and abort; **SwarmDag**
   (`swarm-extension`): waves of a graph against a reference definition.
3. **Credentials** (`auth-storage.ts`): rotation and refresh, with concurrent requests that
   find the same credential exhausted.
4. **Request tables** of the language servers and debuggers, with a child process that dies.

Abstract specifications worth having: a *conversation protocol* (user messages enter once,
each call is answered before the next request) implemented by AgentLoop, through a mapping
that forgets the two copies and the event stream, for which `Lists` and `Pairing` are the
invariants needed; a *mailbox* (each outcome is told, or dropped because it was told)
implemented by AsyncJobs and JobDelivery; a *job board* (an event is queued, worked on by one,
handled) implemented by WorkerPool across crashes.

Proofs: of those abstract specifications as refinements, beginning with the mailbox, whose
invariants (`OneCopy`, `HandedIsKept`) are there.
