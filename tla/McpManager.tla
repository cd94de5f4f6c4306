----------------------------- MODULE McpManager -----------------------------
(***************************************************************************)
(* mcp/manager.ts, for one server: the first connection, the reconnections *)
(* after its transport has closed, and the two ways to disconnect, all     *)
(* asynchronous functions over the maps of the manager.                    *)
(*                                                                         *)
(* A task is one call of connectServers() or one #doReconnect(); a         *)
(* transport is known by a number.  Closing a transport takes effect at    *)
(* once (stdio kills the process before it awaits anything), but a request *)
(* that is under way over HTTP may be answered all the same.  The window   *)
(* of the breaker does not end, and the user's connect and disconnect      *)
(* commands come one at a time, though a task may outlast any of them.     *)
(* Resources, prompts and credentials are left out.                        *)
(***************************************************************************)
EXTENDS Integers, FiniteSets

CONSTANTS
    MaxTasks,        \* bound on the tasks
    MaxTransports,   \* bound on the transports opened
    MaxDisconnects,  \* bound on the calls of disconnectServer() and disconnectAll()
    MaxDelays,       \* the number of delays a reconnection goes through (4)
    BurstLimit       \* RECONNECT_BURST_LIMIT (5)

ASSUME McpAssumption ==
    {MaxTasks, MaxTransports, MaxDisconnects, MaxDelays, BurstLimit} \subseteq Nat

Tasks == 1..MaxTasks
Transports == 1..MaxTransports

Deferred == -1   \* tools from the cache, which wait for a connection

VARIABLES
    epoch,                \* #epoch
    config,               \* #serverConfigs has the server
    connection,           \* #connections: a transport, or 0
    pendingConnection,    \* #pendingConnections: a task, or 0
    pendingToolLoad,      \* #pendingToolLoads: a task, or 0
    pendingReconnection,  \* #pendingReconnections: a task, or 0
    history,              \* the length of #reconnectHistory
    tools,                \* the transport the tools in #tools call, Deferred, or 0
    live,                 \* the transports that are open
    hooked,               \* the transports with an onClose handler
    opened,               \* how many transports have been opened
    kind,                 \* what each task is: connect or reconnect
    phase,                \* where each task stands
    taskEpoch,            \* the epoch a reconnection has read
    taskTransport,        \* the transport a task has opened
    tries,                \* the delays a reconnection has gone through
    calling,              \* the connectServers() calls that have not returned
    closing,              \* the disconnect command that has not returned
    disconnects,          \* counter
    off,                  \* history: disconnectAll() was the last command
    mishaps               \* history: see below

mapVars == <<epoch, config, connection, pendingConnection, pendingToolLoad, pendingReconnection,
             history, tools>>
transportVars == <<live, hooked, opened>>
taskVars == <<kind, phase, taskEpoch, taskTransport, tries, calling>>
commandVars == <<closing, disconnects, off>>
vars == <<mapVars, transportVars, taskVars, commandVars, mishaps>>

(***************************************************************************)
(* Mishaps: races after which a transport stays open, or tools do not      *)
(* belong to the connection.                                               *)
(*   unwanted   a first connection came up after it had been given up      *)
(*   dropped    an entry of #connections was deleted that is not the one   *)
(*              that was closed                                            *)
(*   replaced   a connection was put in the place of an open one           *)
(*   evicted    the end of a reconnection deleted the entry of another     *)
(*   disowned   a disconnection deleted the entry of a reconnection that   *)
(*              goes on (one begun while disconnectAll() waits has the new *)
(*              epoch)                                                     *)
(*   misplaced  connectServers() returned and overwrote newer tools        *)
(*   late       a reconnection installed the tools of a transport that is  *)
(*              no longer the connection                                   *)
(***************************************************************************)
Mishap(name, cond) == mishaps' = mishaps \cup {m \in {name} : cond}

Init ==
    /\ epoch = 0
    /\ config = FALSE
    /\ connection = 0
    /\ pendingConnection = 0
    /\ pendingToolLoad = 0
    /\ pendingReconnection = 0
    /\ history = 0
    /\ tools = 0
    /\ live = {}
    /\ hooked = {}
    /\ opened = 0
    /\ kind = [t \in Tasks |-> "none"]
    /\ phase = [t \in Tasks |-> "none"]
    /\ taskEpoch = [t \in Tasks |-> 0]
    /\ taskTransport = [t \in Tasks |-> 0]
    /\ tries = [t \in Tasks |-> 0]
    /\ calling = {}
    /\ closing = "none"
    /\ disconnects = 0
    /\ off = FALSE
    /\ mishaps = {}

Unused == {t \in Tasks : kind[t] = "none"}
NextTask == CHOOSE t \in Unused : \A u \in Unused : t <= u

Active(t) == phase[t] \notin {"none", "loaded", "failed", "done"}

At(t, k, p) == kind[t] = k /\ phase[t] = p
Goto(t, p) == phase' = [phase EXCEPT ![t] = p]

(* connectToServer() opens a transport, which only its caller knows, and   *)
(* awaits the rest of the handshake.  The caller puts the hook on when it  *)
(* has returned, on a transport that may have been lost by then.           *)
Open(t) ==
    /\ opened < MaxTransports
    /\ opened' = opened + 1
    /\ live' \in {live, live \cup {opened'}}
    /\ hooked' = hooked \cup {opened'}
    /\ taskTransport' = [taskTransport EXCEPT ![t] = opened']

(* onClose is detached first, so that the close does not start a           *)
(* reconnection.                                                           *)
CloseWithoutHook(c) ==
    /\ hooked' = hooked \ {c}
    /\ live' = live \ {c}

(***************************************************************************)
(* connectServers(), of a server that is disconnected.                     *)
(***************************************************************************)
Connect ==
    /\ closing = "none"
    /\ connection = 0 /\ pendingConnection = 0 /\ pendingToolLoad = 0 /\ pendingReconnection = 0
    /\ Unused # {}
    /\ kind' = [kind EXCEPT ![NextTask] = "connect"]
    /\ Goto(NextTask, "connecting")
    /\ calling' = calling \cup {NextTask}
    /\ config' = TRUE
    /\ pendingConnection' = NextTask
    /\ pendingToolLoad' = NextTask
    /\ off' = FALSE
    /\ UNCHANGED <<epoch, connection, pendingReconnection, history, tools, transportVars, taskEpoch,
                   taskTransport, tries, closing, disconnects, mishaps>>

(* The connection is up; it is entered unless it was given up meanwhile.   *)
Connected(t) ==
    /\ At(t, "connect", "connecting")
    /\ Open(t)
    /\ Goto(t, "listing")
    /\ config' = TRUE
    /\ IF pendingConnection = t
       THEN /\ pendingConnection' = 0
            /\ connection' = opened'
       ELSE UNCHANGED <<pendingConnection, connection>>
    /\ mishaps' = mishaps \cup {m \in {"unwanted"} : pendingConnection # t}
                           \cup {m \in {"replaced"} : pendingConnection = t /\ connection \in live}
    /\ UNCHANGED <<epoch, pendingToolLoad, pendingReconnection, history, tools, kind, taskEpoch, tries,
                   calling, commandVars>>

ConnectFails(t) ==
    /\ At(t, "connect", "connecting")
    /\ Goto(t, "failed")
    /\ pendingConnection' = IF pendingConnection = t THEN 0 ELSE pendingConnection
    /\ pendingToolLoad' = IF pendingToolLoad = t THEN 0 ELSE pendingToolLoad
    /\ UNCHANGED <<epoch, config, connection, pendingReconnection, history, tools, transportVars, kind,
                   taskEpoch, taskTransport, tries, calling, commandVars, mishaps>>

(* The tools are installed if they are still waited for.                   *)
Loaded(t) ==
    /\ At(t, "connect", "listing")
    /\ Goto(t, "loaded")
    /\ IF pendingToolLoad = t
       THEN /\ pendingToolLoad' = 0
            /\ tools' = taskTransport[t]
       ELSE UNCHANGED <<pendingToolLoad, tools>>
    /\ UNCHANGED <<epoch, config, connection, pendingConnection, pendingReconnection, history,
                   transportVars, kind, taskEpoch, taskTransport, tries, calling, commandVars, mishaps>>

LoadFails(t) ==
    /\ At(t, "connect", "listing")
    /\ Goto(t, "failed")
    /\ pendingToolLoad' = IF pendingToolLoad = t THEN 0 ELSE pendingToolLoad
    /\ UNCHANGED <<epoch, config, connection, pendingConnection, pendingReconnection, history, tools,
                   transportVars, kind, taskEpoch, taskTransport, tries, calling, commandVars, mishaps>>

(* connectServers() returns, when its tasks have settled or, after         *)
(* STARTUP_TIMEOUT_MS, with tools from the cache; it sets #tools.          *)
EndConnect(t) ==
    /\ t \in calling
    /\ calling' = calling \ {t}
    /\ tools' = CASE phase[t] = "loaded" -> taskTransport[t]
                  [] phase[t] = "failed" -> 0
                  [] OTHER -> Deferred
    /\ Mishap("misplaced", tools' # tools /\ t # pendingToolLoad)
    /\ UNCHANGED <<epoch, config, connection, pendingConnection, pendingToolLoad, pendingReconnection,
                   history, transportVars, kind, phase, taskEpoch, taskTransport, tries, commandVars>>

(***************************************************************************)
(* reconnectServer(), called when a hooked transport is lost, when a tool  *)
(* call fails, or by the user.  Calls share the attempt that is under way; *)
(* too many calls close the connection and start none.                     *)
(***************************************************************************)
Share(h, lost) ==
    /\ pendingReconnection # 0
    /\ history' = h
    /\ live' = live \ lost
    /\ UNCHANGED <<connection, pendingConnection, pendingToolLoad, pendingReconnection, hooked, kind,
                   phase, taskEpoch>>

(* Both a trip of the breaker and an attempt drop what there is.           *)
DropConnection(lost) ==
    /\ connection' = 0
    /\ pendingConnection' = 0
    /\ pendingToolLoad' = 0
    /\ hooked' = hooked \ {connection}
    /\ live' = live \ (lost \cup {connection})

Trip(h, lost) ==
    /\ pendingReconnection = 0
    /\ h >= BurstLimit
    /\ history' = BurstLimit + 1
    /\ DropConnection(lost)
    /\ UNCHANGED <<pendingReconnection, kind, phase, taskEpoch>>

(* Mutant of Attempt: the pending attempt is not entered.                  *)
AttemptUnshared(h, lost) ==
    /\ pendingReconnection = 0
    /\ h < BurstLimit
    /\ config \/ connection # 0
    /\ Unused # {}
    /\ history' = h + 1
    /\ kind' = [kind EXCEPT ![NextTask] = "reconnect"]
    /\ taskEpoch' = [taskEpoch EXCEPT ![NextTask] = epoch]
    /\ Goto(NextTask, "connecting")
    /\ DropConnection(lost)
    /\ UNCHANGED pendingReconnection

Attempt(h, lost) ==
    /\ pendingReconnection = 0
    /\ h < BurstLimit
    /\ config \/ connection # 0
    /\ Unused # {}
    /\ history' = h + 1
    /\ kind' = [kind EXCEPT ![NextTask] = "reconnect"]
    /\ taskEpoch' = [taskEpoch EXCEPT ![NextTask] = epoch]
    /\ pendingReconnection' = NextTask
    /\ Goto(NextTask, "connecting")
    /\ DropConnection(lost)

(* Without a configuration there is nothing to connect to.                 *)
NoAttempt(h, lost) ==
    /\ pendingReconnection = 0
    /\ h < BurstLimit
    /\ ~config /\ connection = 0
    /\ history' = h + 1
    /\ live' = live \ lost
    /\ UNCHANGED <<connection, pendingConnection, pendingToolLoad, pendingReconnection, hooked, kind,
                   phase, taskEpoch>>

Reconnect(h, lost) ==
    /\ Share(h, lost) \/ Trip(h, lost) \/ Attempt(h, lost) \/ NoAttempt(h, lost)
    /\ UNCHANGED <<epoch, config, tools, opened, taskTransport, tries, calling, commandVars, mishaps>>

Manual == closing = "none" /\ Reconnect(0, {})

ToolCallFails == tools # 0 /\ tools \notin live /\ Reconnect(history, {})

(* A transport closes: the process exits, the stream ends.  The hook may   *)
(* only share an attempt that is under way, and be its own.                *)
Lose(c) ==
    /\ c \in live
    /\ IF c \in hooked
       THEN Reconnect(history, {c})
       ELSE /\ live' = live \ {c}
            /\ UNCHANGED <<mapVars, hooked, opened, taskVars, commandVars, mishaps>>

(***************************************************************************)
(* #doReconnect and #connectAndWireServer                                  *)
(***************************************************************************)
(* The attempt ends: the entry of #pendingReconnections is deleted,        *)
(* whosever it is.                                                         *)
Settle(t) ==
    /\ Goto(t, "done")
    /\ pendingReconnection' = 0

Evicts(t) == {m \in {"evicted"} : phase'[t] = "done" /\ pendingReconnection \notin {0, t}}

(* After a failure, wait and try again, unless the epoch is over.          *)
AfterFailure(t) ==
    IF epoch = taskEpoch[t] /\ tries[t] < MaxDelays
    THEN Goto(t, "sleeping") /\ tries' = [tries EXCEPT ![t] = @ + 1] /\ UNCHANGED pendingReconnection
    ELSE Settle(t) /\ UNCHANGED tries

(* No connection, or one to a server that was disconnected meanwhile; it   *)
(* is closed.                                                              *)
ReconnectFails(t) ==
    /\ At(t, "reconnect", "connecting")
    /\ AfterFailure(t)
    /\ mishaps' = mishaps \cup Evicts(t)
    /\ UNCHANGED <<epoch, config, connection, pendingConnection, pendingToolLoad, history, tools,
                   transportVars, kind, taskEpoch, taskTransport, calling, commandVars>>

(* Mutant of Wired: disconnection is not noticed.                          *)
WiredAnyway(t) ==
    /\ At(t, "reconnect", "connecting")
    /\ Open(t)
    /\ Goto(t, "listing")
    /\ connection' = opened'
    /\ Mishap("replaced", connection \in live)
    /\ UNCHANGED <<epoch, config, pendingConnection, pendingToolLoad, pendingReconnection, history, tools,
                   kind, taskEpoch, tries, calling, commandVars>>

Wired(t) ==
    /\ At(t, "reconnect", "connecting")
    /\ config /\ epoch = taskEpoch[t]
    /\ Open(t)
    /\ Goto(t, "listing")
    /\ connection' = opened'
    /\ Mishap("replaced", connection \in live)
    /\ UNCHANGED <<epoch, config, pendingConnection, pendingToolLoad, pendingReconnection, history, tools,
                   kind, taskEpoch, tries, calling, commandVars>>

(* The tools are installed with no further check: also those of a          *)
(* connection that was closed meanwhile, or lost, which its hook did not   *)
(* answer as this attempt was still under way.                             *)
Listed(t) ==
    /\ At(t, "reconnect", "listing")
    /\ tools' = taskTransport[t]
    /\ Settle(t)
    /\ mishaps' = mishaps \cup Evicts(t) \cup {m \in {"late"} : connection # taskTransport[t]}
    /\ UNCHANGED <<epoch, config, connection, pendingConnection, pendingToolLoad, history,
                   transportVars, kind, taskEpoch, taskTransport, tries, calling, commandVars>>

(* Mutant of ListFails: the transport is not closed.                       *)
ListFailsKeepOpen(t) ==
    /\ At(t, "reconnect", "listing")
    /\ Goto(t, "closing")
    /\ hooked' = hooked \ {taskTransport[t]}
    /\ UNCHANGED <<mapVars, live, opened, kind, taskEpoch, taskTransport, tries, calling, commandVars,
                   mishaps>>

ListFails(t) ==
    /\ At(t, "reconnect", "listing")
    /\ Goto(t, "closing")
    /\ CloseWithoutHook(taskTransport[t])
    /\ UNCHANGED <<mapVars, opened, kind, taskEpoch, taskTransport, tries, calling, commandVars, mishaps>>

(* Mutant of Cleanup: the entry of the closed connection is kept.          *)
CleanupKeepEntry(t) ==
    /\ At(t, "reconnect", "closing")
    /\ AfterFailure(t)
    /\ mishaps' = mishaps \cup Evicts(t)
    /\ UNCHANGED <<epoch, config, connection, pendingConnection, pendingToolLoad, history, tools,
                   transportVars, kind, taskEpoch, taskTransport, calling, commandVars>>

(* Whatever connection is entered by now is deleted.                       *)
Cleanup(t) ==
    /\ At(t, "reconnect", "closing")
    /\ connection' = 0
    /\ AfterFailure(t)
    /\ mishaps' = mishaps \cup Evicts(t)
                          \cup {m \in {"dropped"} : connection \notin {0, taskTransport[t]}}
    /\ UNCHANGED <<epoch, config, pendingConnection, pendingToolLoad, history, tools,
                   transportVars, kind, taskEpoch, taskTransport, calling, commandVars>>

Awake(t) ==
    /\ At(t, "reconnect", "sleeping")
    /\ IF epoch = taskEpoch[t]
       THEN Goto(t, "connecting") /\ UNCHANGED pendingReconnection
       ELSE Settle(t)
    /\ mishaps' = mishaps \cup Evicts(t)
    /\ UNCHANGED <<epoch, config, connection, pendingConnection, pendingToolLoad, history, tools,
                   transportVars, kind, taskEpoch, taskTransport, tries, calling, commandVars>>

(***************************************************************************)
(* disconnectServer() and disconnectAll()                                  *)
(***************************************************************************)
(* With a connection, its close is awaited before the entry is deleted.    *)
DisconnectServer ==
    /\ closing = "none"
    /\ disconnects < MaxDisconnects
    /\ disconnects' = disconnects + 1
    /\ config' = FALSE
    /\ pendingConnection' = 0
    /\ pendingToolLoad' = 0
    /\ pendingReconnection' = 0
    /\ history' = 0
    /\ IF connection = 0
       THEN tools' = 0 /\ UNCHANGED <<closing, live, hooked>>
       ELSE closing' = "server" /\ CloseWithoutHook(connection) /\ UNCHANGED tools
    /\ Mishap("disowned", pendingReconnection # 0)
    /\ UNCHANGED <<epoch, connection, opened, taskVars, off>>

EndDisconnectServer ==
    /\ closing = "server"
    /\ closing' = "none"
    /\ connection' = 0
    /\ tools' = 0
    /\ Mishap("dropped", connection \in live)
    /\ UNCHANGED <<epoch, config, pendingConnection, pendingToolLoad, pendingReconnection, history,
                   transportVars, taskVars, disconnects, off>>

DisconnectAll ==
    /\ closing = "none"
    /\ disconnects < MaxDisconnects
    /\ disconnects' = disconnects + 1
    /\ epoch' = epoch + 1
    /\ closing' = "all"
    /\ CloseWithoutHook(connection)
    /\ UNCHANGED <<config, connection, pendingConnection, pendingToolLoad, pendingReconnection, history,
                   tools, opened, taskVars, off, mishaps>>

EndDisconnectAll ==
    /\ closing = "all"
    /\ closing' = "none"
    /\ config' = FALSE
    /\ connection' = 0
    /\ pendingConnection' = 0
    /\ pendingToolLoad' = 0
    /\ pendingReconnection' = 0
    /\ history' = 0
    /\ tools' = 0
    /\ off' = TRUE
    /\ mishaps' = mishaps \cup {m \in {"dropped"} : connection \in live}
                           \cup {m \in {"disowned"} : pendingReconnection # 0
                                                    /\ taskEpoch[pendingReconnection] = epoch}
    /\ UNCHANGED <<epoch, transportVars, taskVars, disconnects>>

TaskStep(t) ==
    \/ Connected(t) \/ ConnectFails(t) \/ Loaded(t) \/ LoadFails(t) \/ EndConnect(t)
    \/ ReconnectFails(t) \/ Wired(t) \/ Listed(t) \/ ListFails(t) \/ Cleanup(t) \/ Awake(t)

EndCommand == EndDisconnectServer \/ EndDisconnectAll

Next ==
    \/ Connect \/ Manual \/ ToolCallFails \/ DisconnectServer \/ DisconnectAll
    \/ EndCommand
    \/ \E t \in Tasks : TaskStep(t)
    \/ \E c \in Transports : Lose(c)

(* Requests are answered, fail or time out, sleeps and closes end.         *)
Spec ==
    /\ Init
    /\ [][Next]_vars
    /\ WF_vars(EndCommand)
    /\ \A t \in Tasks : WF_vars(TaskStep(t))

-----------------------------------------------------------------------------
Idle == closing = "none" /\ calling = {} /\ \A t \in Tasks : ~Active(t)

Leaks == {"unwanted", "dropped", "replaced"}

MapTypes ==
    /\ epoch \in 0..MaxDisconnects
    /\ connection \in 0..opened
    /\ {pendingConnection, pendingToolLoad, pendingReconnection} \subseteq 0..MaxTasks
    /\ history \in 0..BurstLimit + 1
    /\ tools \in Deferred..opened

TransportTypes ==
    /\ live \subseteq 1..opened
    /\ hooked \subseteq 1..opened
    /\ opened \in 0..MaxTransports

TaskTypes ==
    /\ kind \in [Tasks -> {"none", "connect", "reconnect"}]
    /\ phase \in [Tasks -> {"none", "connecting", "listing", "loaded", "failed", "closing", "sleeping",
                            "done"}]
    /\ taskEpoch \in [Tasks -> 0..MaxDisconnects]
    /\ taskTransport \in [Tasks -> 0..opened]
    /\ tries \in [Tasks -> 0..MaxDelays]
    /\ calling \subseteq Tasks

CommandTypes ==
    /\ closing \in {"none", "server", "all"}
    /\ disconnects \in 0..MaxDisconnects
    /\ mishaps \subseteq {"unwanted", "dropped", "replaced", "evicted", "disowned", "misplaced",
                   "late"}

FlagTypes == config \in BOOLEAN /\ off \in BOOLEAN

(* The types of the variables.                                             *)
TypeOK == MapTypes /\ TransportTypes /\ TaskTypes /\ CommandTypes /\ FlagTypes

(* When nothing is under way, the only open transport is that of the       *)
(* connection: no race of the other tasks leaves a child process behind.   *)
NoTransportLeaks ==
    Idle /\ mishaps \cap Leaks = {} => live \subseteq {connection}

(* When nothing is under way, the tools of a server that is connected call *)
(* its present connection.                                                 *)
ToolsAreCurrent ==
    Idle /\ mishaps = {} /\ connection # 0 => tools \in {0, Deferred, connection}

(* The types, and what is left when nothing is under way: the one transport*)
(* of the connection, and tools that call it.                              *)
QuietInv == TypeOK /\ NoTransportLeaks /\ ToolsAreCurrent

(* After disconnectAll() nothing brings the connection back but the user:  *)
(* reconnections that have awaited their handshake notice the epoch        *)
(* (manager.ts:726), whatever else goes wrong, and only a first connection *)
(* that comes up late can enter one.  Its tools come back only by a late   *)
(* listing or return, and only a leak keeps a transport open.              *)
StaysOff ==
    off => /\ "unwanted" \notin mishaps => connection = 0
           /\ mishaps \cap {"unwanted", "misplaced", "late"} = {} => tools = 0
           /\ mishaps \cap Leaks = {} => live = {}

(* The reconnections of one server never run at once (manager.ts:751),     *)
(* unless the entry of one was taken away by a disconnection or by the end *)
(* of another.                                                             *)
OneReconnection ==
    mishaps \cap {"evicted", "disowned"} = {} =>
        \A t, u \in Tasks :
            /\ kind[t] = "reconnect" /\ phase[t] \in {"connecting", "listing", "closing"}
            /\ kind[u] = "reconnect" /\ phase[u] \in {"connecting", "listing", "closing"}
            /\ taskEpoch[t] = epoch /\ taskEpoch[u] = epoch
            => t = u

ListsTools(c) == \E t \in Tasks : At(t, "reconnect", "listing") /\ taskTransport[t] = c

(* An answer to a loss, and every close, takes the hook off: where it is   *)
(* still on, the connection was lost before it had its hook (stdio.ts:320) *)
(* or while its own reconnection listed its tools, which then succeeded.   *)
Unheard == connection \in hooked \ live /\ ~ListsTools(connection)

(* A connection that has been lost does not stay in the map, unless nobody *)
(* could hear of it, and calls that wait for a reconnection get an answer  *)
(* (the bounds may stop both).                                             *)
LossIsNoticed ==
    /\ connection # 0 /\ connection \notin live
       ~> connection = 0 \/ connection \in live \/ Unheard \/ Unused = {} \/ opened = MaxTransports
    /\ pendingReconnection # 0 ~> pendingReconnection = 0 \/ opened = MaxTransports
=============================================================================
