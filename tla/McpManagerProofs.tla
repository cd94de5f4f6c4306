-------------------------- MODULE McpManagerProofs --------------------------
(* Proofs about McpManager, for any bounds on tasks, transports and        *)
(* commands, any delays and any limit of the breaker.                      *)
EXTENDS McpManager, SequenceFacts

(***************************************************************************)
(* The strengthening.                                                      *)
(***************************************************************************)

(* Each epoch begins with a command, and reconnections read no later one.  *)
EpochsRead == epoch <= disconnects /\ \A t \in Tasks : taskEpoch[t] <= epoch

(* The transport of a failed reconnection is closed before it is let go.   *)
ClosedStays ==
    \A t \in Tasks : kind[t] = "reconnect" /\ phase[t] = "closing" => taskTransport[t] \notin live

Reconnecting(t) ==
    /\ kind[t] = "reconnect"
    /\ phase[t] \in {"connecting", "listing", "closing", "sleeping"}
    /\ taskEpoch[t] = epoch

(* A reconnection that is under way is the one that is entered.            *)
Entered ==
    mishaps \cap {"evicted", "disowned"} = {} =>
        \A t \in Tasks : Reconnecting(t) => pendingReconnection = t

(* Only the connection is open, at any moment.                             *)
OneOpen == mishaps \cap Leaks = {} => live \subseteq {connection}

(* After disconnectAll() nothing is configured, connected or expected.     *)
StillOff ==
    off =>
        /\ "unwanted" \notin mishaps =>
               ~config /\ connection = 0 /\ pendingConnection = 0 /\ pendingToolLoad = 0
        /\ mishaps \cap {"unwanted", "misplaced", "late"} = {} => tools = 0

(* Who is entered as connecting or listing is doing it.                    *)
PendingIsActive ==
    \A t \in Tasks :
        /\ pendingToolLoad = t => kind[t] = "connect" /\ phase[t] \in {"connecting", "listing"}
        /\ pendingConnection = t => kind[t] = "connect" /\ phase[t] = "connecting"

(* While a first connection is awaited, nothing else connects, and there   *)
(* are no tools to be stale once its call has returned.                    *)
FirstIsAlone ==
    mishaps = {} /\ pendingConnection # 0 =>
        /\ connection = 0 /\ pendingReconnection = 0
        /\ pendingToolLoad = pendingConnection
        /\ pendingConnection \in calling \/ tools \in {0, Deferred}

(* Tools are awaited from a first connection, which is the connection if   *)
(* there is one, and not while there is a reconnection.                    *)
Loading ==
    /\ pendingToolLoad # 0 => pendingReconnection = 0
    /\ \A t \in Tasks :
           /\ pendingToolLoad = t /\ phase[t] = "connecting" => pendingConnection = t
           /\ mishaps = {} /\ connection # 0 /\ pendingToolLoad = t /\ phase[t] = "listing" =>
                  taskTransport[t] = connection

(* A transport belongs to one task, and a listing has not been installed.  *)
Own ==
    /\ \A t, u \in Tasks : t # u /\ taskTransport[t] = taskTransport[u] => taskTransport[t] = 0
    /\ \A t \in Tasks :
           /\ phase[t] = "listing" => taskTransport[t] # 0
           /\ kind[t] = "connect" /\ phase[t] = "listing" => tools # taskTransport[t]

(* Tools that are not the connection's are about to be replaced: by a call *)
(* of connectServers() that returns, or by a reconnection, which either    *)
(* lists its own or takes the connection away.                             *)
Replaced(t) == t \in calling /\ (phase[t] = "loaded" => tools # taskTransport[t])
Relisting(t) == kind[t] = "reconnect" /\ phase[t] \in {"listing", "closing"}

Current ==
    mishaps = {} /\ connection # 0 =>
        \/ tools \in {0, Deferred, connection}
        \/ \E t \in Tasks : Replaced(t) \/ Relisting(t)

IInv ==
    /\ TypeOK /\ EpochsRead /\ ClosedStays /\ Entered /\ OneOpen /\ StillOff
    /\ PendingIsActive /\ FirstIsAlone /\ Loading /\ Own /\ Current

(***************************************************************************)
(* The steps.                                                              *)
(***************************************************************************)
LEMMA Bounds ==
    /\ MaxTasks \in Nat /\ MaxTransports \in Nat /\ MaxDisconnects \in Nat
    /\ MaxDelays \in Nat /\ BurstLimit \in Nat
BY McpAssumption

(* The next transport is new to the tasks and to the tools.                *)
LEMMA Fresh ==
    ASSUME TypeOK
    PROVE  /\ opened + 1 # 0 /\ tools # opened + 1
           /\ \A t \in Tasks : taskTransport[t] \notin {opened + 1, Deferred}
<1>1. opened \in Nat
  BY Bounds DEF TypeOK, TransportTypes
<1>2. tools \in -1..opened
  BY DEF TypeOK, MapTypes, Deferred
<1>3. \A t \in Tasks : taskTransport[t] \in 0..opened
  BY DEF TypeOK, TaskTypes
<1>4. QED BY <1>1, <1>2, <1>3 DEF Deferred

(* The next task is one that is not used yet.                              *)
LEMMA NextTaskUnused == Unused # {} => NextTask \in Unused /\ NextTask \in Tasks
<1> SUFFICES ASSUME Unused # {} PROVE NextTask \in Unused /\ NextTask \in Tasks
  OBVIOUS
<1>1. Unused \subseteq Nat /\ Unused \subseteq Tasks
  BY Bounds DEF Unused, Tasks
<1>2. \E t \in Unused : \A u \in Unused : t <= u
  BY <1>1, LeastNatural
<1>3. QED BY <1>1, <1>2 DEF NextTask

(* reconnectServer(), by whomever it is called.                            *)
Call(h, lost) == Reconnect(h, lost)

(* A transport without a handler is lost.                                  *)
Vanish(c) ==
    /\ live' = live \ {c}
    /\ UNCHANGED <<mapVars, hooked, opened, taskVars, commandVars, mishaps>>

(* The steps, with the three callers of reconnectServer() as one.          *)
LEMMA Steps ==
    ASSUME TypeOK, [Next]_vars
    PROVE  \/ Connect \/ DisconnectServer \/ DisconnectAll \/ EndCommand
           \/ UNCHANGED vars
           \/ \E t \in Tasks : TaskStep(t)
           \/ \E h \in 0..BurstLimit + 1, lost \in SUBSET Transports : Call(h, lost)
           \/ \E c \in Transports : Vanish(c)
<1>1. 0 \in 0..BurstLimit + 1 /\ history \in 0..BurstLimit + 1
  BY Bounds DEF TypeOK, MapTypes
<1>2. CASE Manual
  BY <1>1, <1>2 DEF Manual, Call
<1>3. CASE ToolCallFails
  BY <1>1, <1>3 DEF ToolCallFails, Call
<1>4. ASSUME NEW c \in Transports, Lose(c) PROVE Vanish(c) \/ Call(history, {c})
  BY <1>4 DEF Lose, Vanish, Call
<1>5. QED BY <1>1, <1>2, <1>3, <1>4 DEF Next

(* The types of the maps.                                                  *)
LEMMA MapTypesStep == TypeOK /\ EpochsRead /\ [Next]_vars => MapTypes'
<1> SUFFICES ASSUME TypeOK /\ EpochsRead, [Next]_vars PROVE MapTypes'
  OBVIOUS
<1> USE Bounds DEF TypeOK, MapTypes, TransportTypes, TaskTypes, CommandTypes,
        EpochsRead, Tasks, Transports, Deferred, mapVars, transportVars,
        taskVars, commandVars
<1>1. ASSUME NEW t \in Tasks, Connected(t) PROVE MapTypes'
  <2>1. /\ pendingConnection' \in {0, pendingConnection} /\ connection' \in {connection, opened'}
        /\ opened' = opened + 1
        /\ UNCHANGED <<epoch, pendingToolLoad, pendingReconnection, history, tools>>
    <3>1. CASE pendingConnection = t
      BY <1>1, <3>1 DEF Connected, Open
    <3>2. CASE pendingConnection # t
      BY <1>1, <3>2 DEF Connected, Open
    <3>3. QED BY <3>1, <3>2
  <2>2. QED BY <2>1
<1>2. ASSUME NEW t \in Tasks, ConnectFails(t) PROVE MapTypes'
  BY <1>2 DEF ConnectFails, At, Goto
<1>3. ASSUME NEW t \in Tasks, Loaded(t) PROVE MapTypes'
  <2>1. /\ pendingToolLoad' \in {0, pendingToolLoad} /\ tools' \in {tools, taskTransport[t]}
        /\ UNCHANGED <<epoch, connection, pendingConnection, pendingReconnection, history, opened>>
    <3>1. CASE pendingToolLoad = t
      BY <1>3, <3>1 DEF Loaded
    <3>2. CASE pendingToolLoad # t
      BY <1>3, <3>2 DEF Loaded
    <3>3. QED BY <3>1, <3>2
  <2>2. QED BY <2>1, SMTT(30)
<1>4. ASSUME NEW t \in Tasks, LoadFails(t) PROVE MapTypes'
  BY <1>4 DEF LoadFails, At, Goto
<1>5. ASSUME NEW t \in Tasks, EndConnect(t) PROVE MapTypes'
  <2>1. tools' \in {taskTransport[t], 0, Deferred}
    <3>1. CASE phase[t] = "loaded"
      BY <1>5, <3>1 DEF EndConnect
    <3>2. CASE phase[t] = "failed"
      BY <1>5, <3>2 DEF EndConnect
    <3>3. CASE phase[t] \notin {"loaded", "failed"}
      BY <1>5, <3>3 DEF EndConnect
    <3>4. QED BY <3>1, <3>2, <3>3
  <2>2. UNCHANGED <<epoch, connection, pendingConnection, pendingToolLoad, pendingReconnection,
                    history, opened>>
    BY <1>5 DEF EndConnect
  <2>3. QED BY <2>1, <2>2
<1>6. ASSUME NEW t \in Tasks, ReconnectFails(t) PROVE MapTypes'
  BY <1>6 DEF ReconnectFails, At, AfterFailure, Settle, Goto, Evicts
<1>7. ASSUME NEW t \in Tasks, Wired(t) PROVE MapTypes'
  BY <1>7 DEF Wired, At, Open, Goto, Mishap
<1>8. ASSUME NEW t \in Tasks, Listed(t) PROVE MapTypes'
  BY <1>8 DEF Listed, At, Settle, Goto, Evicts
<1>9. ASSUME NEW t \in Tasks, ListFails(t) PROVE MapTypes'
  BY <1>9 DEF ListFails, At, Goto, CloseWithoutHook
<1>10. ASSUME NEW t \in Tasks, Cleanup(t) PROVE MapTypes'
  BY <1>10 DEF Cleanup, At, AfterFailure, Settle, Goto, Evicts
<1>11. ASSUME NEW t \in Tasks, Awake(t) PROVE MapTypes'
  BY <1>11 DEF Awake, At, Goto, Settle, Evicts
<1>12. CASE Connect
  BY NextTaskUnused, <1>12 DEF Connect, Goto
<1>13. CASE DisconnectServer
  BY <1>13 DEF DisconnectServer, CloseWithoutHook, Mishap
<1>14. CASE EndDisconnectServer
  BY <1>14 DEF EndDisconnectServer, Mishap
<1>15. CASE DisconnectAll
  <2>1. epoch' = epoch + 1 /\ disconnects < MaxDisconnects
        /\ UNCHANGED <<connection, pendingConnection, pendingToolLoad, pendingReconnection, history,
                       tools, opened>>
    BY <1>15 DEF DisconnectAll
  <2>2. QED BY <2>1
<1>16. CASE EndDisconnectAll
  BY <1>16 DEF EndDisconnectAll
<1>17. ASSUME NEW h \in 0..BurstLimit + 1, NEW lost \in SUBSET Transports, Call(h, lost)
       PROVE MapTypes'
  <2>1. CASE Share(h, lost)
    BY <1>17, <2>1 DEF Call, Reconnect, Share
  <2>2. CASE Trip(h, lost)
    BY <1>17, <2>2 DEF Call, Reconnect, Trip, DropConnection
  <2>3. CASE Attempt(h, lost)
    BY <1>17, <2>3, NextTaskUnused DEF Call, Reconnect, Attempt,
         DropConnection, Goto
  <2>4. CASE NoAttempt(h, lost)
    BY <1>17, <2>4 DEF Call, Reconnect, NoAttempt
  <2>5. QED BY <1>17, <2>1, <2>2, <2>3, <2>4 DEF Call, Reconnect
<1>18. ASSUME NEW c \in Transports, Vanish(c) PROVE MapTypes'
  BY <1>18 DEF Vanish
<1>19. CASE UNCHANGED vars
  BY <1>19 DEF vars
<1>20. QED
  BY Steps, <1>1, <1>2, <1>3, <1>4, <1>5, <1>6, <1>7, <1>8, <1>9, <1>10, <1>11,
       <1>12, <1>13, <1>14, <1>15, <1>16, <1>17, <1>18, <1>19 DEF TaskStep,
       EndCommand

(* The types of the transports.                                            *)
LEMMA TransportTypesStep == TypeOK /\ [Next]_vars => TransportTypes'
<1> SUFFICES ASSUME TypeOK, [Next]_vars PROVE TransportTypes'
  OBVIOUS
<1> USE Bounds DEF TypeOK, MapTypes, TransportTypes, TaskTypes, Transports,
        mapVars, transportVars, taskVars, commandVars
<1>1. CASE Connect
  BY NextTaskUnused, <1>1 DEF Connect, Goto
<1>2. ASSUME NEW t \in Tasks, Connected(t) PROVE TransportTypes'
  BY <1>2 DEF Connected, At, Open, Goto
<1>3. ASSUME NEW t \in Tasks, Wired(t) PROVE TransportTypes'
  BY <1>3 DEF Wired, At, Open, Goto, Mishap
<1>4. ASSUME NEW t \in Tasks, ListFails(t) PROVE TransportTypes'
  BY <1>4 DEF ListFails, At, Goto, CloseWithoutHook
<1>5. ASSUME NEW h \in 0..BurstLimit + 1, NEW lost \in SUBSET Transports, Call(h, lost)
      PROVE TransportTypes'
  <2>1. CASE Share(h, lost)
    BY <1>5, <2>1 DEF Call, Reconnect, Share
  <2>2. CASE Trip(h, lost)
    BY <1>5, <2>2 DEF Call, Reconnect, Trip, DropConnection
  <2>3. CASE Attempt(h, lost)
    BY <1>5, <2>3, NextTaskUnused DEF Call, Reconnect, Attempt, DropConnection,
         Goto
  <2>4. CASE NoAttempt(h, lost)
    BY <1>5, <2>4 DEF Call, Reconnect, NoAttempt
  <2>5. QED BY <1>5, <2>1, <2>2, <2>3, <2>4 DEF Call, Reconnect
<1>6. ASSUME NEW c \in Transports, Vanish(c) PROVE TransportTypes'
  BY <1>6 DEF Vanish
<1>7. CASE DisconnectServer
  BY <1>7 DEF DisconnectServer, CloseWithoutHook, Mishap
<1>8. CASE DisconnectAll
  BY <1>8 DEF DisconnectAll, CloseWithoutHook
<1>9. ASSUME NEW t \in Tasks, ConnectFails(t) \/ Loaded(t) \/ LoadFails(t) \/
             EndConnect(t) \/ ReconnectFails(t) \/ Listed(t) \/ Cleanup(t)
      PROVE TransportTypes'
  <2>1. UNCHANGED <<live, hooked, opened>>
    BY <1>9 DEF ConnectFails, At, Goto, Loaded, LoadFails, EndConnect, Mishap,
         ReconnectFails, AfterFailure, Settle, Evicts, Listed, Cleanup
  <2>2. QED BY <2>1
<1>10. ASSUME NEW t \in Tasks, Awake(t) PROVE TransportTypes'
  BY <1>10 DEF Awake, At, Goto, Settle, Evicts
<1>11. CASE EndDisconnectServer \/ EndDisconnectAll
  <2>1. UNCHANGED <<live, hooked, opened>>
    BY <1>11 DEF EndDisconnectServer, Mishap, EndDisconnectAll
  <2>2. QED BY <2>1
<1>12. CASE UNCHANGED vars
  BY <1>12 DEF vars
<1>13. QED
  BY Steps, <1>1, <1>2, <1>3, <1>4, <1>5, <1>6, <1>7, <1>8, <1>9, <1>10, <1>11,
       <1>12 DEF TaskStep, EndCommand

(* The types of the tasks.                                                 *)
LEMMA TaskTypesStep == TypeOK /\ [Next]_vars => TaskTypes'
<1> SUFFICES ASSUME TypeOK, [Next]_vars PROVE TaskTypes'
  OBVIOUS
<1> USE Bounds DEF TypeOK, MapTypes, TransportTypes, TaskTypes, CommandTypes,
        mapVars, transportVars, taskVars, commandVars
<1>1. ASSUME NEW t \in Tasks, Connected(t) PROVE TaskTypes'
  BY <1>1 DEF Connected, At, Open, Goto
<1>2. ASSUME NEW t \in Tasks, ConnectFails(t) PROVE TaskTypes'
  BY <1>2 DEF ConnectFails, At, Goto
<1>3. ASSUME NEW t \in Tasks, Loaded(t) PROVE TaskTypes'
  BY <1>3 DEF Loaded, At, Goto
<1>4. ASSUME NEW t \in Tasks, LoadFails(t) PROVE TaskTypes'
  BY <1>4 DEF LoadFails, At, Goto
<1>5. ASSUME NEW t \in Tasks, EndConnect(t) PROVE TaskTypes'
  BY <1>5 DEF EndConnect, Mishap
<1>6. ASSUME NEW t \in Tasks, ReconnectFails(t) PROVE TaskTypes'
  BY <1>6 DEF ReconnectFails, At, AfterFailure, Settle, Goto, Evicts
<1>7. ASSUME NEW t \in Tasks, Wired(t) PROVE TaskTypes'
  BY <1>7 DEF Wired, At, Open, Goto, Mishap
<1>8. ASSUME NEW t \in Tasks, Listed(t) PROVE TaskTypes'
  BY <1>8 DEF Listed, At, Settle, Goto, Evicts
<1>9. ASSUME NEW t \in Tasks, ListFails(t) PROVE TaskTypes'
  BY <1>9 DEF ListFails, At, Goto, CloseWithoutHook
<1>10. ASSUME NEW t \in Tasks, Cleanup(t) PROVE TaskTypes'
  BY <1>10 DEF Cleanup, At, AfterFailure, Settle, Goto, Evicts
<1>11. ASSUME NEW t \in Tasks, Awake(t) PROVE TaskTypes'
  BY <1>11 DEF Awake, At, Goto, Settle, Evicts
<1>12. CASE Connect
  BY NextTaskUnused, <1>12 DEF Connect, Goto
<1>13. CASE DisconnectServer
  BY <1>13 DEF DisconnectServer, CloseWithoutHook, Mishap
<1>14. CASE EndDisconnectServer
  BY <1>14 DEF EndDisconnectServer, Mishap
<1>15. CASE DisconnectAll
  BY <1>15 DEF DisconnectAll, CloseWithoutHook
<1>16. CASE EndDisconnectAll
  BY <1>16 DEF EndDisconnectAll
<1>17. ASSUME NEW h \in 0..BurstLimit + 1, NEW lost \in SUBSET Transports, Call(h, lost)
       PROVE TaskTypes'
  <2>1. CASE Share(h, lost)
    BY <1>17, <2>1 DEF Call, Reconnect, Share
  <2>2. CASE Trip(h, lost)
    BY <1>17, <2>2 DEF Call, Reconnect, Trip, DropConnection
  <2>3. CASE Attempt(h, lost)
    BY <1>17, <2>3, NextTaskUnused DEF Call, Reconnect, Attempt,
         DropConnection, Goto
  <2>4. CASE NoAttempt(h, lost)
    BY <1>17, <2>4 DEF Call, Reconnect, NoAttempt
  <2>5. QED BY <1>17, <2>1, <2>2, <2>3, <2>4 DEF Call, Reconnect
<1>18. ASSUME NEW c \in Transports, Vanish(c) PROVE TaskTypes'
  BY <1>18 DEF Vanish
<1>19. CASE UNCHANGED vars
  BY <1>19 DEF vars
<1>20. QED
  BY Steps, <1>1, <1>2, <1>3, <1>4, <1>5, <1>6, <1>7, <1>8, <1>9, <1>10, <1>11,
       <1>12, <1>13, <1>14, <1>15, <1>16, <1>17, <1>18, <1>19 DEF TaskStep,
       EndCommand

(* The types of the state of the commands.                                 *)
LEMMA CommandTypesStep == TypeOK /\ [Next]_vars => CommandTypes'
<1> SUFFICES ASSUME TypeOK, [Next]_vars PROVE CommandTypes'
  OBVIOUS
<1> USE Bounds DEF TypeOK, CommandTypes, mapVars, transportVars, taskVars,
        commandVars
<1>1. CASE Connect
  BY NextTaskUnused, <1>1 DEF Connect, Goto
<1>2. CASE DisconnectServer
  <2>1. closing' \in {closing, "server"}
    <3>1. CASE connection = 0
      BY <1>2, <3>1 DEF DisconnectServer
    <3>2. CASE connection # 0
      BY <1>2, <3>2 DEF DisconnectServer
    <3>3. QED BY <3>1, <3>2
  <2>2. disconnects' \in 0..MaxDisconnects /\ mishaps' \subseteq mishaps \cup {"disowned"}
    BY <1>2 DEF DisconnectServer, Mishap
  <2>3. QED BY <2>1, <2>2
<1>3. CASE DisconnectAll
  BY <1>3 DEF DisconnectAll, CloseWithoutHook
<1>4. CASE EndDisconnectServer
  BY <1>4 DEF EndDisconnectServer, Mishap
<1>5. CASE EndDisconnectAll
  BY <1>5 DEF EndDisconnectAll
<1>6. ASSUME NEW t \in Tasks, EndConnect(t) PROVE CommandTypes'
  BY <1>6 DEF EndConnect, Mishap
<1>7. ASSUME NEW h \in 0..BurstLimit + 1, NEW lost \in SUBSET Transports, Call(h, lost)
      PROVE CommandTypes'
  BY NextTaskUnused, <1>7 DEF Call, Reconnect, Share, Trip, Attempt, NoAttempt,
       DropConnection, Goto
<1>8. ASSUME NEW c \in Transports, Vanish(c) PROVE CommandTypes'
  BY <1>8 DEF Vanish
<1>9. ASSUME NEW t \in Tasks, Connected(t) \/ ConnectFails(t) \/ Loaded(t) \/ LoadFails(t) \/
             ReconnectFails(t) \/ Wired(t) \/ Listed(t)
      PROVE CommandTypes'
  BY <1>9 DEF Connected, At, Open, Goto, ConnectFails, Loaded, LoadFails,
       ReconnectFails, AfterFailure, Settle, Evicts, Wired, Mishap, Listed
<1>10. ASSUME NEW t \in Tasks, ListFails(t) \/ Cleanup(t) \/ Awake(t)
       PROVE CommandTypes'
  BY <1>10 DEF ListFails, At, Goto, CloseWithoutHook, Cleanup, AfterFailure,
       Settle, Evicts, Awake
<1>11. CASE UNCHANGED vars
  BY <1>11 DEF vars
<1>12. QED
  BY Steps, <1>1, <1>2, <1>3, <1>4, <1>5, <1>6, <1>7, <1>8, <1>9, <1>10, <1>11
       DEF TaskStep, EndCommand

(* The flags.                                                              *)
LEMMA FlagTypesStep == TypeOK /\ [Next]_vars => FlagTypes'
<1> SUFFICES ASSUME TypeOK, [Next]_vars PROVE FlagTypes'
  OBVIOUS
<1> USE Bounds DEF TypeOK, FlagTypes, mapVars, transportVars, taskVars,
        commandVars
<1>1. CASE Connect
  BY NextTaskUnused, <1>1 DEF Connect, Goto
<1>2. ASSUME NEW t \in Tasks, Connected(t) PROVE FlagTypes'
  BY <1>2 DEF Connected, At, Open, Goto
<1>3. CASE DisconnectServer
  BY <1>3 DEF DisconnectServer, CloseWithoutHook, Mishap
<1>4. CASE EndDisconnectServer
  BY <1>4 DEF EndDisconnectServer, Mishap
<1>5. CASE EndDisconnectAll
  BY <1>5 DEF EndDisconnectAll
<1>6. CASE DisconnectAll
  BY <1>6 DEF DisconnectAll, CloseWithoutHook
<1>7. ASSUME NEW h \in 0..BurstLimit + 1, NEW lost \in SUBSET Transports, Call(h, lost)
      PROVE FlagTypes'
  BY NextTaskUnused, <1>7 DEF Call, Reconnect, Share, Trip, Attempt, NoAttempt,
       DropConnection, Goto
<1>8. ASSUME NEW c \in Transports, Vanish(c) PROVE FlagTypes'
  BY <1>8 DEF Vanish
<1>9. ASSUME NEW t \in Tasks, ConnectFails(t) \/ Loaded(t) \/ LoadFails(t) \/
             EndConnect(t) \/ ReconnectFails(t) \/ Wired(t) \/ Listed(t)
      PROVE FlagTypes'
  <2>1. UNCHANGED <<config, off>>
    BY <1>9 DEF ConnectFails, At, Goto, Loaded, LoadFails, EndConnect, Mishap,
         ReconnectFails, AfterFailure, Settle, Evicts, Wired, Open, Listed
  <2>2. QED BY <2>1
<1>10. ASSUME NEW t \in Tasks, ListFails(t) \/ Cleanup(t) \/ Awake(t) PROVE FlagTypes'
  <2>1. UNCHANGED <<config, off>>
    BY <1>10 DEF ListFails, At, Goto, CloseWithoutHook, Cleanup, AfterFailure,
         Settle, Evicts, Awake
  <2>2. QED BY <2>1
<1>11. CASE UNCHANGED vars
  BY <1>11 DEF vars
<1>12. QED
  BY Steps, <1>1, <1>2, <1>3, <1>4, <1>5, <1>6, <1>7, <1>8, <1>9, <1>10, <1>11
       DEF TaskStep, EndCommand

(* Epochs only grow.                                                       *)
LEMMA EpochsStep == TypeOK /\ EpochsRead /\ [Next]_vars => EpochsRead'
<1> SUFFICES ASSUME TypeOK /\ EpochsRead, [Next]_vars PROVE EpochsRead'
  OBVIOUS
<1> USE Bounds DEF TypeOK, MapTypes, TaskTypes, CommandTypes, EpochsRead,
        mapVars, transportVars, taskVars, commandVars
<1>1. CASE DisconnectAll
  BY <1>1 DEF DisconnectAll, CloseWithoutHook
<1>2. CASE DisconnectServer
  BY <1>2 DEF DisconnectServer, CloseWithoutHook, Mishap
<1>3. ASSUME NEW h \in 0..BurstLimit + 1, NEW lost \in SUBSET Transports, Call(h, lost)
      PROVE EpochsRead'
  <2>1. CASE Share(h, lost)
    BY <1>3, <2>1 DEF Call, Reconnect, Share
  <2>2. CASE Trip(h, lost)
    BY <1>3, <2>2 DEF Call, Reconnect, Trip, DropConnection
  <2>3. CASE Attempt(h, lost)
    BY <1>3, <2>3, NextTaskUnused DEF Call, Reconnect, Attempt, DropConnection,
         Goto
  <2>4. CASE NoAttempt(h, lost)
    BY <1>3, <2>4 DEF Call, Reconnect, NoAttempt
  <2>5. QED BY <1>3, <2>1, <2>2, <2>3, <2>4 DEF Call, Reconnect
<1>4. ASSUME NEW c \in Transports, Vanish(c) PROVE EpochsRead'
  BY <1>4 DEF Vanish
<1>5. CASE Connect
  BY NextTaskUnused, <1>5 DEF Connect, Goto
<1>6. ASSUME NEW t \in Tasks, Connected(t) \/ ConnectFails(t) \/ Loaded(t) \/ LoadFails(t) \/
             EndConnect(t) \/ ReconnectFails(t) \/ Wired(t)
      PROVE EpochsRead'
  <2>1. UNCHANGED <<epoch, taskEpoch, disconnects>>
    BY <1>6 DEF Connected, At, Open, Goto, ConnectFails, Loaded, LoadFails,
         EndConnect, Mishap, ReconnectFails, AfterFailure, Settle, Evicts,
         Wired
  <2>2. QED BY <2>1
<1>7. ASSUME NEW t \in Tasks, Listed(t) \/ ListFails(t) \/ Cleanup(t) \/ Awake(t)
      PROVE EpochsRead'
  <2>1. UNCHANGED <<epoch, taskEpoch, disconnects>>
    BY <1>7 DEF Listed, At, Settle, Goto, Evicts, ListFails, CloseWithoutHook,
         Cleanup, AfterFailure, Awake
  <2>2. QED BY <2>1
<1>8. CASE EndDisconnectServer \/ EndDisconnectAll
  <2>1. UNCHANGED <<epoch, taskEpoch, disconnects>>
    BY <1>8 DEF EndDisconnectServer, Mishap, EndDisconnectAll
  <2>2. QED BY <2>1
<1>9. CASE UNCHANGED vars
  BY <1>9 DEF vars
<1>10. QED
  BY Steps, <1>1, <1>2, <1>3, <1>4, <1>5, <1>6, <1>7, <1>8, <1>9 DEF TaskStep,
       EndCommand

(* A closed transport is not opened again.                                 *)
LEMMA ClosedStep == TypeOK /\ ClosedStays /\ [Next]_vars => ClosedStays'
<1> SUFFICES ASSUME TypeOK /\ ClosedStays, [Next]_vars PROVE ClosedStays'
  OBVIOUS
<1> USE Bounds DEF TypeOK, MapTypes, TransportTypes, TaskTypes, ClosedStays,
        mapVars, transportVars, taskVars, commandVars
<1>1. ASSUME NEW t \in Tasks, Connected(t) PROVE ClosedStays'
  BY <1>1 DEF Connected, At, Open, Goto
<1>2. ASSUME NEW t \in Tasks, ConnectFails(t) PROVE ClosedStays'
  BY <1>2 DEF ConnectFails, At, Goto
<1>3. ASSUME NEW t \in Tasks, Loaded(t) PROVE ClosedStays'
  BY <1>3 DEF Loaded, At, Goto
<1>4. ASSUME NEW t \in Tasks, LoadFails(t) PROVE ClosedStays'
  BY <1>4 DEF LoadFails, At, Goto
<1>5. ASSUME NEW t \in Tasks, EndConnect(t) PROVE ClosedStays'
  BY <1>5 DEF EndConnect, Mishap
<1>6. ASSUME NEW t \in Tasks, ReconnectFails(t) PROVE ClosedStays'
  BY <1>6 DEF ReconnectFails, At, AfterFailure, Settle, Goto, Evicts
<1>7. ASSUME NEW t \in Tasks, Wired(t) PROVE ClosedStays'
  BY <1>7 DEF Wired, At, Open, Goto, Mishap
<1>8. ASSUME NEW t \in Tasks, Listed(t) PROVE ClosedStays'
  BY <1>8 DEF Listed, At, Settle, Goto, Evicts
<1>9. ASSUME NEW t \in Tasks, ListFails(t) PROVE ClosedStays'
  BY <1>9 DEF ListFails, At, Goto, CloseWithoutHook
<1>10. ASSUME NEW t \in Tasks, Cleanup(t) PROVE ClosedStays'
  BY <1>10 DEF Cleanup, At, AfterFailure, Settle, Goto, Evicts
<1>11. ASSUME NEW t \in Tasks, Awake(t) PROVE ClosedStays'
  BY <1>11 DEF Awake, At, Goto, Settle, Evicts
<1>12. CASE Connect
  BY NextTaskUnused, <1>12 DEF Connect, Goto
<1>13. CASE DisconnectServer
  BY <1>13 DEF DisconnectServer, CloseWithoutHook, Mishap
<1>14. CASE EndDisconnectServer
  BY <1>14 DEF EndDisconnectServer, Mishap
<1>15. CASE DisconnectAll
  BY <1>15 DEF DisconnectAll, CloseWithoutHook
<1>16. CASE EndDisconnectAll
  BY <1>16 DEF EndDisconnectAll
<1>17. ASSUME NEW h \in 0..BurstLimit + 1, NEW lost \in SUBSET Transports, Call(h, lost)
       PROVE ClosedStays'
  <2>1. CASE Share(h, lost)
    BY <1>17, <2>1 DEF Call, Reconnect, Share
  <2>2. CASE Trip(h, lost)
    BY <1>17, <2>2 DEF Call, Reconnect, Trip, DropConnection
  <2>3. CASE Attempt(h, lost)
    BY <1>17, <2>3, NextTaskUnused DEF Call, Reconnect, Attempt,
         DropConnection, Goto
  <2>4. CASE NoAttempt(h, lost)
    BY <1>17, <2>4 DEF Call, Reconnect, NoAttempt
  <2>5. QED BY <1>17, <2>1, <2>2, <2>3, <2>4 DEF Call, Reconnect
<1>18. ASSUME NEW c \in Transports, Vanish(c) PROVE ClosedStays'
  BY <1>18 DEF Vanish
<1>19. CASE UNCHANGED vars
  BY <1>19 DEF vars
<1>20. QED
  BY Steps, <1>1, <1>2, <1>3, <1>4, <1>5, <1>6, <1>7, <1>8, <1>9, <1>10, <1>11,
       <1>12, <1>13, <1>14, <1>15, <1>16, <1>17, <1>18, <1>19 DEF TaskStep,
       EndCommand

(* The entry is taken away only by the mishaps.                            *)
LEMMA EnteredStep == TypeOK /\ EpochsRead /\ Entered /\ [Next]_vars => Entered'
<1> SUFFICES ASSUME TypeOK /\ EpochsRead /\ Entered, [Next]_vars PROVE Entered'
  OBVIOUS
<1> USE Bounds DEF TypeOK, MapTypes, TaskTypes, CommandTypes, EpochsRead,
        Entered, Reconnecting, mapVars, transportVars, taskVars, commandVars
<1>1. ASSUME NEW t \in Tasks, Connected(t) PROVE Entered'
  BY <1>1 DEF Connected, At, Open, Goto
<1>2. ASSUME NEW t \in Tasks, ConnectFails(t) PROVE Entered'
  BY <1>2 DEF ConnectFails, At, Goto
<1>3. ASSUME NEW t \in Tasks, Loaded(t) PROVE Entered'
  BY <1>3 DEF Loaded, At, Goto
<1>4. ASSUME NEW t \in Tasks, LoadFails(t) PROVE Entered'
  BY <1>4 DEF LoadFails, At, Goto
<1>5. ASSUME NEW t \in Tasks, EndConnect(t) PROVE Entered'
  BY <1>5 DEF EndConnect, Mishap
<1>6. ASSUME NEW t \in Tasks, ReconnectFails(t) PROVE Entered'
  BY <1>6 DEF ReconnectFails, At, AfterFailure, Settle, Goto, Evicts
<1>7. ASSUME NEW t \in Tasks, Wired(t) PROVE Entered'
  BY <1>7 DEF Wired, At, Open, Goto, Mishap
<1>8. ASSUME NEW t \in Tasks, Listed(t) PROVE Entered'
  BY <1>8 DEF Listed, At, Settle, Goto, Evicts
<1>9. ASSUME NEW t \in Tasks, ListFails(t) PROVE Entered'
  BY <1>9 DEF ListFails, At, Goto, CloseWithoutHook
<1>10. ASSUME NEW t \in Tasks, Cleanup(t) PROVE Entered'
  BY <1>10 DEF Cleanup, At, AfterFailure, Settle, Goto, Evicts
<1>11. ASSUME NEW t \in Tasks, Awake(t) PROVE Entered'
  BY <1>11 DEF Awake, At, Goto, Settle, Evicts
<1>12. CASE Connect
  BY NextTaskUnused, <1>12 DEF Connect, Goto
<1>13. CASE DisconnectServer
  BY <1>13 DEF DisconnectServer, CloseWithoutHook, Mishap
<1>14. CASE EndDisconnectServer
  BY <1>14 DEF EndDisconnectServer, Mishap
<1>15. CASE DisconnectAll
  BY <1>15 DEF DisconnectAll, CloseWithoutHook
<1>16. CASE EndDisconnectAll
  BY <1>16 DEF EndDisconnectAll
<1>17. ASSUME NEW h \in 0..BurstLimit + 1, NEW lost \in SUBSET Transports, Call(h, lost)
       PROVE Entered'
  <2>1. CASE Share(h, lost)
    BY <1>17, <2>1 DEF Call, Reconnect, Share
  <2>2. CASE Trip(h, lost)
    BY <1>17, <2>2 DEF Call, Reconnect, Trip, DropConnection
  <2>3. CASE Attempt(h, lost)
    <3>1. pendingReconnection = 0 /\ pendingReconnection' = NextTask
          /\ kind' = [kind EXCEPT ![NextTask] = "reconnect"]
          /\ phase' = [phase EXCEPT ![NextTask] = "connecting"]
          /\ taskEpoch' = [taskEpoch EXCEPT ![NextTask] = epoch] /\ UNCHANGED <<epoch, mishaps>>
      BY <1>17, <2>3 DEF Call, Reconnect, Attempt, Goto
    <3>2. \A t \in Tasks : t # 0
      BY DEF Tasks
    <3>3. \A t \in Tasks : t # NextTask => (Reconnecting(t)' <=> Reconnecting(t))
      BY <3>1
    <3>4. QED BY <3>1, <3>2, <3>3
  <2>4. CASE NoAttempt(h, lost)
    BY <1>17, <2>4 DEF Call, Reconnect, NoAttempt
  <2>5. QED BY <1>17, <2>1, <2>2, <2>3, <2>4 DEF Call, Reconnect
<1>18. ASSUME NEW c \in Transports, Vanish(c) PROVE Entered'
  BY <1>18 DEF Vanish
<1>19. CASE UNCHANGED vars
  BY <1>19 DEF vars
<1>20. QED
  BY Steps, <1>1, <1>2, <1>3, <1>4, <1>5, <1>6, <1>7, <1>8, <1>9, <1>10, <1>11,
       <1>12, <1>13, <1>14, <1>15, <1>16, <1>17, <1>18, <1>19 DEF TaskStep,
       EndCommand

(* What is opened is entered, and what is removed was closed.              *)
LEMMA OneOpenStep == TypeOK /\ ClosedStays /\ OneOpen /\ [Next]_vars => OneOpen'
<1> SUFFICES ASSUME TypeOK /\ ClosedStays /\ OneOpen, [Next]_vars PROVE OneOpen'
  OBVIOUS
<1> USE Bounds DEF TypeOK, MapTypes, TransportTypes, TaskTypes, CommandTypes,
        ClosedStays, OneOpen, Leaks, mapVars, transportVars, taskVars,
        commandVars
<1>1. ASSUME NEW t \in Tasks, Connected(t) PROVE OneOpen'
  BY <1>1 DEF Connected, At, Open, Goto
<1>2. ASSUME NEW t \in Tasks, ConnectFails(t) PROVE OneOpen'
  BY <1>2 DEF ConnectFails, At, Goto
<1>3. ASSUME NEW t \in Tasks, Loaded(t) PROVE OneOpen'
  BY <1>3 DEF Loaded, At, Goto
<1>4. ASSUME NEW t \in Tasks, LoadFails(t) PROVE OneOpen'
  BY <1>4 DEF LoadFails, At, Goto
<1>5. ASSUME NEW t \in Tasks, EndConnect(t) PROVE OneOpen'
  BY <1>5 DEF EndConnect, Mishap
<1>6. ASSUME NEW t \in Tasks, ReconnectFails(t) PROVE OneOpen'
  BY <1>6 DEF ReconnectFails, At, AfterFailure, Settle, Goto, Evicts
<1>7. ASSUME NEW t \in Tasks, Wired(t) PROVE OneOpen'
  BY <1>7 DEF Wired, At, Open, Goto, Mishap
<1>8. ASSUME NEW t \in Tasks, Listed(t) PROVE OneOpen'
  BY <1>8 DEF Listed, At, Settle, Goto, Evicts
<1>9. ASSUME NEW t \in Tasks, ListFails(t) PROVE OneOpen'
  BY <1>9 DEF ListFails, At, Goto, CloseWithoutHook
<1>10. ASSUME NEW t \in Tasks, Cleanup(t) PROVE OneOpen'
  BY <1>10 DEF Cleanup, At, AfterFailure, Settle, Goto, Evicts
<1>11. ASSUME NEW t \in Tasks, Awake(t) PROVE OneOpen'
  BY <1>11 DEF Awake, At, Goto, Settle, Evicts
<1>12. CASE Connect
  BY NextTaskUnused, <1>12 DEF Connect, Goto
<1>13. CASE DisconnectServer
  BY <1>13 DEF DisconnectServer, CloseWithoutHook, Mishap
<1>14. CASE EndDisconnectServer
  BY <1>14 DEF EndDisconnectServer, Mishap
<1>15. CASE DisconnectAll
  BY <1>15 DEF DisconnectAll, CloseWithoutHook
<1>16. CASE EndDisconnectAll
  BY <1>16 DEF EndDisconnectAll
<1>17. ASSUME NEW h \in 0..BurstLimit + 1, NEW lost \in SUBSET Transports, Call(h, lost)
       PROVE OneOpen'
  <2>1. CASE Share(h, lost)
    BY <1>17, <2>1 DEF Call, Reconnect, Share
  <2>2. CASE Trip(h, lost)
    BY <1>17, <2>2 DEF Call, Reconnect, Trip, DropConnection
  <2>3. CASE Attempt(h, lost)
    BY <1>17, <2>3, NextTaskUnused DEF Call, Reconnect, Attempt,
         DropConnection, Goto
  <2>4. CASE NoAttempt(h, lost)
    BY <1>17, <2>4 DEF Call, Reconnect, NoAttempt
  <2>5. QED BY <1>17, <2>1, <2>2, <2>3, <2>4 DEF Call, Reconnect
<1>18. ASSUME NEW c \in Transports, Vanish(c) PROVE OneOpen'
  BY <1>18 DEF Vanish
<1>19. CASE UNCHANGED vars
  BY <1>19 DEF vars
<1>20. QED
  BY Steps, <1>1, <1>2, <1>3, <1>4, <1>5, <1>6, <1>7, <1>8, <1>9, <1>10, <1>11,
       <1>12, <1>13, <1>14, <1>15, <1>16, <1>17, <1>18, <1>19 DEF TaskStep,
       EndCommand

(* Only the user switches the server on.                                   *)
LEMMA StillOffStep == TypeOK /\ Own /\ StillOff /\ [Next]_vars => StillOff'
<1> SUFFICES ASSUME TypeOK /\ Own /\ StillOff, [Next]_vars PROVE StillOff'
  OBVIOUS
<1> USE Bounds DEF TypeOK, FlagTypes, MapTypes, TransportTypes, TaskTypes,
        CommandTypes, Tasks, StillOff, mapVars, transportVars,
        taskVars, commandVars
<1>1. ASSUME NEW t \in Tasks, Connected(t) PROVE StillOff'
  <2>1. CASE pendingConnection = t
    <3>1. t # 0 /\ off' = off /\ mishaps \subseteq mishaps'
      BY <1>1 DEF Connected, Tasks
    <3>2. QED BY <2>1, <3>1
  <2>2. CASE pendingConnection # t
    <3>1. "unwanted" \in mishaps'
      BY <1>1, <2>2 DEF Connected
    <3>2. QED BY <3>1
  <2>3. QED BY <2>1, <2>2
<1>2. ASSUME NEW t \in Tasks, ConnectFails(t) PROVE StillOff'
  BY <1>2 DEF ConnectFails, At, Goto
<1>3. ASSUME NEW t \in Tasks, Loaded(t) PROVE StillOff'
  <2>1. /\ UNCHANGED <<config, connection, pendingConnection, off, mishaps>>
        /\ pendingToolLoad' \in {0, pendingToolLoad}
        /\ pendingToolLoad # t => tools' = tools
    BY <1>3 DEF Loaded
  <2>2. t # 0
    OBVIOUS
  <2>3. QED BY <2>1, <2>2
<1>4. ASSUME NEW t \in Tasks, LoadFails(t) PROVE StillOff'
  BY <1>4 DEF LoadFails, At, Goto
<1>5. ASSUME NEW t \in Tasks, EndConnect(t) PROVE StillOff'
  <2>1. UNCHANGED <<config, connection, pendingConnection, pendingToolLoad, off>>
        /\ mishaps \subseteq mishaps'
        /\ (tools' # tools /\ t # pendingToolLoad => "misplaced" \in mishaps')
    BY <1>5 DEF EndConnect, Mishap
  <2>2. t # 0
    OBVIOUS
  <2>3. QED BY <2>1, <2>2
<1>6. ASSUME NEW t \in Tasks, ReconnectFails(t) PROVE StillOff'
  BY <1>6 DEF ReconnectFails, At, AfterFailure, Settle, Goto, Evicts
<1>7. ASSUME NEW t \in Tasks, Wired(t) PROVE StillOff'
  BY <1>7 DEF Wired, At, Open, Goto, Mishap
<1>8. ASSUME NEW t \in Tasks, Listed(t) PROVE StillOff'
  <2>1. /\ UNCHANGED <<config, connection, pendingConnection, pendingToolLoad, off>>
        /\ mishaps \subseteq mishaps'
        /\ connection # taskTransport[t] => "late" \in mishaps'
    BY <1>8 DEF Listed
  <2>2. taskTransport[t] # 0
    BY <1>8 DEF Listed, At, Own
  <2>3. QED BY <2>1, <2>2
<1>9. ASSUME NEW t \in Tasks, ListFails(t) PROVE StillOff'
  BY <1>9 DEF ListFails, At, Goto, CloseWithoutHook
<1>10. ASSUME NEW t \in Tasks, Cleanup(t) PROVE StillOff'
  BY <1>10 DEF Cleanup, At, AfterFailure, Settle, Goto, Evicts
<1>11. ASSUME NEW t \in Tasks, Awake(t) PROVE StillOff'
  BY <1>11 DEF Awake, At, Goto, Settle, Evicts
<1>12. CASE Connect
  BY NextTaskUnused, <1>12 DEF Connect, Goto
<1>13. CASE DisconnectServer
  BY <1>13 DEF DisconnectServer, CloseWithoutHook, Mishap
<1>14. CASE EndDisconnectServer
  BY <1>14 DEF EndDisconnectServer, Mishap
<1>15. CASE DisconnectAll
  BY <1>15 DEF DisconnectAll, CloseWithoutHook
<1>16. CASE EndDisconnectAll
  BY <1>16 DEF EndDisconnectAll
<1>17. ASSUME NEW h \in 0..BurstLimit + 1, NEW lost \in SUBSET Transports, Call(h, lost)
       PROVE StillOff'
  <2>1. CASE Share(h, lost)
    BY <1>17, <2>1 DEF Call, Reconnect, Share
  <2>2. CASE Trip(h, lost)
    BY <1>17, <2>2 DEF Call, Reconnect, Trip, DropConnection
  <2>3. CASE Attempt(h, lost)
    BY <1>17, <2>3, NextTaskUnused DEF Call, Reconnect, Attempt,
         DropConnection, Goto
  <2>4. CASE NoAttempt(h, lost)
    BY <1>17, <2>4 DEF Call, Reconnect, NoAttempt
  <2>5. QED BY <1>17, <2>1, <2>2, <2>3, <2>4 DEF Call, Reconnect
<1>18. ASSUME NEW c \in Transports, Vanish(c) PROVE StillOff'
  BY <1>18 DEF Vanish
<1>19. CASE UNCHANGED vars
  BY <1>19 DEF vars
<1>20. QED
  BY Steps, <1>1, <1>2, <1>3, <1>4, <1>5, <1>6, <1>7, <1>8, <1>9, <1>10, <1>11,
       <1>12, <1>13, <1>14, <1>15, <1>16, <1>17, <1>18, <1>19 DEF TaskStep,
       EndCommand

(* An entry is taken away when its task goes on.                           *)
LEMMA PendingStep == TypeOK /\ PendingIsActive /\ [Next]_vars => PendingIsActive'
<1> SUFFICES ASSUME TypeOK /\ PendingIsActive, [Next]_vars PROVE PendingIsActive'
  OBVIOUS
<1> USE Bounds DEF TypeOK, MapTypes, TransportTypes, TaskTypes, CommandTypes, Tasks, PendingIsActive,
        mapVars, transportVars, taskVars, commandVars
<1>1. ASSUME NEW t \in Tasks, Connected(t) PROVE PendingIsActive'
  <2>1. /\ kind[t] = "connect" /\ phase' = [phase EXCEPT ![t] = "listing"]
        /\ kind' = kind /\ pendingToolLoad' = pendingToolLoad
        /\ phase[t] = "connecting"
    BY <1>1 DEF Connected, At, Goto
  <2>2. ASSUME NEW u \in Tasks, pendingConnection' = u PROVE u # t /\ pendingConnection = u
    BY <1>1, <2>2 DEF Connected
  <2>3. QED BY <2>1, <2>2
<1>2. ASSUME NEW t \in Tasks, ConnectFails(t) PROVE PendingIsActive'
  <2>1. phase' = [phase EXCEPT ![t] = "failed"] /\ kind' = kind
    BY <1>2 DEF ConnectFails, Goto
  <2>2. ASSUME NEW u \in Tasks, pendingConnection' = u PROVE u # t /\ pendingConnection = u
    BY <1>2, <2>2 DEF ConnectFails
  <2>3. ASSUME NEW u \in Tasks, pendingToolLoad' = u PROVE u # t /\ pendingToolLoad = u
    BY <1>2, <2>3 DEF ConnectFails
  <2>4. QED BY <2>1, <2>2, <2>3
<1>3. ASSUME NEW t \in Tasks, Loaded(t) PROVE PendingIsActive'
  <2>1. /\ phase' = [phase EXCEPT ![t] = "loaded"] /\ kind' = kind
        /\ phase[t] = "listing" /\ pendingConnection' = pendingConnection
    BY <1>3 DEF Loaded, At, Goto
  <2>2. ASSUME NEW u \in Tasks, pendingToolLoad' = u PROVE u # t /\ pendingToolLoad = u
    BY <1>3, <2>2 DEF Loaded
  <2>3. QED BY <2>1, <2>2
<1>4. ASSUME NEW t \in Tasks, LoadFails(t) PROVE PendingIsActive'
  <2>1. /\ phase' = [phase EXCEPT ![t] = "failed"] /\ kind' = kind
        /\ phase[t] = "listing" /\ pendingConnection' = pendingConnection
    BY <1>4 DEF LoadFails, At, Goto
  <2>2. ASSUME NEW u \in Tasks, pendingToolLoad' = u PROVE u # t /\ pendingToolLoad = u
    BY <1>4, <2>2 DEF LoadFails
  <2>3. QED BY <2>1, <2>2
<1>5. ASSUME NEW t \in Tasks, EndConnect(t) PROVE PendingIsActive'
  BY <1>5 DEF EndConnect, Mishap
<1>6. ASSUME NEW t \in Tasks, ReconnectFails(t) PROVE PendingIsActive'
  BY <1>6 DEF ReconnectFails, At, AfterFailure, Settle, Goto, Evicts
<1>7. ASSUME NEW t \in Tasks, Wired(t) PROVE PendingIsActive'
  BY <1>7 DEF Wired, At, Open, Goto, Mishap
<1>8. ASSUME NEW t \in Tasks, Listed(t) PROVE PendingIsActive'
  BY <1>8 DEF Listed, At, Settle, Goto, Evicts
<1>9. ASSUME NEW t \in Tasks, ListFails(t) PROVE PendingIsActive'
  BY <1>9 DEF ListFails, At, Goto, CloseWithoutHook
<1>10. ASSUME NEW t \in Tasks, Cleanup(t) PROVE PendingIsActive'
  BY <1>10 DEF Cleanup, At, AfterFailure, Settle, Goto, Evicts
<1>11. ASSUME NEW t \in Tasks, Awake(t) PROVE PendingIsActive'
  BY <1>11 DEF Awake, At, Goto, Settle, Evicts
<1>12. CASE Connect
  BY NextTaskUnused, <1>12 DEF Connect, Goto
<1>13. CASE DisconnectServer
  BY <1>13 DEF DisconnectServer, CloseWithoutHook, Mishap
<1>14. CASE EndDisconnectServer
  BY <1>14 DEF EndDisconnectServer, Mishap
<1>15. CASE DisconnectAll
  BY <1>15 DEF DisconnectAll, CloseWithoutHook
<1>16. CASE EndDisconnectAll
  BY <1>16 DEF EndDisconnectAll
<1>17. ASSUME NEW h \in 0..BurstLimit + 1, NEW lost \in SUBSET Transports, Call(h, lost)
       PROVE PendingIsActive'
  <2>1. CASE Share(h, lost)
    BY <1>17, <2>1 DEF Call, Reconnect, Share
  <2>2. CASE Trip(h, lost) \/ Attempt(h, lost)
    <3>1. pendingConnection' = 0 /\ pendingToolLoad' = 0
      BY <2>2 DEF Trip, Attempt, DropConnection
    <3>2. QED BY <3>1
  <2>3. CASE NoAttempt(h, lost)
    BY <1>17, <2>3 DEF Call, Reconnect, NoAttempt
  <2>4. QED BY <1>17, <2>1, <2>2, <2>3 DEF Call, Reconnect
<1>18. ASSUME NEW c \in Transports, Vanish(c) PROVE PendingIsActive'
  BY <1>18 DEF Vanish
<1>19. CASE UNCHANGED vars
  BY <1>19 DEF vars
<1>20. QED
  BY Steps, <1>1, <1>2, <1>3, <1>4, <1>5, <1>6, <1>7, <1>8, <1>9, <1>10, <1>11,
       <1>12, <1>13, <1>14, <1>15, <1>16, <1>17, <1>18, <1>19 DEF TaskStep,
       EndCommand

(* A reconnection takes the place of a first connection.                   *)
LEMMA FirstStep == TypeOK /\ Entered /\ OneOpen /\ PendingIsActive /\ FirstIsAlone /\ [Next]_vars => FirstIsAlone'
<1> SUFFICES ASSUME TypeOK /\ Entered /\ OneOpen /\ PendingIsActive /\ FirstIsAlone, [Next]_vars PROVE FirstIsAlone'
  OBVIOUS
<1> USE Bounds DEF TypeOK, MapTypes, TransportTypes, TaskTypes, CommandTypes, Tasks, Entered, Reconnecting, OneOpen, Leaks,
        PendingIsActive, FirstIsAlone, Deferred,
        mapVars, transportVars, taskVars, commandVars
<1>1. ASSUME NEW t \in Tasks, Connected(t) PROVE FirstIsAlone'
  BY <1>1 DEF Connected, At, Open, Goto
<1>2. ASSUME NEW t \in Tasks, ConnectFails(t) PROVE FirstIsAlone'
  BY <1>2 DEF ConnectFails, At, Goto
<1>3. ASSUME NEW t \in Tasks, Loaded(t) PROVE FirstIsAlone'
  BY <1>3 DEF Loaded, At, Goto
<1>4. ASSUME NEW t \in Tasks, LoadFails(t) PROVE FirstIsAlone'
  BY <1>4 DEF LoadFails, At, Goto
<1>5. ASSUME NEW t \in Tasks, EndConnect(t) PROVE FirstIsAlone'
  BY <1>5 DEF EndConnect, Mishap
<1>6. ASSUME NEW t \in Tasks, ReconnectFails(t) PROVE FirstIsAlone'
  BY <1>6 DEF ReconnectFails, At, AfterFailure, Settle, Goto, Evicts
<1>7. ASSUME NEW t \in Tasks, Wired(t) PROVE FirstIsAlone'
  <2>1. Reconnecting(t) /\ t # 0
    BY <1>7 DEF Wired, At
  <2>2. mishaps \subseteq mishaps' /\ pendingConnection' = pendingConnection
    BY <1>7 DEF Wired, Mishap
  <2>3. mishaps = {} => pendingReconnection = t
    BY <2>1
  <2>4. QED BY <2>1, <2>2, <2>3
<1>8. ASSUME NEW t \in Tasks, Listed(t) PROVE FirstIsAlone'
  BY <1>8 DEF Listed, At, Settle, Goto, Evicts
<1>9. ASSUME NEW t \in Tasks, ListFails(t) PROVE FirstIsAlone'
  BY <1>9 DEF ListFails, At, Goto, CloseWithoutHook
<1>10. ASSUME NEW t \in Tasks, Cleanup(t) PROVE FirstIsAlone'
  BY <1>10 DEF Cleanup, At, AfterFailure, Settle, Goto, Evicts
<1>11. ASSUME NEW t \in Tasks, Awake(t) PROVE FirstIsAlone'
  BY <1>11 DEF Awake, At, Goto, Settle, Evicts
<1>12. CASE Connect
  BY NextTaskUnused, <1>12 DEF Connect, Goto
<1>13. CASE DisconnectServer
  BY <1>13 DEF DisconnectServer, CloseWithoutHook, Mishap
<1>14. CASE EndDisconnectServer
  BY <1>14 DEF EndDisconnectServer, Mishap
<1>15. CASE DisconnectAll
  BY <1>15 DEF DisconnectAll, CloseWithoutHook
<1>16. CASE EndDisconnectAll
  BY <1>16 DEF EndDisconnectAll
<1>17. ASSUME NEW h \in 0..BurstLimit + 1, NEW lost \in SUBSET Transports, Call(h, lost)
       PROVE FirstIsAlone'
  <2>1. CASE Share(h, lost)
    BY <1>17, <2>1 DEF Call, Reconnect, Share
  <2>2. CASE Trip(h, lost) \/ Attempt(h, lost)
    <3>1. pendingConnection' = 0
      BY <2>2 DEF Trip, Attempt, DropConnection
    <3>2. QED BY <3>1
  <2>3. CASE NoAttempt(h, lost)
    BY <1>17, <2>3 DEF Call, Reconnect, NoAttempt
  <2>4. QED BY <1>17, <2>1, <2>2, <2>3 DEF Call, Reconnect
<1>18. ASSUME NEW c \in Transports, Vanish(c) PROVE FirstIsAlone'
  BY <1>18 DEF Vanish
<1>19. CASE UNCHANGED vars
  BY <1>19 DEF vars
<1>20. QED
  BY Steps, <1>1, <1>2, <1>3, <1>4, <1>5, <1>6, <1>7, <1>8, <1>9, <1>10, <1>11,
       <1>12, <1>13, <1>14, <1>15, <1>16, <1>17, <1>18, <1>19 DEF TaskStep,
       EndCommand

(* A transport is new to its task, and to the tools.                       *)
LEMMA OwnStep == TypeOK /\ Own /\ [Next]_vars => Own'
<1> SUFFICES ASSUME TypeOK /\ Own, [Next]_vars PROVE Own'
  OBVIOUS
<1> USE Bounds DEF TypeOK, MapTypes, TaskTypes, CommandTypes, Tasks,
        Own, Deferred, mapVars, transportVars, taskVars, commandVars
<1>1. ASSUME NEW t \in Tasks, Connected(t) PROVE Own'
  <2>1. /\ phase' = [phase EXCEPT ![t] = "listing"]
        /\ taskTransport' = [taskTransport EXCEPT ![t] = opened + 1]
        /\ UNCHANGED <<kind, tools>>
    BY <1>1 DEF Connected, Open, Goto
  <2>2. opened + 1 # 0 /\ tools # opened + 1 /\ \A u \in Tasks : taskTransport[u] # opened + 1
    BY Fresh
  <2>3. QED BY <2>1, <2>2
<1>2. ASSUME NEW t \in Tasks, ConnectFails(t) PROVE Own'
  BY <1>2 DEF ConnectFails, At, Goto
<1>3. ASSUME NEW t \in Tasks, Loaded(t) PROVE Own'
  BY <1>3 DEF Loaded, At, Goto
<1>4. ASSUME NEW t \in Tasks, LoadFails(t) PROVE Own'
  BY <1>4 DEF LoadFails, At, Goto
<1>5. ASSUME NEW t \in Tasks, EndConnect(t) PROVE Own'
  <2>1. /\ UNCHANGED <<phase, kind, taskTransport>>
        /\ tools' = CASE phase[t] = "loaded" -> taskTransport[t]
                      [] phase[t] = "failed" -> 0
                      [] OTHER -> Deferred
    BY <1>5 DEF EndConnect
  <2>2. CASE phase[t] = "loaded"
    BY <2>1, <2>2
  <2>3. CASE phase[t] # "loaded"
    <3>1. tools' \in {0, Deferred}
      BY <2>1, <2>3
    <3>2. \A u \in Tasks : taskTransport[u] # Deferred
      BY Fresh
    <3>3. \A u \in Tasks : phase[u] = "listing" => tools' # taskTransport[u]
      BY <3>1, <3>2
    <3>4. QED BY <2>1, <3>3
  <2>4. QED BY <2>2, <2>3
<1>6. ASSUME NEW t \in Tasks, ReconnectFails(t) PROVE Own'
  BY <1>6 DEF ReconnectFails, At, AfterFailure, Settle, Goto, Evicts
<1>7. ASSUME NEW t \in Tasks, Wired(t) PROVE Own'
  <2>1. /\ phase' = [phase EXCEPT ![t] = "listing"]
        /\ taskTransport' = [taskTransport EXCEPT ![t] = opened + 1]
        /\ UNCHANGED <<kind, tools>>
    BY <1>7 DEF Wired, Open, Goto
  <2>2. opened + 1 # 0 /\ tools # opened + 1 /\ \A u \in Tasks : taskTransport[u] # opened + 1
    BY Fresh
  <2>3. QED BY <2>1, <2>2
<1>8. ASSUME NEW t \in Tasks, Listed(t) PROVE Own'
  BY <1>8 DEF Listed, At, Settle, Goto, Evicts
<1>9. ASSUME NEW t \in Tasks, ListFails(t) PROVE Own'
  BY <1>9 DEF ListFails, At, Goto, CloseWithoutHook
<1>10. ASSUME NEW t \in Tasks, Cleanup(t) PROVE Own'
  BY <1>10 DEF Cleanup, At, AfterFailure, Settle, Goto, Evicts
<1>11. ASSUME NEW t \in Tasks, Awake(t) PROVE Own'
  BY <1>11 DEF Awake, At, Goto, Settle, Evicts
<1>12. CASE Connect
  BY NextTaskUnused, <1>12 DEF Connect, Goto
<1>13. CASE DisconnectServer
  BY <1>13 DEF DisconnectServer, CloseWithoutHook, Mishap
<1>14. CASE EndDisconnectServer
  BY <1>14 DEF EndDisconnectServer, Mishap
<1>15. CASE DisconnectAll
  BY <1>15 DEF DisconnectAll, CloseWithoutHook
<1>16. CASE EndDisconnectAll
  BY <1>16 DEF EndDisconnectAll
<1>17. ASSUME NEW h \in 0..BurstLimit + 1, NEW lost \in SUBSET Transports, Call(h, lost)
       PROVE Own'
  <2>1. CASE Share(h, lost)
    BY <1>17, <2>1 DEF Call, Reconnect, Share
  <2>2. CASE Trip(h, lost)
    BY <1>17, <2>2 DEF Call, Reconnect, Trip, DropConnection
  <2>3. CASE Attempt(h, lost)
    BY <1>17, <2>3, NextTaskUnused DEF Call, Reconnect, Attempt,
         DropConnection, Goto
  <2>4. CASE NoAttempt(h, lost)
    BY <1>17, <2>4 DEF Call, Reconnect, NoAttempt
  <2>5. QED BY <1>17, <2>1, <2>2, <2>3, <2>4 DEF Call, Reconnect
<1>18. ASSUME NEW c \in Transports, Vanish(c) PROVE Own'
  BY <1>18 DEF Vanish
<1>19. CASE UNCHANGED vars
  BY <1>19 DEF vars
<1>20. QED
  BY Steps, <1>1, <1>2, <1>3, <1>4, <1>5, <1>6, <1>7, <1>8, <1>9, <1>10, <1>11,
       <1>12, <1>13, <1>14, <1>15, <1>16, <1>17, <1>18, <1>19 DEF TaskStep,
       EndCommand

(* The loading of a first connection goes with it.                         *)
LEMMA LoadingStep ==
    TypeOK /\ Entered /\ PendingIsActive /\ FirstIsAlone /\ Loading /\ [Next]_vars => Loading'
<1> SUFFICES ASSUME TypeOK /\ Entered /\ PendingIsActive /\ FirstIsAlone /\ Loading, [Next]_vars
             PROVE  Loading'
  OBVIOUS
<1> USE Bounds DEF TypeOK, MapTypes, TaskTypes, CommandTypes, Tasks,
        Loading, mapVars, transportVars, taskVars, commandVars
<1>1. ASSUME NEW t \in Tasks, Connected(t) PROVE Loading'
  <2>1. /\ phase[t] = "connecting" /\ phase' = [phase EXCEPT ![t] = "listing"]
        /\ taskTransport' = [taskTransport EXCEPT ![t] = opened + 1]
        /\ UNCHANGED <<pendingToolLoad, pendingReconnection>> /\ mishaps \subseteq mishaps'
    BY <1>1 DEF Connected, At, Open, Goto
  <2>2. CASE pendingConnection = t
    <3>1. connection' = opened + 1
      BY <1>1, <2>2 DEF Connected, Open
    <3>2. mishaps = {} => pendingToolLoad = t
      BY <2>2 DEF FirstIsAlone
    <3>3. \A u \in Tasks : pendingToolLoad = u /\ phase[u] = "connecting" => u = t
      BY <2>2
    <3>4. QED BY <2>1, <3>1, <3>2, <3>3
  <2>3. CASE pendingConnection # t
    <3>1. "unwanted" \in mishaps' /\ pendingConnection' = pendingConnection
      BY <1>1, <2>3 DEF Connected
    <3>2. QED BY <2>1, <3>1
  <2>4. QED BY <2>2, <2>3
<1>2. ASSUME NEW t \in Tasks, ConnectFails(t) PROVE Loading'
  <2>1. /\ phase' = [phase EXCEPT ![t] = "failed"]
        /\ pendingConnection' = IF pendingConnection = t THEN 0 ELSE pendingConnection
        /\ UNCHANGED <<connection, pendingReconnection, taskTransport, mishaps>>
    BY <1>2 DEF ConnectFails, Goto
  <2>2. pendingToolLoad' \in {0, pendingToolLoad} /\ pendingToolLoad' # t
    BY <1>2 DEF ConnectFails
  <2>3. \A u \in Tasks : pendingToolLoad' = u => pendingToolLoad = u /\ u # t /\ phase'[u] = phase[u]
    BY <2>1, <2>2
  <2>4. pendingToolLoad' # 0 => pendingReconnection' = 0
    BY <2>1, <2>2
  <2>5. QED BY <2>1, <2>3, <2>4
<1>3. ASSUME NEW t \in Tasks, Loaded(t) PROVE Loading'
  <2>1. /\ phase' = [phase EXCEPT ![t] = "loaded"]
        /\ UNCHANGED <<connection, pendingConnection, pendingReconnection, taskTransport, mishaps>>
    BY <1>3 DEF Loaded, Goto
  <2>2. pendingToolLoad' \in {0, pendingToolLoad} /\ pendingToolLoad' # t
    BY <1>3 DEF Loaded
  <2>3. \A u \in Tasks : pendingToolLoad' = u => pendingToolLoad = u /\ u # t /\ phase'[u] = phase[u]
    BY <2>1, <2>2
  <2>4. pendingToolLoad' # 0 => pendingReconnection' = 0
    BY <2>1, <2>2
  <2>5. QED BY <2>1, <2>3, <2>4
<1>4. ASSUME NEW t \in Tasks, LoadFails(t) PROVE Loading'
  <2>1. /\ phase' = [phase EXCEPT ![t] = "failed"]
        /\ pendingConnection' = pendingConnection
        /\ UNCHANGED <<connection, pendingReconnection, taskTransport, mishaps>>
    BY <1>4 DEF LoadFails, Goto
  <2>2. pendingToolLoad' \in {0, pendingToolLoad} /\ pendingToolLoad' # t
    BY <1>4 DEF LoadFails
  <2>3. \A u \in Tasks : pendingToolLoad' = u => pendingToolLoad = u /\ u # t /\ phase'[u] = phase[u]
    BY <2>1, <2>2
  <2>4. pendingToolLoad' # 0 => pendingReconnection' = 0
    BY <2>1, <2>2
  <2>5. QED BY <2>1, <2>3, <2>4
<1>5. ASSUME NEW t \in Tasks, EndConnect(t) PROVE Loading'
  BY <1>5 DEF EndConnect, Mishap
<1>6. ASSUME NEW t \in Tasks, ReconnectFails(t) PROVE Loading'
  BY <1>6 DEF ReconnectFails, At, AfterFailure, Settle, Goto, Evicts
<1>7. ASSUME NEW t \in Tasks, Wired(t) PROVE Loading'
  <2>1. /\ phase[t] = "connecting" /\ phase' = [phase EXCEPT ![t] = "listing"]
        /\ taskTransport' = [taskTransport EXCEPT ![t] = opened + 1]
        /\ UNCHANGED <<pendingConnection, pendingToolLoad, pendingReconnection>> /\ mishaps \subseteq mishaps'
    BY <1>7 DEF Wired, At, Open, Goto, Mishap
  <2>2. mishaps = {} => pendingReconnection = t
    BY <1>7 DEF Wired, At, Entered, Reconnecting
  <2>3. mishaps' = {} => \A u \in Tasks : pendingToolLoad # u
    <3>1. mishaps' = {} => pendingReconnection = t
      BY <2>1, <2>2
    <3>2. \A u \in Tasks : u # 0
      OBVIOUS
    <3>3. pendingReconnection = t => pendingToolLoad = 0
      BY <3>2
    <3>4. QED BY <3>1, <3>2, <3>3
  <2>4. \A u \in Tasks : phase'[u] = "connecting" => phase[u] = "connecting"
    BY <2>1
  <2>5. QED BY <2>1, <2>3, <2>4
<1>8. ASSUME NEW t \in Tasks, Listed(t) PROVE Loading'
  BY <1>8 DEF Listed, At, Settle, Goto, Evicts
<1>9. ASSUME NEW t \in Tasks, ListFails(t) PROVE Loading'
  BY <1>9 DEF ListFails, At, Goto, CloseWithoutHook
<1>10. ASSUME NEW t \in Tasks, Cleanup(t) PROVE Loading'
  BY <1>10 DEF Cleanup, At, AfterFailure, Settle, Goto, Evicts
<1>11. ASSUME NEW t \in Tasks, Awake(t) PROVE Loading'
  <2>1. /\ kind[t] = "reconnect" /\ pendingReconnection' \in {0, pendingReconnection}
        /\ UNCHANGED <<connection, pendingConnection, pendingToolLoad, taskTransport>>
        /\ mishaps \subseteq mishaps'
    BY <1>11 DEF Awake, At, Settle
  <2>2. PICK p \in {"connecting", "done"} : phase' = [phase EXCEPT ![t] = p]
    BY <1>11 DEF Awake, Settle, Goto
  <2>3. pendingToolLoad # t
    BY <2>1 DEF PendingIsActive
  <2>4. QED BY <2>1, <2>2, <2>3
<1>12. CASE Connect
  BY NextTaskUnused, <1>12 DEF Connect, Goto
<1>13. CASE DisconnectServer
  BY <1>13 DEF DisconnectServer, CloseWithoutHook, Mishap
<1>14. CASE EndDisconnectServer
  BY <1>14 DEF EndDisconnectServer, Mishap
<1>15. CASE DisconnectAll
  BY <1>15 DEF DisconnectAll, CloseWithoutHook
<1>16. CASE EndDisconnectAll
  BY <1>16 DEF EndDisconnectAll
<1>17. ASSUME NEW h \in 0..BurstLimit + 1, NEW lost \in SUBSET Transports, Call(h, lost)
       PROVE Loading'
  <2>1. CASE Share(h, lost)
    BY <1>17, <2>1 DEF Call, Reconnect, Share
  <2>2. CASE Trip(h, lost)
    BY <1>17, <2>2 DEF Call, Reconnect, Trip, DropConnection
  <2>3. CASE Attempt(h, lost)
    BY <1>17, <2>3, NextTaskUnused DEF Call, Reconnect, Attempt,
         DropConnection, Goto
  <2>4. CASE NoAttempt(h, lost)
    BY <1>17, <2>4 DEF Call, Reconnect, NoAttempt
  <2>5. QED BY <1>17, <2>1, <2>2, <2>3, <2>4 DEF Call, Reconnect
<1>18. ASSUME NEW c \in Transports, Vanish(c) PROVE Loading'
  BY <1>18 DEF Vanish
<1>19. CASE UNCHANGED vars
  BY <1>19 DEF vars
<1>20. QED
  BY Steps, <1>1, <1>2, <1>3, <1>4, <1>5, <1>6, <1>7, <1>8, <1>9, <1>10, <1>11,
       <1>12, <1>13, <1>14, <1>15, <1>16, <1>17, <1>18, <1>19 DEF TaskStep,
       EndCommand

(* Whoever has made tools stale, or failed to replace them, does it later. *)
LEMMA CurrentStep ==
    TypeOK /\ OneOpen /\ PendingIsActive /\ FirstIsAlone /\ Loading /\ Own /\ Current
        /\ [Next]_vars => Current'
<1> SUFFICES ASSUME TypeOK /\ OneOpen /\ PendingIsActive /\ FirstIsAlone /\ Loading /\ Own /\ Current,
                     [Next]_vars
             PROVE  Current'
  OBVIOUS
<1> USE Bounds DEF TypeOK, MapTypes, TransportTypes, TaskTypes, CommandTypes, Tasks, OneOpen, Leaks, PendingIsActive,
        FirstIsAlone, Current, Replaced, Relisting, Deferred,
        mapVars, transportVars, taskVars, commandVars
<1>1. ASSUME NEW t \in Tasks, Connected(t) PROVE Current'
  <2>1. /\ phase' = [phase EXCEPT ![t] = "listing"] /\ calling' = calling /\ tools' = tools
        /\ mishaps \subseteq mishaps' /\ t # 0
    BY <1>1 DEF Connected, Goto
  <2>2. CASE pendingConnection = t
    <3>1. mishaps = {} => t \in calling \/ tools \in {0, Deferred}
      BY <2>1, <2>2
    <3>2. t \in calling => Replaced(t)'
      BY <2>1
    <3>3. QED BY <2>1, <3>1, <3>2
  <2>3. CASE pendingConnection # t
    <3>1. "unwanted" \in mishaps'
      BY <1>1, <2>3 DEF Connected
    <3>2. QED BY <3>1
  <2>4. QED BY <2>2, <2>3
<1>2. ASSUME NEW t \in Tasks, ConnectFails(t) PROVE Current'
  BY <1>2 DEF ConnectFails, At, Goto
<1>3. ASSUME NEW t \in Tasks, Loaded(t) PROVE Current'
  <2>1. /\ phase' = [phase EXCEPT ![t] = "loaded"]
        /\ kind[t] = "connect" /\ phase[t] = "listing"
        /\ UNCHANGED <<connection, calling, kind, taskTransport, mishaps>>
    BY <1>3 DEF Loaded, At, Goto
  <2> SUFFICES ASSUME mishaps = {}, connection # 0,
                      tools' \notin {0, Deferred, connection}
               PROVE  \E u \in Tasks : Replaced(u)' \/ Relisting(u)'
    BY <2>1
  <2>2. pendingToolLoad = t => taskTransport[t] = connection
    BY <2>1 DEF Loading
  <2>3. tools' = tools
    BY <1>3, <2>2 DEF Loaded
  <2>4. PICK u \in Tasks : Replaced(u) \/ Relisting(u)
    BY <2>3
  <2>5. CASE u = t
    <3>1. tools # taskTransport[t]
      BY <2>1 DEF Own
    <3>2. QED BY <2>1, <2>3, <2>4, <2>5, <3>1
  <2>6. CASE u # t
    <3>1. phase'[u] = phase[u]
      BY <2>1, <2>6
    <3>2. Replaced(u) => Replaced(u)'
      BY <2>1, <2>3, <3>1
    <3>3. Relisting(u) => Relisting(u)'
      BY <2>1, <3>1
    <3>4. QED BY <2>4, <3>2, <3>3
  <2>7. QED BY <2>5, <2>6
<1>4. ASSUME NEW t \in Tasks, LoadFails(t) PROVE Current'
  BY <1>4 DEF LoadFails, At, Goto
<1>5. ASSUME NEW t \in Tasks, EndConnect(t) PROVE Current'
  <2>1. /\ UNCHANGED <<connection, pendingToolLoad, phase, kind, taskTransport>>
        /\ calling' = calling \ {t} /\ mishaps \subseteq mishaps'
        /\ (tools' # tools => t = pendingToolLoad \/ mishaps' # {})
    BY <1>5 DEF EndConnect, Mishap
  <2>2. tools' = CASE phase[t] = "loaded" -> taskTransport[t]
                   [] phase[t] = "failed" -> 0
                   [] OTHER -> Deferred
    BY <1>5 DEF EndConnect
  <2> SUFFICES ASSUME mishaps' = {}, connection # 0,
                      tools' \notin {0, Deferred, connection}
               PROVE  \E u \in Tasks : Replaced(u)' \/ Relisting(u)'
    BY <2>1
  <2>3. phase[t] = "loaded" /\ tools' = taskTransport[t]
    BY <2>2
  <2>4. tools' = tools
    BY <2>1, <2>3
  <2>5. PICK u \in Tasks : Replaced(u) \/ Relisting(u)
    BY <2>1, <2>4
  <2>6. Replaced(u) => Replaced(u)'
    BY <2>1, <2>3, <2>4
  <2>7. Relisting(u) => Relisting(u)'
    BY <2>1
  <2>8. QED BY <2>5, <2>6, <2>7
<1>6. ASSUME NEW t \in Tasks, ReconnectFails(t) PROVE Current'
  <2>1. /\ phase[t] \in {"connecting", "sleeping"}
        /\ UNCHANGED <<connection, tools, calling, kind, taskTransport>>
        /\ mishaps \subseteq mishaps'
    BY <1>6 DEF ReconnectFails, At
  <2>2. PICK p \in {"sleeping", "done", "connecting"} : phase' = [phase EXCEPT ![t] = p]
    BY <1>6 DEF ReconnectFails, AfterFailure, Settle, Goto
  <2>3. \A u \in Tasks : Replaced(u) => Replaced(u)'
    BY <2>1, <2>2
  <2>4. \A u \in Tasks : Relisting(u) => Relisting(u)'
    BY <2>1, <2>2
  <2>5. QED BY <2>1, <2>3, <2>4
<1>7. ASSUME NEW t \in Tasks, Wired(t) PROVE Current'
  BY <1>7 DEF Wired, At, Open, Goto, Mishap
<1>8. ASSUME NEW t \in Tasks, Listed(t) PROVE Current'
  BY <1>8 DEF Listed, At, Settle, Goto, Evicts
<1>9. ASSUME NEW t \in Tasks, ListFails(t) PROVE Current'
  BY <1>9 DEF ListFails, At, Goto, CloseWithoutHook
<1>10. ASSUME NEW t \in Tasks, Cleanup(t) PROVE Current'
  BY <1>10 DEF Cleanup, At, AfterFailure, Settle, Goto, Evicts
<1>11. ASSUME NEW t \in Tasks, Awake(t) PROVE Current'
  <2>1. /\ phase[t] \in {"connecting", "sleeping"}
        /\ UNCHANGED <<connection, tools, calling, kind, taskTransport>>
        /\ mishaps \subseteq mishaps'
    BY <1>11 DEF Awake, At
  <2>2. PICK p \in {"sleeping", "done", "connecting"} : phase' = [phase EXCEPT ![t] = p]
    BY <1>11 DEF Awake, Settle, Goto
  <2>3. \A u \in Tasks : Replaced(u) => Replaced(u)'
    BY <2>1, <2>2
  <2>4. \A u \in Tasks : Relisting(u) => Relisting(u)'
    BY <2>1, <2>2
  <2>5. QED BY <2>1, <2>3, <2>4
<1>12. CASE Connect
  BY NextTaskUnused, <1>12 DEF Connect, Goto
<1>13. CASE DisconnectServer
  BY <1>13 DEF DisconnectServer, CloseWithoutHook, Mishap
<1>14. CASE EndDisconnectServer
  BY <1>14 DEF EndDisconnectServer, Mishap
<1>15. CASE DisconnectAll
  BY <1>15 DEF DisconnectAll, CloseWithoutHook
<1>16. CASE EndDisconnectAll
  BY <1>16 DEF EndDisconnectAll
<1>17. ASSUME NEW h \in 0..BurstLimit + 1, NEW lost \in SUBSET Transports, Call(h, lost)
       PROVE Current'
  <2>1. CASE Share(h, lost)
    BY <1>17, <2>1 DEF Call, Reconnect, Share
  <2>2. CASE Trip(h, lost)
    BY <1>17, <2>2 DEF Call, Reconnect, Trip, DropConnection
  <2>3. CASE Attempt(h, lost)
    BY <1>17, <2>3, NextTaskUnused DEF Call, Reconnect, Attempt, DropConnection, Goto
  <2>4. CASE NoAttempt(h, lost)
    BY <1>17, <2>4 DEF Call, Reconnect, NoAttempt
  <2>5. QED BY <1>17, <2>1, <2>2, <2>3, <2>4 DEF Call, Reconnect
<1>18. ASSUME NEW c \in Transports, Vanish(c) PROVE Current'
  BY <1>18 DEF Vanish
<1>19. CASE UNCHANGED vars
  BY <1>19 DEF vars
<1>20. QED
  BY Steps, <1>1, <1>2, <1>3, <1>4, <1>5, <1>6, <1>7, <1>8, <1>9, <1>10, <1>11,
       <1>12, <1>13, <1>14, <1>15, <1>16, <1>17, <1>18, <1>19 DEF TaskStep,
       EndCommand

(***************************************************************************)
(* The theorems.                                                           *)
(***************************************************************************)
(* The strengthening is an invariant.                                      *)
THEOREM ManagerInductive == Spec => []IInv
<1>1. Init => IInv
  <2> SUFFICES ASSUME Init PROVE IInv
    OBVIOUS
  <2> USE Bounds DEF Init
  <2>1. MapTypes /\ TransportTypes
    BY DEF MapTypes, TransportTypes, Deferred
  <2>2. TaskTypes
    BY DEF TaskTypes
  <2>3. CommandTypes
    BY DEF CommandTypes
  <2>4. FlagTypes
    BY DEF FlagTypes
  <2>5. EpochsRead /\ ClosedStays
    BY DEF EpochsRead, ClosedStays
  <2>6. Entered
    BY DEF Entered, Reconnecting
  <2>7. OneOpen
    BY DEF OneOpen
  <2>8. StillOff
    BY DEF StillOff
  <2>9. PendingIsActive /\ Loading /\ Own
    BY DEF PendingIsActive, Loading, Own, Tasks
  <2>10. FirstIsAlone /\ Current
    BY DEF FirstIsAlone, Current
  <2>11. QED
    BY <2>1, <2>2, <2>3, <2>4, <2>5, <2>6, <2>7, <2>8, <2>9, <2>10 DEF IInv, TypeOK
<1>2. IInv /\ [Next]_vars => IInv'
  <2> SUFFICES ASSUME IInv, [Next]_vars PROVE IInv'
    OBVIOUS
  <2>1. TypeOK'
    BY MapTypesStep, TransportTypesStep, TaskTypesStep, CommandTypesStep,
         FlagTypesStep DEF IInv, TypeOK
  <2>2. QED BY <2>1, EpochsStep, ClosedStep, EnteredStep, OneOpenStep, StillOffStep,
       PendingStep, FirstStep, LoadingStep, OwnStep, CurrentStep DEF IInv
<1>3. QED BY <1>1, <1>2, PTL DEF Spec

(* When nothing is under way, no child process or stream is left open but  *)
(* that of the connection (manager.ts, #connectAndWireServer and the two   *)
(* disconnections), and the tools of the server are those of its present   *)
(* connection, unless one of the races was lost.                           *)
THEOREM QuietHolds == Spec => []QuietInv
<1>1. IInv => TypeOK /\ NoTransportLeaks
  BY DEF IInv, OneOpen, NoTransportLeaks
<1>2. ASSUME IInv PROVE ToolsAreCurrent
  <2> SUFFICES ASSUME Idle, mishaps = {}, connection # 0
               PROVE  tools \in {0, Deferred, connection}
    BY DEF ToolsAreCurrent
  <2>1. \A t \in Tasks : ~Replaced(t) /\ ~Relisting(t)
    BY DEF Idle, Active, Replaced, Relisting
  <2>2. QED BY <1>2, <2>1 DEF IInv, Current
<1>3. IInv => QuietInv
  BY <1>1, <1>2 DEF QuietInv
<1>4. QED BY ManagerInductive, <1>3, PTL

(* At most one reconnection of this epoch runs (manager.ts:751), for any   *)
(* number of losses, failed calls and commands, unless the entry of one    *)
(* was taken away.                                                         *)
THEOREM ReconnectionsAreShared == Spec => []OneReconnection
<1>1. IInv => OneReconnection
  BY DEF IInv, Entered, Reconnecting, OneReconnection
<1>2. QED BY ManagerInductive, <1>1, PTL

(* After disconnectAll() only the user brings the connection back          *)
(* (manager.ts:726), unless a first connection comes up that was given up, *)
(* and the tools only by such a connection, by connectServers() returning  *)
(* late or by a listing that was under way, which nothing checks           *)
(* (manager.ts:930); a transport stays open only after a leak.             *)
THEOREM OffStaysOff == Spec => []StaysOff
<1>1. ASSUME IInv PROVE StaysOff
  <2>1. mishaps \cap Leaks = {} => live \subseteq {connection} /\ "unwanted" \notin mishaps
    BY <1>1 DEF IInv, OneOpen, Leaks
  <2>2. 0 \notin live
    BY <1>1, Bounds DEF IInv, TypeOK, MapTypes, TransportTypes
  <2>3. off /\ "unwanted" \notin mishaps => connection = 0
    BY <1>1 DEF IInv, StillOff
  <2>4. off /\ mishaps \cap {"unwanted", "misplaced", "late"} = {} => tools = 0
    BY <1>1 DEF IInv, StillOff
  <2>5. QED BY <2>1, <2>2, <2>3, <2>4 DEF StaysOff
<1>2. QED BY ManagerInductive, <1>1, PTL
=============================================================================
