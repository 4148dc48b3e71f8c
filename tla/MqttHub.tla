------------------------------- MODULE MqttHub -------------------------------
(***************************************************************************)
(* The MQTT hub (mqtt_client_hub.cpp): the queue of commands between the   *)
(* MQTT task and aq_tick, and the one client handle that is replaced when  *)
(* someone saves another broker.                                           *)
(*                                                                         *)
(* The queue has a mutex; s_mqtt, s_cfg and s_mqtt_connected have none.    *)
(* set_mqtt_config runs where it was dispatched: on aq_tick for a command  *)
(* from the queue, on httpd for the panel.  Each access to s_mqtt is a     *)
(* step.  What an API call does with a destroyed handle is undefined: it   *)
(* does nothing, or the board resets, as it may at any time.               *)
(*                                                                         *)
(* Commands are numbered as they arrive.  Their effects are those of       *)
(* DeviceService; here only set_mqtt_config tells itself apart.            *)
(***************************************************************************)
EXTENDS Naturals, Sequences

CONSTANTS
    Configs, Enabled, Off,  \* broker settings; those that make a client; factory
    Handles,                \* addresses of esp_mqtt clients
    Null,
    MaxCmdQueue,            \* 8
    MaxCmds,                \* bound: commands that arrive
    Panels,                 \* may a panel reconfigure MQTT?  chosen for good
    Drops                   \* may the broker drop a connection?

ASSUME ConfigsAssumption == Enabled \subseteq Configs /\ Off \in Configs \ Enabled
ASSUME HandlesAssumption == Null \notin Handles
ASSUME QueueAssumption ==
    MaxCmdQueue \in Nat \ {0} /\ MaxCmds \in Nat
    /\ Panels \subseteq BOOLEAN /\ Drops \in BOOLEAN

Threads == {"main", "aq_tick", "httpd"}

VARIABLES
    nvs_cfg,            \* the blob aquarium/mqtt_cfg
    s_cfg, s_mqtt, s_mqtt_connected, s_cmd_queue,
    alive,              \* handles initialised and not destroyed
    started,            \* of these, the ones whose MQTT task runs
    online,             \* of these, the ones the broker knows
    cfg_of,             \* handle -> the configuration it was made with
    arrived, executed,  \* the last command that came in, that was dispatched
    pc,                 \* what each thread does next
    panel               \* a panel reconfigures MQTT in this behaviour

client   == <<alive, started, online, cfg_of>>
commands == <<s_cmd_queue, arrived, executed>>
vars == <<nvs_cfg, s_cfg, s_mqtt, s_mqtt_connected, s_cmd_queue, alive, started,
          online, cfg_of, arrived, executed, pc, panel>>

-----------------------------------------------------------------------------
(* The start *)

InitPc == [t \in Threads |-> IF t = "main" THEN "stop" ELSE "idle"]

Init ==
    /\ nvs_cfg \in Configs /\ s_cfg = Off
    /\ s_mqtt = Null /\ s_mqtt_connected = FALSE /\ s_cmd_queue = <<>>
    /\ alive = {} /\ started = {} /\ online = {}
    /\ cfg_of = [h \in Handles |-> Off]
    /\ arrived = 0 /\ executed = 0
    /\ pc = InitPc
    /\ panel \in Panels

\* A power cut or a crash: only the flash remains, and that only if the start
\* that follows has not to erase NVS.
Reset ==
    /\ pc # InitPc
    /\ s_cfg' = Off /\ s_mqtt' = Null /\ s_mqtt_connected' = FALSE
    /\ s_cmd_queue' = <<>>
    /\ alive' = {} /\ started' = {} /\ online' = {}
    /\ cfg_of' = [h \in Handles |-> Off]
    /\ pc' = InitPc
    /\ nvs_cfg' \in {nvs_cfg, Off}
    /\ UNCHANGED <<arrived, executed, panel>>

-----------------------------------------------------------------------------
(* The MQTT task of a client: mqtt_event_handler *)

Connected(h) ==
    /\ h \in started \ online
    /\ online' = online \cup {h}
    /\ s_mqtt_connected' = TRUE
    /\ UNCHANGED <<nvs_cfg, s_cfg, s_mqtt, alive, started, cfg_of, commands, pc,
                   panel>>

Disconnected(h) ==
    /\ Drops /\ h \in online
    /\ online' = online \ {h}
    /\ s_mqtt_connected' = FALSE
    /\ UNCHANGED <<nvs_cfg, s_cfg, s_mqtt, alive, started, cfg_of, commands, pc,
                   panel>>

\* Mutant: a full queue is emptied from the wrong end, after the newcomer.
Enqueued_Overtakes(q, cmd) ==
    IF Len(q) >= MaxCmdQueue THEN <<cmd>> \o Tail(q) ELSE Append(q, cmd)

\* Mutant: room is made one command too late.
Enqueued_OneTooMany(q, cmd) ==
    Append(IF Len(q) > MaxCmdQueue THEN Tail(q) ELSE q, cmd)

\* The oldest command makes room.
Enqueued(q, cmd) ==
    Append(IF Len(q) >= MaxCmdQueue THEN Tail(q) ELSE q, cmd)

\* A command is lost when the queue's mutex is not had within 50 ms, or when
\* another thread has just emptied the topics to rebuild them.
DataArrives(h) ==
    /\ h \in online /\ arrived < MaxCmds
    /\ arrived' = arrived + 1
    /\ s_cmd_queue' \in {Enqueued(s_cmd_queue, arrived'), s_cmd_queue}
    /\ UNCHANGED <<nvs_cfg, s_cfg, s_mqtt, s_mqtt_connected, client, executed, pc,
                   panel>>

-----------------------------------------------------------------------------
(* Control *)

At(t, label) == pc[t] = label
GoTo(t, label) == pc' = [pc EXCEPT ![t] = label]

\* Where set_mqtt_config, or the start, goes back to.
Return(t) == GoTo(t, IF t = "aq_tick" THEN "reply" ELSE "idle")

Moves(t, from, to) ==
    /\ At(t, from) /\ GoTo(t, to)
    /\ UNCHANGED <<nvs_cfg, s_cfg, s_mqtt, s_mqtt_connected, client, commands,
                   panel>>

-----------------------------------------------------------------------------
(* aq_tick, which is created when the start is over *)

\* Mutant: nothing is drained while the broker is away.
DrainBegins_WhenConnected ==
    /\ At("main", "idle") /\ s_mqtt # Null /\ s_mqtt_connected
    /\ Moves("aq_tick", "idle", "drain")

DrainBegins ==
    /\ At("main", "idle") /\ s_mqtt # Null
    /\ Moves("aq_tick", "idle", "drain")

\* The queue is empty, or its mutex is taken.
DrainEnds == Moves("aq_tick", "drain", "idle")

\* Mutant: the newest command is taken first.
Pop_Newest(to) ==
    /\ At("aq_tick", "drain") /\ s_cmd_queue # <<>>
    /\ executed' = s_cmd_queue[Len(s_cmd_queue)]
    /\ s_cmd_queue' = SubSeq(s_cmd_queue, 1, Len(s_cmd_queue) - 1)
    /\ GoTo("aq_tick", to)
    /\ UNCHANGED <<nvs_cfg, s_cfg, s_mqtt, s_mqtt_connected, client, arrived, panel>>

\* Take a command and dispatch it.  Most come back with an answer at once.
Pop(to) ==
    /\ At("aq_tick", "drain") /\ s_cmd_queue # <<>>
    /\ executed' = Head(s_cmd_queue)
    /\ s_cmd_queue' = Tail(s_cmd_queue)
    /\ GoTo("aq_tick", to)
    /\ UNCHANGED <<nvs_cfg, s_cfg, s_mqtt, s_mqtt_connected, client, arrived, panel>>

DispatchPlain       == Pop("reply")
DispatchReconfigure == Pop("save")

ReplyBegins == s_mqtt_connected /\ Moves("aq_tick", "reply", "answer")
ReplySkipped == ~s_mqtt_connected /\ Moves("aq_tick", "reply", "drain")
ReplySent == Moves("aq_tick", "answer", "drain")

\* on_device_tick: the check, then the use of the handle.
StateBegins ==
    /\ At("main", "idle") /\ s_mqtt # Null /\ s_mqtt_connected
    /\ Moves("aq_tick", "idle", "publish")

StateSent == Moves("aq_tick", "publish", "idle")

-----------------------------------------------------------------------------
(* set_mqtt_config, then stop and start_from_nvs *)

PanelSaves ==
    /\ panel /\ Moves("httpd", "idle", "save")

\* A save that fails may have written the blob all the same.
NvsSave(cfg, ok) == nvs_cfg' \in IF ok THEN {cfg} ELSE {cfg, nvs_cfg}

\* A failed save answers with an error.
SaveConfig(t) ==
    /\ At(t, "save")
    /\ \E cfg \in Configs, ok \in BOOLEAN :
         NvsSave(cfg, ok) /\ IF ok THEN GoTo(t, "stop") ELSE Return(t)
    /\ UNCHANGED <<s_cfg, s_mqtt, s_mqtt_connected, client, commands, panel>>

\* What stops or destroys a client stops its task first.
Halt(h) == started' = started \ {h} /\ online' = online \ {h}

CheckClient(t) == Moves(t, "stop", IF s_mqtt = Null THEN "disconnect" ELSE "halt")

StopClient(t) ==
    /\ At(t, "halt") /\ GoTo(t, "destroy")
    /\ Halt(s_mqtt)
    /\ UNCHANGED <<nvs_cfg, s_cfg, s_mqtt, s_mqtt_connected, alive, cfg_of,
                   commands, panel>>

\* Mutant: the client is stopped but not destroyed.
DestroyClient_Leaks(t) ==
    /\ At(t, "destroy") /\ GoTo(t, "clear")
    /\ UNCHANGED <<nvs_cfg, s_cfg, s_mqtt, s_mqtt_connected, client, commands,
                   panel>>

DestroyClient(t) ==
    /\ At(t, "destroy") /\ GoTo(t, "clear")
    /\ alive' = alive \ {s_mqtt}
    /\ Halt(s_mqtt)
    /\ UNCHANGED <<nvs_cfg, s_cfg, s_mqtt, s_mqtt_connected, cfg_of, commands,
                   panel>>

\* Mutant: the pointer keeps its value.
ClearHandle_Keeps(t) ==
    /\ At(t, "clear") /\ GoTo(t, "disconnect")
    /\ UNCHANGED <<nvs_cfg, s_cfg, s_mqtt, s_mqtt_connected, client, commands, panel>>

ClearHandle(t) ==
    /\ At(t, "clear") /\ GoTo(t, "disconnect")
    /\ s_mqtt' = Null
    /\ UNCHANGED <<nvs_cfg, s_cfg, s_mqtt_connected, client, commands, panel>>

\* Mutant: the flag keeps its value.
ClearConnected_Keeps(t) ==
    /\ At(t, "disconnect") /\ GoTo(t, "load")
    /\ UNCHANGED <<nvs_cfg, s_cfg, s_mqtt, s_mqtt_connected, client, commands, panel>>

ClearConnected(t) ==
    /\ At(t, "disconnect") /\ GoTo(t, "load")
    /\ s_mqtt_connected' = FALSE
    /\ UNCHANGED <<nvs_cfg, s_cfg, s_mqtt, client, commands, panel>>

\* Without a blob MQTT is off; Off is that blob, too.
NvsLoaded == nvs_cfg

LoadConfig(t) ==
    /\ At(t, "load")
    /\ s_cfg' = NvsLoaded
    /\ IF NvsLoaded \in Enabled THEN GoTo(t, "init") ELSE Return(t)
    /\ UNCHANGED <<nvs_cfg, s_mqtt, s_mqtt_connected, client, commands, panel>>

\* A fresh handle for the configuration loaded.
InitClient(t) ==
    /\ At(t, "init") /\ GoTo(t, "start")
    /\ \E h \in Handles \ alive :
         /\ s_mqtt' = h
         /\ alive' = alive \cup {h}
         /\ cfg_of' = [cfg_of EXCEPT ![h] = s_cfg]
    /\ UNCHANGED <<nvs_cfg, s_cfg, s_mqtt_connected, started, online, commands,
                   panel>>

InitFails(t) ==
    /\ At(t, "init") /\ Return(t)
    /\ s_mqtt' = Null
    /\ UNCHANGED <<nvs_cfg, s_cfg, s_mqtt_connected, client, commands, panel>>

StartClient(t) ==
    /\ At(t, "start") /\ Return(t)
    /\ s_mqtt \in alive \ started
    /\ started' = started \cup {s_mqtt}
    /\ UNCHANGED <<nvs_cfg, s_cfg, s_mqtt, s_mqtt_connected, alive, online, cfg_of,
                   commands, panel>>

\* No task for it, or no client, or one that runs already.
StartFails(t) ==
    /\ At(t, "start") /\ Return(t)
    /\ alive' = alive \ {s_mqtt}
    /\ Halt(s_mqtt)
    /\ s_mqtt' = Null
    /\ UNCHANGED <<nvs_cfg, s_cfg, s_mqtt_connected, cfg_of, commands, panel>>

-----------------------------------------------------------------------------
Configure(t) ==
    \/ SaveConfig(t) \/ CheckClient(t) \/ StopClient(t) \/ DestroyClient(t)
    \/ ClearHandle(t) \/ ClearConnected(t) \/ LoadConfig(t)
    \/ InitClient(t) \/ InitFails(t) \/ StartClient(t) \/ StartFails(t)

Dispatch == DispatchPlain \/ DispatchReconfigure

Tick == \/ DrainBegins \/ DrainEnds \/ Dispatch
        \/ ReplyBegins \/ ReplySkipped \/ ReplySent
        \/ StateBegins \/ StateSent

MqttEvent == \E h \in Handles : Connected(h) \/ Disconnected(h) \/ DataArrives(h)

Next == \/ \E t \in Threads : Configure(t)
        \/ Tick \/ MqttEvent \/ PanelSaves \/ Reset

Spec == Init /\ [][Next]_vars

(* Fairness: aq_tick is an endless loop and drains on every turn; no call it *)
(* makes in the hub blocks; the queue's mutex is held for a copy only.       *)
Fairness ==
    /\ WF_vars(DrainBegins \/ DrainEnds \/ ReplyBegins \/ ReplySkipped \/ ReplySent
                 \/ StateSent \/ Configure("aq_tick"))
    /\ WF_vars(Configure("main"))
    /\ SF_vars(DrainBegins) /\ SF_vars(Dispatch)

FairSpec == Spec /\ Fairness
-----------------------------------------------------------------------------
\* Every variable keeps its type; the queue never holds more than it may.
TypeOK ==
    /\ {nvs_cfg, s_cfg} \subseteq Configs
    /\ s_mqtt \in Handles \cup {Null}
    /\ s_mqtt_connected \in BOOLEAN /\ panel \in BOOLEAN
    /\ s_cmd_queue \in Seq(1..MaxCmds) /\ Len(s_cmd_queue) <= MaxCmdQueue
    /\ alive \subseteq Handles /\ started \subseteq alive /\ online \subseteq started
    /\ cfg_of \in [Handles -> Configs]
    /\ arrived \in 0..MaxCmds /\ executed \in 0..MaxCmds
    /\ pc \in [Threads -> {"idle", "drain", "reply", "answer", "publish", "save",
                           "stop", "halt", "destroy", "clear", "disconnect",
                           "load", "init", "start"}]

\* Commands are dispatched in the order they came, each at most once: what
\* waits is in order and younger than what was dispatched, across overflows,
\* reconnections and replaced clients.
CommandsInOrder ==
    /\ \A i \in 1..Len(s_cmd_queue) : executed < s_cmd_queue[i]
    /\ \A i, j \in 1..Len(s_cmd_queue) : i < j => s_cmd_queue[i] < s_cmd_queue[j]

Settled == \A t \in Threads :
             pc[t] \in {"idle", "drain", "reply", "answer", "publish"}

OneClient == /\ alive \subseteq {s_mqtt}
             /\ s_mqtt # Null => s_mqtt \in started /\ cfg_of[s_mqtt] = s_cfg

\* Where no panel reconfigures MQTT, one client is left when all is done, and
\* it is that of the configuration loaded last.
ClientReplaced == ~panel /\ Settled => OneClient

\* Where no panel reconfigures MQTT, the flag behind is_connected, which clients
\* are shown and replies depend on, is that of the client in use.
ConnectedHonest == ~panel /\ Settled => (s_mqtt_connected <=> s_mqtt \in online)

Uses == {"answer", "publish", "halt", "destroy", "start"}

\* Where no panel reconfigures MQTT, no thread uses a destroyed client.
NoStaleHandle ==
    ~panel => \A t \in Threads :
                 pc[t] \in Uses => s_mqtt \in alive \cup {Null}

\* A command that waits is dispatched at last, or gives way to younger ones, or
\* goes in a reset, unless MQTT stays off for good.
Waits(cmd) == \E i \in DOMAIN s_cmd_queue : s_cmd_queue[i] = cmd

CommandsLeave ==
    []<>(s_mqtt # Null) => \A cmd \in 1..MaxCmds : Waits(cmd) ~> ~Waits(cmd)

\* ARCHITECTURE.uk.md:47: set_mqtt_config "saves MQTT in NVS and reconnects".
SavedAndReconnected == Settled => OneClient
=============================================================================
