---------------------------- MODULE MqttHubProofs ----------------------------
(***************************************************************************)
(* Proofs about the MQTT hub, for any capacity of the queue, any number of *)
(* commands, brokers and addresses of clients: types, the order of the     *)
(* commands, and the life of the one client handle.                        *)
(***************************************************************************)
EXTENDS MqttHub, TLAPS

Cmds == 1..MaxCmds

-----------------------------------------------------------------------------
(* The queue of commands *)

\* A queue that is not empty has a head and a tail.
LEMMA QueueHeadTail ==
    ASSUME NEW S, NEW q \in Seq(S), q # <<>>
    PROVE  /\ Head(q) \in S /\ Tail(q) \in Seq(S)
           /\ Len(q) \in Nat \ {0} /\ Head(q) = q[1] /\ Len(Tail(q)) = Len(q) - 1
           /\ \A i \in 1..Len(q) - 1 : Tail(q)[i] = q[i + 1]
OBVIOUS

\* What is appended comes last.
LEMMA QueueAppend ==
    ASSUME NEW S, NEW q \in Seq(S), NEW e \in S
    PROVE  /\ Append(q, e) \in Seq(S) /\ Len(Append(q, e)) = Len(q) + 1
           /\ Append(q, e)[Len(q) + 1] = e
           /\ \A i \in 1..Len(q) : Append(q, e)[i] = q[i]
OBVIOUS

\* The elements of a queue are where its type says.
LEMMA QueueElement ==
    ASSUME NEW S, NEW q \in Seq(S), NEW i \in 1..Len(q)
    PROVE  q[i] \in S
OBVIOUS

\* A queue of commands that are in order, all younger than lo and none younger
\* than hi.
Sorted(q, lo, hi) ==
    /\ \A i \in 1..Len(q) : lo < q[i] /\ q[i] <= hi
    /\ \A i, j \in 1..Len(q) : i < j => q[i] < q[j]

\* Without its head a queue is as sorted as before, and younger than the head.
LEMMA SortedTail ==
    ASSUME NEW q \in Seq(Cmds), NEW lo \in Nat, NEW hi \in Nat,
           Sorted(q, lo, hi), q # <<>>
    PROVE  Sorted(Tail(q), lo, hi) /\ Sorted(Tail(q), Head(q), hi)
<1>1. /\ Len(q) \in Nat \ {0} /\ Head(q) = q[1] /\ Len(Tail(q)) = Len(q) - 1
      /\ \A i \in 1..Len(q) - 1 : Tail(q)[i] = q[i + 1]
  BY QueueHeadTail
<1>2. \A i \in 1..Len(Tail(q)) :
        i + 1 \in 1..Len(q) /\ 1 < i + 1 /\ Tail(q)[i] = q[i + 1]
  BY <1>1
<1>3. 1 \in 1..Len(q)
  BY <1>1
<1>4. \A i \in 1..Len(Tail(q)) : lo < Tail(q)[i] /\ Tail(q)[i] <= hi
                                 /\ Head(q) < Tail(q)[i]
  BY <1>1, <1>2, <1>3 DEF Sorted
<1>5. ASSUME NEW i \in 1..Len(Tail(q)), NEW j \in 1..Len(Tail(q)), i < j
      PROVE  Tail(q)[i] < Tail(q)[j]
  <2>1. i + 1 < j + 1
    BY <1>1, <1>5
  <2> QED BY <2>1, <1>2 DEF Sorted
<1> QED BY <1>4, <1>5 DEF Sorted

\* A command younger than all keeps a queue sorted.
LEMMA SortedAppend ==
    ASSUME NEW q \in Seq(Cmds), NEW lo \in Nat, NEW hi \in Nat, lo <= hi,
           Sorted(q, lo, hi), hi + 1 \in Cmds
    PROVE  Sorted(Append(q, hi + 1), lo, hi + 1)
<1> DEFINE a == Append(q, hi + 1)
<1>1. /\ Len(a) = Len(q) + 1 /\ Len(q) \in Nat /\ a[Len(q) + 1] = hi + 1
      /\ \A i \in 1..Len(q) : a[i] = q[i] /\ q[i] \in Nat
  <2>1. /\ Len(Append(q, hi + 1)) = Len(q) + 1 /\ Append(q, hi + 1)[Len(q) + 1] = hi + 1
        /\ \A i \in 1..Len(q) : Append(q, hi + 1)[i] = q[i]
    OBVIOUS
  <2>2. Len(q) \in Nat /\ \A i \in 1..Len(q) : q[i] \in Cmds
    OBVIOUS
  <2>3. \A i \in 1..Len(q) : q[i] \in Nat
    BY <2>2, QueueAssumption DEF Cmds
  <2> QED BY <2>1, <2>2, <2>3
<1> HIDE DEF a
<1>2. \A i \in 1..Len(a) : i \in 1..Len(q) \/ i = Len(q) + 1
  BY <1>1
<1>3. \A i \in 1..Len(a) : lo < a[i] /\ a[i] <= hi + 1
  BY <1>1, <1>2 DEF Sorted
<1>4. ASSUME NEW i \in 1..Len(a), NEW j \in 1..Len(a), i < j
      PROVE  a[i] < a[j]
  <2>1. i \in 1..Len(q)
    BY <1>1, <1>4
  <2>2. CASE j \in 1..Len(q)
    BY <1>1, <1>4, <2>1, <2>2 DEF Sorted
  <2>3. CASE j = Len(q) + 1
    <3>1. a[i] = q[i] /\ q[i] \in Nat /\ q[i] <= hi
      BY <1>1, <2>1 DEF Sorted
    <3>2. a[j] = hi + 1
      BY <1>1, <2>3
    <3> QED BY <3>1, <3>2
  <2> QED BY <1>2, <2>2, <2>3
<1>5. Sorted(a, lo, hi + 1)
  BY <1>3, <1>4 DEF Sorted
<1> QED BY <1>5 DEF a

\* Enqueued keeps type, bound and order.
LEMMA EnqueuedKeeps ==
    ASSUME NEW q \in Seq(Cmds), Len(q) <= MaxCmdQueue, NEW lo \in Nat,
           NEW hi \in Nat, lo <= hi, Sorted(q, lo, hi), hi + 1 \in Cmds
    PROVE  /\ Enqueued(q, hi + 1) \in Seq(Cmds)
           /\ Len(Enqueued(q, hi + 1)) <= MaxCmdQueue
           /\ Sorted(Enqueued(q, hi + 1), lo, hi + 1)
<1> USE QueueAssumption
<1>0. Len(q) \in Nat
  OBVIOUS
<1>1. CASE Len(q) >= MaxCmdQueue
  <2>1. q # <<>>
    BY <1>1
  <2>2. Tail(q) \in Seq(Cmds) /\ Len(Tail(q)) = Len(q) - 1 /\ Sorted(Tail(q), lo, hi)
    BY <2>1, QueueHeadTail, SortedTail
  <2>3. Enqueued(q, hi + 1) = Append(Tail(q), hi + 1)
    BY <1>1 DEF Enqueued
  <2>4. Sorted(Append(Tail(q), hi + 1), lo, hi + 1)
    BY <2>2, SortedAppend
  <2>5. /\ Append(Tail(q), hi + 1) \in Seq(Cmds)
        /\ Len(Append(Tail(q), hi + 1)) = Len(Tail(q)) + 1
    BY <2>2, QueueAppend
  <2>6. Len(Append(Tail(q), hi + 1)) <= MaxCmdQueue
    BY <1>0, <2>2, <2>5
  <2> QED BY <2>3, <2>4, <2>5, <2>6, Zenon
<1>2. CASE ~(Len(q) >= MaxCmdQueue)
  <2>1. Enqueued(q, hi + 1) = Append(q, hi + 1)
    BY <1>2 DEF Enqueued
  <2>2. Sorted(Append(q, hi + 1), lo, hi + 1)
    BY SortedAppend
  <2>3. Append(q, hi + 1) \in Seq(Cmds) /\ Len(Append(q, hi + 1)) = Len(q) + 1
    BY QueueAppend
  <2>4. Len(Append(q, hi + 1)) <= MaxCmdQueue
    BY <1>0, <1>2, <2>3
  <2> QED BY <2>1, <2>2, <2>3, <2>4, Zenon
<1> QED BY <1>1, <1>2

-----------------------------------------------------------------------------
(* Types *)

\* No command is younger than the last that arrived.
QueueInv ==
    /\ s_cmd_queue \in Seq(Cmds) /\ Len(s_cmd_queue) <= MaxCmdQueue
    /\ arrived \in 0..MaxCmds /\ executed \in 0..MaxCmds /\ executed <= arrived
    /\ Sorted(s_cmd_queue, executed, arrived)

\* All of TypeOK but the queue.
Labels == {"idle", "drain", "reply", "answer", "publish", "save", "stop", "halt",
           "destroy", "clear", "disconnect", "load", "init", "start"}

ClientType ==
    /\ {nvs_cfg, s_cfg} \subseteq Configs
    /\ s_mqtt \in Handles \cup {Null}
    /\ s_mqtt_connected \in BOOLEAN /\ panel \in BOOLEAN
    /\ alive \subseteq Handles /\ started \subseteq alive /\ online \subseteq started
    /\ cfg_of \in [Handles -> Configs]
    /\ pc \in [Threads -> Labels]

\* The queue stays sorted and bounded: commands come at its end, with the next
\* number, and leave at its head.
LEMMA QueueStep == QueueInv /\ [Next]_vars => QueueInv'
<1> SUFFICES ASSUME QueueInv, [Next]_vars PROVE QueueInv'
  OBVIOUS
<1> USE QueueAssumption DEF QueueInv
<1>1. ASSUME UNCHANGED commands PROVE QueueInv'
  BY <1>1 DEF commands
<1>2. ASSUME NEW t \in Threads, Configure(t) PROVE QueueInv'
  <2>1. UNCHANGED commands
    BY <1>2 DEF Configure, SaveConfig, CheckClient, Moves, StopClient, DestroyClient,
         ClearHandle, ClearConnected, LoadConfig, InitClient, InitFails, StartClient,
         StartFails
  <2> QED BY <1>1, <2>1
<1>3. ASSUME NEW to, Pop(to) PROVE QueueInv'
  <2>1. /\ Head(s_cmd_queue) \in Cmds /\ Tail(s_cmd_queue) \in Seq(Cmds)
        /\ Len(s_cmd_queue) \in Nat \ {0}
        /\ Head(s_cmd_queue) = s_cmd_queue[1]
        /\ Len(Tail(s_cmd_queue)) = Len(s_cmd_queue) - 1
    BY <1>3, QueueHeadTail DEF Pop
  <2>2. executed \in Nat /\ arrived \in Nat
    OBVIOUS
  <2>3. Sorted(Tail(s_cmd_queue), Head(s_cmd_queue), arrived)
    BY <1>3, <2>2, SortedTail DEF Pop
  <2>4. Head(s_cmd_queue) <= arrived
    BY <2>1 DEF Sorted
  <2>5. /\ s_cmd_queue' = Tail(s_cmd_queue) /\ executed' = Head(s_cmd_queue)
        /\ arrived' = arrived
    BY <1>3 DEF Pop
  <2>6. Head(s_cmd_queue) \in 0..MaxCmds
    BY <2>1 DEF Cmds
  <2>7. Len(Tail(s_cmd_queue)) <= MaxCmdQueue
    BY <2>1
  <2> QED BY <2>1, <2>3, <2>4, <2>5, <2>6, <2>7
<1>4. CASE Tick
  <2>1. CASE Dispatch
    BY <1>3, <2>1 DEF Dispatch, DispatchPlain, DispatchReconfigure
  <2>2. CASE ~Dispatch
    <3>1. UNCHANGED commands
      BY <1>4, <2>2 DEF Tick, DrainBegins, DrainEnds, ReplyBegins, ReplySkipped,
           ReplySent, StateBegins, StateSent, Moves
    <3> QED BY <1>1, <3>1
  <2> QED BY <2>1, <2>2
<1>5. CASE MqttEvent
  <2> PICK h \in Handles : Connected(h) \/ Disconnected(h) \/ DataArrives(h)
    BY <1>5 DEF MqttEvent
  <2>1. CASE Connected(h) \/ Disconnected(h)
    BY <1>1, <2>1 DEF Connected, Disconnected
  <2>2. CASE DataArrives(h)
    <3>1. /\ executed \in Nat /\ arrived \in Nat /\ arrived + 1 \in Cmds
          /\ arrived' = arrived + 1 /\ executed' = executed
      BY <2>2 DEF DataArrives, Cmds
    <3>2. CASE s_cmd_queue' = Enqueued(s_cmd_queue, arrived + 1)
      <4>1. /\ Enqueued(s_cmd_queue, arrived + 1) \in Seq(Cmds)
            /\ Len(Enqueued(s_cmd_queue, arrived + 1)) <= MaxCmdQueue
            /\ Sorted(Enqueued(s_cmd_queue, arrived + 1), executed, arrived + 1)
        BY <3>1, EnqueuedKeeps
      <4>2. arrived + 1 \in 0..MaxCmds /\ executed <= arrived + 1
        BY <3>1 DEF Cmds
      <4> QED BY <3>1, <3>2, <4>1, <4>2
    <3>3. CASE s_cmd_queue' = s_cmd_queue
      <4>1. \A i \in 1..Len(s_cmd_queue) : s_cmd_queue[i] \in Cmds
        BY QueueElement
      <4>2. Sorted(s_cmd_queue, executed, arrived + 1)
        BY <3>1, <4>1 DEF Sorted, Cmds
      <4>3. arrived + 1 \in 0..MaxCmds /\ executed <= arrived + 1
        BY <3>1 DEF Cmds
      <4> QED BY <3>1, <3>3, <4>2, <4>3
    <3> QED BY <2>2, <3>1, <3>2, <3>3 DEF DataArrives
  <2> QED BY <2>1, <2>2
<1>6. CASE PanelSaves
  BY <1>1, <1>6 DEF PanelSaves, Moves
<1>7. CASE Reset
  <2>1. s_cmd_queue' = <<>> /\ arrived' = arrived /\ executed' = executed
    BY <1>7 DEF Reset
  <2>2. <<>> \in Seq(Cmds) /\ Len(<<>>) = 0 /\ Sorted(<<>>, executed, arrived)
    BY DEF Sorted
  <2> QED BY <2>1, <2>2
<1>8. CASE UNCHANGED vars
  BY <1>1, <1>8 DEF vars, commands
<1> QED BY <1>2, <1>4, <1>5, <1>6, <1>7, <1>8 DEF Next

\* A thread goes to one of the labels, and returns to one.
LEMMA GoToLabel ==
    ASSUME pc \in [Threads -> Labels], NEW t \in Threads, NEW l \in Labels, GoTo(t, l)
    PROVE  /\ pc' \in [Threads -> Labels] /\ pc'[t] = l
           /\ \A u \in Threads : u # t => pc'[u] = pc[u]
BY DEF GoTo

LEMMA ReturnLabel ==
    ASSUME pc \in [Threads -> Labels], NEW t \in Threads, Return(t)
    PROVE  /\ pc' \in [Threads -> Labels] /\ pc'[t] \in {"reply", "idle"}
           /\ \A u \in Threads : u # t => pc'[u] = pc[u]
BY DEF Return, GoTo, Labels

\* The steps of set_mqtt_config, stop and start_from_nvs keep the types.
LEMMA ConfigureType ==
    ASSUME ClientType, NEW t \in Threads, Configure(t) PROVE ClientType'
<1> USE ConfigsAssumption DEF ClientType
<1>1. CASE SaveConfig(t)
  <2>1. nvs_cfg' \in Configs
    BY <1>1 DEF SaveConfig, NvsSave
  <2>2. pc' \in [Threads -> Labels]
    BY <1>1, GoToLabel, ReturnLabel DEF SaveConfig, Labels
  <2> QED BY <1>1, <2>1, <2>2 DEF SaveConfig, client
<1>2. CASE StopClient(t)
  <2>1. pc' \in [Threads -> Labels]
    BY <1>2, GoToLabel DEF StopClient, Labels
  <2> QED BY <1>2, <2>1 DEF StopClient, Halt
<1>3. CASE DestroyClient(t)
  <2>1. pc' \in [Threads -> Labels]
    BY <1>3, GoToLabel DEF DestroyClient, Labels
  <2> QED BY <1>3, <2>1 DEF DestroyClient, Halt
<1>4. CASE ClearHandle(t)
  <2>1. pc' \in [Threads -> Labels]
    BY <1>4, GoToLabel DEF ClearHandle, Labels
  <2> QED BY <1>4, <2>1 DEF ClearHandle, client
<1>5. CASE ClearConnected(t)
  <2>1. pc' \in [Threads -> Labels]
    BY <1>5, GoToLabel DEF ClearConnected, Labels
  <2> QED BY <1>5, <2>1 DEF ClearConnected, client
<1>6. CASE LoadConfig(t)
  <2>1. pc' \in [Threads -> Labels]
    BY <1>6, GoToLabel, ReturnLabel DEF LoadConfig, Labels
  <2> QED BY <1>6, <2>1 DEF LoadConfig, NvsLoaded, client
<1>7. CASE InitClient(t)
  <2>1. pc' \in [Threads -> Labels]
    BY <1>7, GoToLabel DEF InitClient, Labels
  <2> QED BY <1>7, <2>1 DEF InitClient
<1>8. CASE InitFails(t)
  <2>1. pc' \in [Threads -> Labels]
    BY <1>8, ReturnLabel DEF InitFails
  <2> QED BY <1>8, <2>1 DEF InitFails, client
<1>9. CASE StartClient(t)
  <2>1. pc' \in [Threads -> Labels]
    BY <1>9, ReturnLabel DEF StartClient
  <2> QED BY <1>9, <2>1 DEF StartClient
<1>10. CASE StartFails(t)
  <2>1. pc' \in [Threads -> Labels]
    BY <1>10, ReturnLabel DEF StartFails
  <2> QED BY <1>10, <2>1 DEF StartFails, Halt
<1>11. CASE CheckClient(t)
  <2>1. pc' \in [Threads -> Labels]
    BY <1>11, GoToLabel DEF CheckClient, Moves, Labels
  <2> QED BY <1>11, <2>1 DEF CheckClient, Moves, client
<1> QED BY <1>1, <1>2, <1>3, <1>4, <1>5, <1>6, <1>7, <1>8, <1>9, <1>10, <1>11
        DEF Configure

\* aq_tick's steps, and that of the panel, move a thread and no client.
Moved(t, l) ==
    /\ GoTo(t, l)
    /\ UNCHANGED <<nvs_cfg, s_cfg, s_mqtt, s_mqtt_connected, client, panel>>

LEMMA TickMoves ==
    ASSUME Tick
    PROVE  \/ Moved("aq_tick", "drain") /\ At("main", "idle") /\ At("aq_tick", "idle")
           \/ Moved("aq_tick", "publish") /\ At("main", "idle") /\ At("aq_tick", "idle")
           \/ Moved("aq_tick", "drain") /\ pc["aq_tick"] \in {"reply", "answer"}
           \/ Moved("aq_tick", "answer") /\ At("aq_tick", "reply")
           \/ Moved("aq_tick", "idle") /\ pc["aq_tick"] \in {"drain", "publish"}
           \/ Moved("aq_tick", "reply") /\ At("aq_tick", "drain")
           \/ Moved("aq_tick", "save") /\ At("aq_tick", "drain")
BY DEF Tick, DrainBegins, DrainEnds, Dispatch, DispatchPlain, DispatchReconfigure, Pop,
       ReplyBegins, ReplySkipped, ReplySent, StateBegins, StateSent, Moves, Moved, At

LEMMA ClientTypeStep == ClientType /\ [Next]_vars => ClientType'
<1> SUFFICES ASSUME ClientType, [Next]_vars PROVE ClientType'
  OBVIOUS
<1>1. ASSUME NEW t \in Threads, Configure(t) PROVE ClientType'
  BY <1>1, ConfigureType
<1>2. ASSUME NEW t \in Threads, NEW l \in Labels, Moved(t, l) PROVE ClientType'
  <2>1. pc' \in [Threads -> Labels]
    BY <1>2, GoToLabel DEF Moved, ClientType
  <2> QED BY <1>2, <2>1 DEF Moved, ClientType, client
<1>3. CASE Tick
  BY <1>2, <1>3, TickMoves DEF Labels, Threads
<1>4. CASE MqttEvent
  <2> PICK h \in Handles : Connected(h) \/ Disconnected(h) \/ DataArrives(h)
    BY <1>4 DEF MqttEvent
  <2>1. CASE Connected(h)
    BY <2>1 DEF Connected, ClientType
  <2>2. CASE Disconnected(h)
    BY <2>2 DEF Disconnected, ClientType
  <2>3. CASE DataArrives(h)
    BY <2>3 DEF DataArrives, ClientType, client
  <2> QED BY <2>1, <2>2, <2>3
<1>5. CASE PanelSaves
  <2>1. Moved("httpd", "save")
    BY <1>5 DEF PanelSaves, Moves, Moved
  <2> QED BY <1>2, <2>1 DEF Labels, Threads
<1>6. CASE Reset
  BY <1>6, ConfigsAssumption DEF Reset, ClientType, InitPc, Labels
<1>7. CASE UNCHANGED vars
  BY <1>7 DEF vars, ClientType
<1> QED BY <1>1, <1>3, <1>4, <1>5, <1>6, <1>7 DEF Next

LEMMA HubInit == Init => QueueInv /\ ClientType
<1> SUFFICES ASSUME Init PROVE QueueInv /\ ClientType
  OBVIOUS
<1>1. QueueInv
  <2>1. s_cmd_queue = <<>> /\ arrived = 0 /\ executed = 0
    BY DEF Init
  <2>2. <<>> \in Seq(Cmds) /\ Len(<<>>) = 0 /\ Sorted(<<>>, 0, 0)
    BY DEF Sorted
  <2> QED BY <2>1, <2>2, QueueAssumption DEF QueueInv
<1>2. ClientType
  BY ConfigsAssumption, QueueAssumption DEF Init, ClientType, InitPc, Labels
<1> QED BY <1>1, <1>2

\* Every reachable state of the hub is well typed and its queue within bounds.
THEOREM HubType == Spec => []TypeOK
<1>1. QueueInv /\ ClientType => TypeOK
  BY DEF QueueInv, ClientType, TypeOK, Cmds, Labels
<1> QED BY <1>1, HubInit, QueueStep, ClientTypeStep, PTL DEF Spec

\* Commands are dispatched in the order they came, whatever the capacity.
THEOREM QueueInOrder == Spec => []CommandsInOrder
<1>1. QueueInv => CommandsInOrder
  BY DEF QueueInv, Sorted, CommandsInOrder
<1> QED BY <1>1, HubInit, QueueStep, PTL DEF Spec

-----------------------------------------------------------------------------
(* The one client, where no panel reconfigures MQTT *)

\* One thread at a time has to do with the client.
OneAtATime ==
    /\ pc["httpd"] = "idle"
    /\ pc["main"] = "idle" \/ pc["aq_tick"] = "idle"

\* What holds of the client before each step that replaces it.
Stage(l) ==
    /\ l = "halt" => s_mqtt # Null
    /\ l = "destroy" => s_mqtt # Null /\ alive = {s_mqtt} /\ started = {}
    /\ l = "clear" => alive = {}
    /\ l \in {"disconnect", "load", "init"} => s_mqtt = Null /\ alive = {}
    /\ l \in {"load", "init", "start"} => s_mqtt_connected = FALSE
    /\ l = "start" => /\ s_mqtt # Null /\ alive = {s_mqtt} /\ started = {}
                      /\ cfg_of[s_mqtt] = s_cfg

Steps == {"destroy", "clear", "disconnect", "load", "init", "start"}

\* ... and when none is being replaced.
Replaced ==
    /\ OneClient
    /\ s_mqtt_connected <=> s_mqtt \in online

HandleInv ==
    ~panel =>
      /\ OneAtATime
      /\ \A t \in Threads : Stage(pc[t])
      /\ (\A t \in Threads : pc[t] \notin Steps) => Replaced

HubInv == ClientType /\ HandleInv

\* While one thread replaces the client the others are idle.
LEMMA Alone ==
    ASSUME HubInv, ~panel, NEW t \in Threads, pc[t] # "idle"
    PROVE  t # "httpd" /\ \A u \in Threads : u # t => pc[u] = "idle"
BY DEF HubInv, HandleInv, OneAtATime, Threads

\* A thread that moves alone: what is left to show is the stage it comes to.
LEMMA AloneMoves ==
    ASSUME ClientType, ClientType', ~panel, ~panel', NEW t \in Threads, t # "httpd",
           \A u \in Threads : u # t => pc'[u] = "idle",
           Stage(pc[t])',
           (pc[t] \notin Steps)' => Replaced'
    PROVE  HandleInv'
<1>1. ASSUME NEW u \in Threads PROVE Stage(pc[u])'
  <2>1. CASE u = t
    BY <2>1
  <2>2. CASE u # t
    BY <2>2 DEF Stage
  <2> QED BY <2>1, <2>2
<1>2. OneAtATime'
  BY DEF OneAtATime, Threads
<1> QED BY <1>1, <1>2 DEF HandleInv

\* A step of set_mqtt_config, stop or start_from_nvs leads from stage to stage.
LEMMA ConfigureHandle ==
    ASSUME HubInv, ClientType', ~panel, NEW t \in Threads, Configure(t)
    PROVE  HandleInv'
<1>1. /\ pc[t] # "idle" /\ panel' = panel /\ pc \in [Threads -> Labels]
      /\ (\E l \in Labels : GoTo(t, l)) \/ Return(t)
  BY DEF Configure, SaveConfig, CheckClient, Moves, StopClient, DestroyClient,
       ClearHandle, ClearConnected, LoadConfig, InitClient, InitFails, StartClient,
       StartFails, At, HubInv, ClientType, Labels
<1>2. t # "httpd" /\ \A u \in Threads : u # t => pc[u] = "idle"
  BY <1>1, Alone
<1>3. \A u \in Threads : u # t => pc'[u] = "idle"
  BY <1>1, <1>2, GoToLabel, ReturnLabel
<1>4. Stage(pc[t]) /\ (pc[t] \notin Steps => Replaced)
  BY <1>2 DEF HubInv, HandleInv, Steps
<1> DEFINE Goal == Stage(pc[t])' /\ ((pc[t] \notin Steps)' => Replaced')
<1> USE HandlesAssumption DEF ClientType, Stage, Steps, Replaced, OneClient
<1>t. ClientType
  BY DEF HubInv
<1>5. ASSUME SaveConfig(t) PROVE Goal
  <2>1. pc'[t] \in {"stop", "reply", "idle"}
    BY <1>1, <1>5, GoToLabel, ReturnLabel DEF SaveConfig, Labels
  <2>2. Replaced /\ UNCHANGED <<s_cfg, s_mqtt, s_mqtt_connected, client>>
    BY <1>4, <1>5 DEF SaveConfig, At
  <2> QED BY <2>1, <2>2 DEF client
<1>6. ASSUME StopClient(t) PROVE Goal
  <2>1. pc'[t] = "destroy"
    BY <1>1, <1>6, GoToLabel DEF StopClient, Labels
  <2>2. /\ s_mqtt # Null /\ alive \subseteq {s_mqtt} /\ s_mqtt \in started
        /\ s_mqtt' = s_mqtt /\ alive' = alive /\ started' = started \ {s_mqtt}
    BY <1>4, <1>6 DEF StopClient, At, Halt
  <2>3. alive' = {s_mqtt'} /\ started' = {}
    BY <1>t, <2>2
  <2> QED BY <2>1, <2>2, <2>3
<1>16. ASSUME CheckClient(t) PROVE Goal
  <2>1. pc'[t] = IF s_mqtt = Null THEN "disconnect" ELSE "halt"
    BY <1>1, <1>16, GoToLabel DEF CheckClient, Moves, Labels
  <2>2. Replaced /\ UNCHANGED <<s_cfg, s_mqtt, s_mqtt_connected, client>>
    BY <1>4, <1>16 DEF CheckClient, Moves, At
  <2>3. CASE s_mqtt = Null
    <3>1. pc'[t] = "disconnect" /\ s_mqtt' = Null /\ alive' = {}
      BY <1>t, <2>1, <2>2, <2>3 DEF client
    <3> QED BY <3>1
  <2>4. CASE s_mqtt # Null
    BY <2>1, <2>2, <2>4 DEF client
  <2> QED BY <2>3, <2>4
<1>7. ASSUME DestroyClient(t) PROVE Goal
  <2>1. pc'[t] = "clear"
    BY <1>1, <1>7, GoToLabel DEF DestroyClient, Labels
  <2>2. alive' = {}
    BY <1>4, <1>7 DEF DestroyClient, At
  <2> QED BY <2>1, <2>2
<1>8. ASSUME ClearHandle(t) PROVE Goal
  <2>1. pc'[t] = "disconnect"
    BY <1>1, <1>8, GoToLabel DEF ClearHandle, Labels
  <2>2. alive' = {} /\ s_mqtt' = Null
    BY <1>4, <1>8 DEF ClearHandle, At, client
  <2> QED BY <2>1, <2>2
<1>9. ASSUME ClearConnected(t) PROVE Goal
  <2>1. pc'[t] = "load"
    BY <1>1, <1>9, GoToLabel DEF ClearConnected, Labels
  <2>2. alive' = {} /\ s_mqtt' = Null /\ s_mqtt_connected' = FALSE
    BY <1>4, <1>9 DEF ClearConnected, At, client
  <2> QED BY <2>1, <2>2
<1>10. ASSUME LoadConfig(t) PROVE Goal
  <2>1. pc'[t] \in {"init", "reply", "idle"}
    BY <1>1, <1>10, GoToLabel, ReturnLabel DEF LoadConfig, Labels
  <2>2. /\ alive' = {} /\ s_mqtt' = Null /\ s_mqtt_connected' = FALSE
        /\ online' = {}
    BY <1>t, <1>4, <1>10 DEF LoadConfig, At, client
  <2> QED BY <2>1, <2>2
<1>11. ASSUME InitClient(t) PROVE Goal
  <2>1. pc'[t] = "start"
    BY <1>1, <1>11, GoToLabel DEF InitClient, Labels
  <2>2. PICK h \in Handles \ alive :
          /\ s_mqtt' = h /\ alive' = alive \cup {h}
          /\ cfg_of' = [cfg_of EXCEPT ![h] = s_cfg]
    BY <1>11 DEF InitClient
  <2>3. /\ alive = {} /\ s_mqtt_connected' = FALSE /\ started' = started
        /\ s_cfg' = s_cfg
    BY <1>4, <1>11 DEF InitClient, At
  <2> QED BY <1>t, <2>1, <2>2, <2>3
<1>12. ASSUME InitFails(t) PROVE Goal
  <2>1. pc'[t] \in {"reply", "idle"}
    BY <1>1, <1>12, ReturnLabel DEF InitFails
  <2>2. /\ alive' = {} /\ s_mqtt' = Null /\ s_mqtt_connected' = FALSE
        /\ online' = {}
    BY <1>t, <1>4, <1>12 DEF InitFails, At, client
  <2> QED BY <2>1, <2>2
<1>13. ASSUME StartClient(t) PROVE Goal
  <2>1. pc'[t] \in {"reply", "idle"}
    BY <1>1, <1>13, ReturnLabel DEF StartClient
  <2>2. /\ alive' = {s_mqtt} /\ s_mqtt' = s_mqtt /\ s_mqtt_connected' = FALSE
        /\ online' = {} /\ started' = {s_mqtt} /\ cfg_of'[s_mqtt] = s_cfg'
    BY <1>t, <1>4, <1>13 DEF StartClient, At
  <2> QED BY <2>1, <2>2
<1>14. ASSUME StartFails(t) PROVE Goal
  <2>1. pc'[t] \in {"reply", "idle"}
    BY <1>1, <1>14, ReturnLabel DEF StartFails
  <2>2. /\ alive' = {} /\ s_mqtt' = Null /\ s_mqtt_connected' = FALSE
        /\ online' = {}
    BY <1>t, <1>4, <1>14 DEF StartFails, At, Halt
  <2> QED BY <2>1, <2>2
<1>15. Goal
  BY <1>5, <1>6, <1>7, <1>8, <1>9, <1>10, <1>11, <1>12, <1>13, <1>14, <1>16
     DEF Configure
<1> QED BY <1>t, <1>1, <1>2, <1>3, <1>15, AloneMoves

\* A thread that moves and leaves the client alone leaves it replaced.
LEMMA MovedHandle ==
    ASSUME HubInv, ClientType', ~panel, NEW t \in Threads,
           NEW l \in Labels \ (Steps \cup {"halt"}), t # "httpd", pc[t] \notin Steps,
           \A u \in Threads : u # t => pc[u] = "idle",
           Moved(t, l)
    PROVE  HandleInv'
<1>1. /\ pc'[t] = l /\ \A u \in Threads : u # t => pc'[u] = "idle"
  BY GoToLabel DEF Moved, HubInv, ClientType
<1>2. Replaced
  BY DEF HubInv, HandleInv, Steps
<1>3. UNCHANGED <<s_cfg, s_mqtt, s_mqtt_connected, online, started, alive, cfg_of>>
      /\ panel' = panel
  BY DEF Moved, client
<1>4. Replaced'
  BY <1>2, <1>3 DEF Replaced, OneClient
<1>5. Stage(pc[t])'
  BY <1>1 DEF Stage, Steps
<1> QED BY <1>1, <1>3, <1>4, <1>5, AloneMoves DEF HubInv

LEMMA HandleStep == HubInv /\ [Next]_vars => HubInv'
<1> SUFFICES ASSUME HubInv, [Next]_vars PROVE HubInv'
  OBVIOUS
<1>1. ClientType'
  BY ClientTypeStep DEF HubInv
<1>2. CASE panel
  <2>1. panel'
    BY <1>2 DEF Next, vars, Configure, SaveConfig, CheckClient, StopClient,
         DestroyClient, ClearHandle, ClearConnected, LoadConfig, InitClient, InitFails, StartClient,
         StartFails, Tick, DrainBegins, DrainEnds, Dispatch, DispatchPlain,
         DispatchReconfigure, Pop, ReplyBegins, ReplySkipped, ReplySent, StateBegins,
         StateSent, MqttEvent, Connected, Disconnected, DataArrives, PanelSaves,
         Moves, Reset
  <2> QED BY <1>1, <2>1 DEF HubInv, HandleInv
<1>3. CASE ~panel
  <2> SUFFICES HandleInv'
    BY <1>1 DEF HubInv
  <2>1. ASSUME NEW t \in Threads, Configure(t) PROVE HandleInv'
    BY <1>1, <1>3, <2>1, ConfigureHandle
  <2>2. CASE Tick
    <3>1. PICK l \in {"drain", "publish", "answer", "idle", "reply", "save"} :
            Moved("aq_tick", l) /\ pc["aq_tick"] \notin Steps
            /\ (At("main", "idle") \/ pc["aq_tick"] # "idle")
      BY <2>2, TickMoves DEF Steps, At
    <3>2. \A u \in Threads : u # "aq_tick" => pc[u] = "idle"
      BY <1>3, <3>1 DEF HubInv, HandleInv, OneAtATime, At, Threads
    <3>3. l \in Labels \ (Steps \cup {"halt"}) /\ "aq_tick" \in Threads
      BY <3>1 DEF Labels, Steps, Threads
    <3> QED BY <1>1, <1>3, <3>1, <3>2, <3>3, MovedHandle
  <2>3. CASE MqttEvent
    <3> PICK h \in Handles : Connected(h) \/ Disconnected(h) \/ DataArrives(h)
      BY <2>3 DEF MqttEvent
    <3>1. HandleInv /\ ClientType
      BY DEF HubInv
    <3>2. UNCHANGED <<s_cfg, s_mqtt, alive, started, cfg_of, pc, panel>>
      BY DEF Connected, Disconnected, DataArrives, client
    <3>3. CASE started = {}
      <4>1. UNCHANGED <<s_mqtt_connected, online>>
        BY <3>1, <3>3 DEF Connected, Disconnected, DataArrives, ClientType, client
      <4> QED BY <3>1, <3>2, <4>1
              DEF HandleInv, OneAtATime, Stage, Replaced, OneClient
    <3>4. CASE started # {}
      <4>1. \A t \in Threads : pc[t] \notin Steps
        BY <1>3, <3>1, <3>4 DEF HandleInv, Stage, Steps, ClientType
      <4>2. Replaced
        BY <1>3, <3>1, <4>1 DEF HandleInv
      <4>3. Replaced'
        BY <3>1, <3>2, <4>2 DEF Replaced, OneClient, Connected, Disconnected,
             DataArrives, ClientType, client
      <4>4. \A t \in Threads : Stage(pc[t])'
        BY <1>3, <3>1, <3>2, <4>1 DEF HandleInv, Stage, Steps
      <4> QED BY <3>1, <3>2, <4>3, <4>4 DEF HandleInv, OneAtATime
    <3> QED BY <3>3, <3>4
  <2>4. CASE PanelSaves
    BY <1>3, <2>4 DEF PanelSaves
  <2>5. CASE Reset
    BY <2>5 DEF Reset, InitPc, HandleInv, OneAtATime, Threads, Stage, Steps, Replaced,
         OneClient
  <2>6. CASE UNCHANGED vars
    BY <2>6 DEF vars, HubInv, HandleInv, OneAtATime, Stage, Replaced, OneClient
  <2> QED BY <2>1, <2>2, <2>3, <2>4, <2>5, <2>6 DEF Next
<1> QED BY <1>2, <1>3

LEMMA HandleInit == Init => HubInv
<1> SUFFICES ASSUME Init PROVE HubInv
  OBVIOUS
<1>1. ClientType
  BY HubInit
<1>2. HandleInv
  BY DEF Init, InitPc, HandleInv, OneAtATime, Threads, Stage, Steps, Replaced, OneClient
<1> QED BY <1>1, <1>2 DEF HubInv

\* Settled threads are at none of the steps, or about to stop the client.
LEMMA SettledReplaced == HubInv /\ ~panel /\ Settled => Replaced
BY DEF HubInv, HandleInv, Settled, Steps

\* Where no panel reconfigures MQTT, one client is left whenever the threads
\* are done, and it is that of the configuration loaded last.
THEOREM ClientIsReplaced == Spec => []ClientReplaced
<1>1. HubInv => ClientReplaced
  BY SettledReplaced DEF ClientReplaced, Replaced
<1> QED BY <1>1, HandleInit, HandleStep, PTL DEF Spec

\* Where no panel reconfigures MQTT, is_connected tells the truth about the
\* client in use.
THEOREM ConnectedIsHonest == Spec => []ConnectedHonest
<1>1. HubInv => ConnectedHonest
  BY SettledReplaced DEF ConnectedHonest, Replaced
<1> QED BY <1>1, HandleInit, HandleStep, PTL DEF Spec

\* Where no panel reconfigures MQTT, no thread uses a destroyed client.
THEOREM HandleIsNeverStale == Spec => []NoStaleHandle
<1>1. ASSUME HubInv, ~panel, NEW t \in Threads, pc[t] \in Uses
      PROVE  s_mqtt \in alive \cup {Null}
  <2>1. Stage(pc[t]) /\ ClientType
    BY <1>1 DEF HubInv, HandleInv
  <2>2. CASE pc[t] \in {"destroy", "start"}
    BY <2>1, <2>2 DEF Stage
  <2>3. CASE pc[t] \in {"answer", "publish", "halt"}
    <3>1. \A u \in Threads : pc[u] \notin Steps
      BY <1>1, <2>3, Alone DEF Steps
    <3> QED BY <1>1, <2>1, <3>1 DEF HubInv, HandleInv, Replaced, OneClient, ClientType
  <2> QED BY <1>1, <2>2, <2>3 DEF Uses
<1>2. HubInv => NoStaleHandle
  BY <1>1 DEF NoStaleHandle
<1> QED BY <1>2, HandleInit, HandleStep, PTL DEF Spec
=============================================================================
