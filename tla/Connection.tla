----------------------------- MODULE Connection -----------------------------
(***************************************************************************)
(* How a device gets on line and stays there                               *)
(* (relay/machine-access/main/main.cpp): the Wi-Fi event callback, the     *)
(* notification bits it sets for the main task, main_task's loop,          *)
(* mqtt_connect and mqtt_reset, and what the broker makes of it: the       *)
(* session, its last will and the device's "online" topic.                 *)
(*                                                                         *)
(* Three parties run: the SDK's event task, the main task, and the network *)
(* with the broker behind it.  The SDK, the MQTT client and the broker are *)
(* external.  A wireless link is idle until wifi_station_connect is called,*)
(* then it joins or the attempt fails; each change is reported by an event *)
(* whose callback runs later.  The broker keeps one session per client:    *)
(* a new CONNECT ends an open one, and any end but a DISCONNECT packet     *)
(* publishes the session's will.                                           *)
(***************************************************************************)
EXTENDS Integers, Sequences

CONSTANT MaxFaults   \* bound on failures of the radio, network, heap and power

ASSUME BoundsAssumption == MaxFaults \in Nat

(* What mqtt_connect does once MQTTConnect has succeeded and the client's   *)
(* task is started.  "locks" is app_on_mqtt_connected (see LockController). *)
Setup == <<"subscribe name", "subscribe command", "online", "info", "name", "locks">>

VARIABLES
    wifi,       \* the station: idle, joining an access point, or up
    events,     \* Wi-Fi events whose callback has not run
    bits,       \* notification bits pending for the main task
    taken,      \* notification_value
    pc,         \* where user_init, then the main task, is
    step,       \* the steps of Setup done by the running mqtt_connect
    named,      \* main_config.device_name is not empty
    connected,  \* MQTTIsConnected
    path,       \* does the socket's TCP connection still work?
    old,        \* did the link change after the socket was opened?
    session,    \* has the broker a session for this device?
    served,     \* steps of Setup that reached the broker in this session
    seen,       \* last value published on "online"
    retained,   \* what a new subscriber to "online" is sent
    faults      \* failures so far (bounded)

radio == <<wifi, events, bits>>
client == <<connected, path, old>>
broker == <<session, served, seen, retained>>
vars == <<radio, taken, pc, step, named, client, broker, faults>>

Started == pc \notin {"boot", "create"}      \* main_task_handle is set
Works == wifi = "up" /\ path

Init ==
    /\ wifi = "idle" /\ events = <<>> /\ bits = {}
    /\ taken = {} /\ pc = "boot" /\ step = 0
    /\ named \in BOOLEAN
    /\ connected = FALSE /\ path = FALSE /\ old = FALSE
    /\ session = FALSE /\ served = {}
    /\ seen = "none" /\ retained = "none"
    /\ faults = 0

Fault == faults < MaxFaults /\ faults' = faults + 1

-----------------------------------------------------------------------------
(* The radio and wifi_event_handler_cb.                                     *)

GotIp ==
    /\ wifi = "joining"
    /\ wifi' = "up"
    /\ events' = Append(events, "GOT_IP")
    /\ UNCHANGED <<bits, taken, pc, step, named, client, broker, faults>>

(* The link goes, or an attempt to join fails.  A TCP connection over it    *)
(* may survive until the device is back.                                    *)
Disconnected ==
    /\ wifi # "idle"
    /\ Fault
    /\ wifi' = "idle"
    /\ events' = Append(events, "DISCONNECTED")
    /\ path' \in {path, FALSE}
    /\ old' = TRUE
    /\ UNCHANGED <<bits, taken, pc, step, named, connected, broker>>

(* Mutant: the callback does not join again.                                *)
CallbackGivesUp ==
    /\ events # <<>>
    /\ events' = Tail(events)
    /\ bits' = IF ~Started THEN bits
               ELSE bits \cup {IF Head(events) = "GOT_IP" THEN "GOT_IP" ELSE "LOST_IP"}
    /\ UNCHANGED <<wifi, taken, pc, step, named, client, broker, faults>>

(* Events that come before the main task is created notify nobody.          *)
Callback ==
    /\ events # <<>>
    /\ events' = Tail(events)
    /\ bits' = IF ~Started THEN bits
               ELSE bits \cup {IF Head(events) = "GOT_IP" THEN "GOT_IP" ELSE "LOST_IP"}
    /\ wifi' = IF Head(events) = "DISCONNECTED" /\ wifi = "idle" THEN "joining" ELSE wifi
    /\ UNCHANGED <<taken, pc, step, named, client, broker, faults>>

-----------------------------------------------------------------------------
(* The broker (external).                                                   *)

EndSession ==
    /\ session' = FALSE
    /\ seen' = "0" /\ retained' = "0"

(* The keep-alive of a session whose device is not heard of any more runs   *)
(* out, and the broker closes its side of the connection.                   *)
BrokerNotices ==
    /\ session /\ ~(connected /\ Works)
    /\ EndSession
    /\ path' = FALSE
    /\ UNCHANGED <<radio, taken, pc, step, named, connected, old, served, faults>>

(* The MQTT client misses an answer to its ping.                            *)
ClientNotices ==
    /\ connected /\ ~Works
    /\ connected' = FALSE
    /\ UNCHANGED <<radio, taken, pc, step, named, path, old, broker, faults>>

ConnectionLost ==
    /\ path /\ Fault
    /\ path' = FALSE
    /\ UNCHANGED <<radio, taken, pc, step, named, connected, old, broker>>

-----------------------------------------------------------------------------
(* user_init and main_task.                                                 *)

SetStationMode ==
    /\ pc = "boot"
    /\ wifi' = "joining"
    /\ pc' = "create"
    /\ UNCHANGED <<events, bits, taken, step, named, client, broker, faults>>

CreateTask ==
    /\ pc = "create"
    /\ pc' = "wait"
    /\ UNCHANGED <<radio, taken, step, named, client, broker, faults>>

(* xTaskNotifyWait returns with the bits set, or with none after a second.  *)
Wait ==
    /\ pc = "wait"
    /\ taken' = bits /\ bits' = {}
    /\ pc' = "handle"
    /\ UNCHANGED <<wifi, events, step, named, client, broker, faults>>

(* mqtt_reset: a connected client sends DISCONNECT, which may be lost.  The *)
(* client is disconnected in any case.                                      *)
Reset ==
    /\ connected' = FALSE
    /\ \/ connected /\ Works /\ session' = FALSE /\ UNCHANGED faults
       \/ connected /\ Works /\ Fault /\ UNCHANGED session
       \/ ~(connected /\ Works) /\ UNCHANGED <<session, faults>>
    /\ UNCHANGED <<path, old, served, seen, retained>>

(* Mutant: only GOT_IP resets the connection.                               *)
HandleGotIpOnly ==
    /\ pc = "handle"
    /\ pc' = "poll"
    /\ IF "GOT_IP" \in taken THEN Reset ELSE UNCHANGED <<client, broker, faults>>
    /\ UNCHANGED <<radio, taken, step, named>>

(* on_got_ip and the branch for LOST_IP do the same, once or twice.         *)
Handle ==
    /\ pc = "handle"
    /\ pc' = "poll"
    /\ IF taken # {} THEN Reset ELSE UNCHANGED <<client, broker, faults>>
    /\ UNCHANGED <<radio, taken, step, named>>

(* Mutant: the loop does not ask whether it is connected.                   *)
PollDialsAlways ==
    /\ pc = "poll"
    /\ pc' = IF wifi = "up" THEN "dial" ELSE "wait"
    /\ UNCHANGED <<radio, taken, step, named, client, broker, faults>>

(* A connected device sends what is queued (not here) and waits again; one  *)
(* that is not tries to connect if it has an address.                       *)
Poll ==
    /\ pc = "poll"
    /\ pc' = IF ~connected /\ wifi = "up" THEN "dial" ELSE "wait"
    /\ UNCHANGED <<radio, taken, step, named, client, broker, faults>>

(* NetworkConnect opens a new socket.                                       *)
Dial ==
    /\ pc = "dial"
    /\ \/ /\ wifi = "up"
          /\ path' = TRUE /\ old' = FALSE
          /\ pc' = "connect"
          /\ UNCHANGED faults
       \/ /\ IF wifi = "up" THEN Fault ELSE UNCHANGED faults
          /\ pc' = "failed"
          /\ UNCHANGED <<path, old>>
    /\ UNCHANGED <<radio, taken, step, named, connected, broker>>

(* A request on the connection is carried out and acknowledged, carried out *)
(* while the acknowledgement is lost, or lost.                              *)
Outcome == {o \in [delivered: BOOLEAN, ok: BOOLEAN] : o.ok => o.delivered}

Request(o) ==
    /\ o.delivered => Works
    /\ IF Works /\ ~o.ok THEN Fault ELSE UNCHANGED faults

(* MQTTConnect.  A session that was still open ends first.                  *)
Connect ==
    /\ pc = "connect"
    /\ \E o \in Outcome :
          /\ Request(o)
          /\ connected' = o.ok
          /\ pc' = IF o.ok THEN "task" ELSE "failed"
          /\ IF o.delivered
             THEN /\ session' = TRUE /\ served' = {}
                  /\ seen' = IF session THEN "0" ELSE seen
                  /\ retained' = IF session THEN "0" ELSE retained
             ELSE UNCHANGED broker
    /\ UNCHANGED <<radio, taken, step, named, path, old>>

StartTask ==
    /\ pc = "task"
    /\ step' = 0
    /\ \/ pc' = "setup" /\ UNCHANGED faults
       \/ pc' = "failed" /\ Fault
    /\ UNCHANGED <<radio, taken, named, client, broker>>

(* One call of mqtt_connect after another; the name is published only if    *)
(* there is one.  Nothing is published with the retain flag.                *)
SetupEffect(s, o) ==
    /\ o.delivered => connected
    /\ IF connected THEN Request(o) ELSE UNCHANGED faults
    /\ served' = IF o.delivered THEN served \cup {s} ELSE served
    /\ seen' = IF o.delivered /\ s = "online" THEN "1" ELSE seen
    /\ UNCHANGED <<session, retained>>

AfterStep == IF step + 1 = Len(Setup) THEN "wait" ELSE "setup"

(* Mutant: a step's result is not looked at.                                *)
SetupIgnoresFailure ==
    /\ pc = "setup" /\ (Setup[step + 1] = "name" => named)
    /\ \E o \in Outcome : SetupEffect(Setup[step + 1], o)
    /\ pc' = AfterStep /\ step' = step + 1
    /\ UNCHANGED <<radio, taken, named, client>>

SetupStep ==
    /\ pc = "setup" /\ (Setup[step + 1] = "name" => named)
    /\ \E o \in Outcome :
          /\ SetupEffect(Setup[step + 1], o)
          /\ pc' = IF o.ok THEN AfterStep ELSE "failed"
    /\ step' = step + 1
    /\ UNCHANGED <<radio, taken, named, client>>

SkipName ==
    /\ pc = "setup" /\ Setup[step + 1] = "name" /\ ~named
    /\ step' = step + 1
    /\ UNCHANGED <<radio, taken, pc, named, client, broker, faults>>

Failed ==
    /\ pc = "failed"
    /\ Reset
    /\ pc' = "wait"
    /\ UNCHANGED <<radio, taken, step, named>>

MainStep ==
    \/ SetStationMode \/ CreateTask \/ Wait \/ Handle \/ Poll
    \/ Dial \/ Connect \/ StartTask \/ SetupStep \/ SkipName \/ Failed

(* Power loss or a failed assertion elsewhere; the broker is not told.      *)
Restart ==
    /\ Started /\ Fault
    /\ wifi' = "idle" /\ events' = <<>> /\ bits' = {}
    /\ taken' = {} /\ pc' = "boot" /\ step' = 0
    /\ connected' = FALSE /\ path' = FALSE /\ old' = FALSE
    /\ UNCHANGED <<named, broker>>

Next ==
    \/ GotIp \/ Disconnected \/ Callback
    \/ BrokerNotices \/ ClientNotices \/ ConnectionLost
    \/ MainStep
    \/ Restart

(* Both of the device's tasks are scheduled, an attempt to join an access   *)
(* point ends, and the client's keep-alive (15 s) finds a dead connection.  *)
Fairness ==
    /\ WF_vars(GotIp) /\ WF_vars(Callback)
    /\ WF_vars(MainStep) /\ WF_vars(ClientNotices)

Spec == Init /\ [][Next]_vars /\ Fairness

-----------------------------------------------------------------------------
(* Properties.                                                              *)

RadioType ==
    /\ wifi \in {"idle", "joining", "up"}
    /\ events \in {<<>>, <<"GOT_IP">>, <<"DISCONNECTED">>, <<"GOT_IP", "DISCONNECTED">>}
    /\ bits \subseteq {"GOT_IP", "LOST_IP"}

MainType ==
    /\ taken \subseteq {"GOT_IP", "LOST_IP"}
    /\ pc \in {"boot", "create", "wait", "handle", "poll", "dial", "connect",
               "task", "setup", "failed"}
    /\ step \in 0..Len(Setup)
    /\ pc = "setup" => step < Len(Setup)
    /\ named \in BOOLEAN
    /\ faults \in 0..MaxFaults

ClientType ==
    /\ connected \in BOOLEAN /\ path \in BOOLEAN /\ old \in BOOLEAN
    /\ pc \in {"boot", "create", "dial", "connect"} => ~connected

BrokerType ==
    /\ session \in BOOLEAN
    /\ served \subseteq {Setup[i] : i \in 1..Len(Setup)}
    /\ seen \in {"none", "0", "1"} /\ retained \in {"none", "0", "1"}

(* Every variable has its type, at most two Wi-Fi events wait for their     *)
(* callback, and main_task dials only with a client that is not connected.  *)
TypeOK == RadioType /\ MainType /\ ClientType /\ BrokerType

(* main_task is back in its loop and holds its connection for good.         *)
Kept == connected /\ pc \in {"wait", "handle", "poll"}

(* A connection that was made before the link last changed is never kept    *)
(* for good, though its socket may look alive: the event, the bit it sets   *)
(* or the bit taken from xTaskNotifyWait is still on its way to mqtt_reset, *)
(* whatever the main task was doing when the event came                     *)
(* (main.cpp:203-212, 614-621).                                             *)
OldConnectionIsReset ==
    connected /\ old =>
        \/ events # <<>> \/ bits # {}
        \/ pc = "handle" /\ taken # {}

(* A connection main_task keeps and that works has a session at the broker  *)
(* in which every subscription and message of mqtt_connect arrived, and the *)
(* last word on "online" is "1": the will of no earlier session came after  *)
(* it (main.cpp:363-411).                                                   *)
KeptIsServed ==
    Kept /\ Works =>
        /\ session /\ seen = "1"
        /\ \A i \in 1..Len(Setup) :
              Setup[i] \in served \/ (Setup[i] = "name" /\ ~named)

(* Once failures stop, the device gets on line and stays there, wherever    *)
(* the last one hit: bits set while the main task connects, events before   *)
(* the task exists, a half-done mqtt_connect.                               *)
StaysOnline == <>[](Kept /\ Works)

(* README.md:27: online status is published to `online', "1" or "0", with   *)
(* the last will.  Who subscribes while the device is on line is not told   *)
(* that it is not.                                                          *)
OnlineIsNotDenied == Kept /\ Works => retained # "0"
=============================================================================
