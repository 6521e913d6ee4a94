----------------------------- MODULE LegacyRelay ----------------------------
(***************************************************************************)
(* The older Arduino relay (relay/mqtt/common.h): setup() connects and     *)
(* subscribes once, and ignores what comes of it; loop() calls the MQTT    *)
(* client, whose callback switches the relay and reports it.  A device     *)
(* that lost its connection stays as it is until it is restarted.          *)
(***************************************************************************)
EXTENDS PubSubClient

(* mqtt_topic_lock and mqtt_topic_unlock.                                   *)
ASSUME TopicsAssumption == Topics = {"lock", "unlock"}

VARIABLES
    pc,         \* where setup() is, or "loop"
    locked,     \* the_machine_is_locked
    relay,      \* the level of relay_pin
    published   \* last is_locked of this boot that reached the broker

machine == <<locked, relay, published>>
vars == <<client, pc, machine>>

Init ==
    /\ ClientInit
    /\ pc = "connect"
    /\ locked = FALSE /\ relay = "off"
    /\ published = "none"

-----------------------------------------------------------------------------
(* setup().                                                                 *)

Connect ==
    /\ pc = "connect"
    /\ \/ ConnectFails /\ pc' = "lock"
       \/ ConnectSends /\ pc' = "connecting"
    /\ UNCHANGED machine

ConnectReturns ==
    /\ pc = "connecting"
    /\ ConnectAccepted \/ ConnectRefused \/ ConnectTimeout \/ ConnectGivesUp
    /\ pc' = "lock"
    /\ UNCHANGED machine

ConnectStalls ==
    /\ pc = "connecting" /\ ConnectWaits
    /\ UNCHANGED <<pc, machine>>

SubscribeNext ==
    /\ \/ pc = "lock" /\ Subscribe("lock") /\ pc' = "unlock"
       \/ pc = "unlock" /\ Subscribe("unlock") /\ pc' = "loop"
    /\ UNCHANGED machine

-----------------------------------------------------------------------------
(* loop() and mqtt_callback.                                                *)

KeepAliveStep == LoopNotConnected \/ LoopTimeout \/ LoopPing \/ LoopNotDue

ReadStep ==
    ReadNothing \/ ReadTooLong \/ ReadSuback \/ ReadPingresp \/ ReadWaits \/ ReadGivesUp

Loop ==
    /\ pc = "loop"
    /\ KeepAliveStep \/ ReadStep
    /\ UNCHANGED <<pc, machine>>

(* Mutant: the relay is not switched.                                       *)
CallbackOnlyReports(topic) ==
    /\ locked' = (topic = "lock")
    /\ published' = IF path THEN IF locked' THEN "true" ELSE "false" ELSE published
    /\ UNCHANGED relay

Callback(topic) ==
    /\ locked' = (topic = "lock")
    /\ relay' = IF locked' THEN "off" ELSE "on"
    /\ published' = IF path THEN IF locked' THEN "true" ELSE "false" ELSE published

HandleMessage ==
    /\ pc = "loop"
    /\ \E topic \in Topics : ReadPublish(topic) /\ Callback(topic)
    /\ UNCHANGED pc

Restart ==
    /\ pc = "loop" /\ call = "none"
    /\ now' = 0
    /\ state' = "disconnected"
    /\ lastIn' = 0 /\ lastOut' = 0 /\ pingOutstanding' = FALSE
    /\ call' = "none" /\ t' = 0 /\ since' = 0 /\ polled' = FALSE
    /\ Close
    /\ pc' = "connect"
    /\ locked' = FALSE /\ relay' = "off" /\ published' = "none"

Next ==
    \/ Connect \/ ConnectStalls \/ ConnectReturns \/ SubscribeNext
    \/ Loop \/ HandleMessage
    \/ Environment /\ UNCHANGED <<pc, machine>>
    \/ Restart

Spec == Init /\ [][Next]_vars

-----------------------------------------------------------------------------
(* Properties.                                                              *)

(* Every variable has its type, and an open socket outside connect() is one *)
(* whose CONNECT was accepted.                                              *)
TypeOK ==
    /\ ClientType
    /\ pc \in {"connect", "connecting", "lock", "unlock", "loop"}
    /\ pc = "connecting" <=> call \in {"connack", "answer"}
    /\ locked \in BOOLEAN /\ relay \in {"on", "off"}
    /\ published \in {"none", "true", "false"}

(* That setup() ignores the results of connect() and of both subscribe()    *)
(* calls (common.h:106-109) does no harm of its own: a device in loop()     *)
(* whose connection works gets both kinds of commands.                      *)
ListensIfConnected == pc = "loop" /\ path => subs = Topics

(* What a subscriber was last told of this device since it started is the   *)
(* state of its relay, as long as its connection works; the flag it is      *)
(* computed from and the relay begin by disagreeing (common.h:34, 75).      *)
ReportIsTrue ==
    path /\ published # "none" => (published = "true" <=> relay = "off")
=============================================================================
