----------------------------- MODULE DeviceName -----------------------------
(***************************************************************************)
(* The name of a device (relay/machine-access/main/main.cpp): the handler  *)
(* on_device_name, which takes a new name from the device's own name topic,*)
(* the name mqtt_connect publishes there, which comes back to the handler, *)
(* and the queue through which the handler answers a name it refuses.      *)
(*                                                                         *)
(* The handler runs in the MQTT client's task, or inside a publish of the  *)
(* main task that waits for its acknowledgement.  The client's lock        *)
(* `owner' is re-entrant and held while a handler runs; the queue's mutex  *)
(* is not re-entrant, and whoever finds it taken waits for ever.           *)
(*                                                                         *)
(* Every item on the queue has kind DEVICE, which mqtt_queue_send_all does *)
(* not look at: what it sends goes to other topics and nothing comes back. *)
(***************************************************************************)
EXTENDS Integers, Sequences

CONSTANTS
    Letters,       \* characters a name may have: [a-zA-Z0-9_-]
    NameSize,      \* sizeof(main_config.device_name)
    Payloads,      \* what others publish on the name topic
    Stored,        \* names that may be on flash at first
    MaxMessages,   \* bound on the messages of others
    MaxFaults      \* bound on lost messages and connections, failed stores, power losses

NUL == "NUL"
Other == "other"
Chars == Letters \cup {NUL, Other}

Text == Seq(Chars)
Name == {n \in Seq(Letters) : Len(n) < NameSize}

QueueCapacity == 2

ASSUME CharsAssumption == NUL \notin Letters /\ Other \notin Letters
ASSUME NamesAssumption ==
    NameSize \in Nat \ {0} /\ Payloads \subseteq Text /\ Stored \subseteq Name
ASSUME BoundsAssumption == MaxMessages \in Nat /\ MaxFaults \in Nat

VARIABLES
    name,       \* main_config.device_name
    stored,     \* the name in the configuration file, none if there is no file
    failed,     \* did the last config_store fail?
    queue,      \* the topics of the items in mqtt_queue
    mutex,      \* who holds mqtt_queue_mutex
    owner,      \* who holds the client's lock
    handler,    \* the running on_device_name: pc and payload
    main,       \* the main task: pc ("dead" if the device did not start),
                \* payloadlen, result, index into the queue
    connected,  \* MQTTIsConnected, and subscribed to the name topic
    inbox,      \* messages on the name topic on their way to the device
    heard,      \* last acceptable name on the topic since the device subscribed
    sent,       \* messages of others so far (bounded)
    faults      \* faults so far (bounded)

config == <<name, stored, failed>>
publish == <<queue, mutex>>
topic == <<connected, inbox, heard>>
vars == <<config, publish, owner, handler, main, topic, sent, faults>>

IdleHandler == [pc |-> "idle", payload |-> <<>>]
IdleMain == [pc |-> "poll", len |-> 0, ok |-> TRUE, i |-> 0]

Init ==
    /\ name \in Stored /\ stored = {name} /\ failed = FALSE
    /\ queue = <<>> /\ mutex = "none" /\ owner = "none"
    /\ handler = IdleHandler /\ main = IdleMain
    /\ connected = FALSE /\ inbox = <<>> /\ heard = name
    /\ sent = 0 /\ faults = 0

Fault == faults < MaxFaults /\ faults' = faults + 1

(* A message reaches the topic; the device is sent it too.                  *)
Publish(p) ==
    /\ inbox' = Append(inbox, p)
    /\ heard' = IF p \in Name THEN p ELSE heard

-----------------------------------------------------------------------------
(* on_device_name.                                                          *)

(* The client's task takes the lock to read packets; a task that waits for  *)
(* an acknowledgement has it and reads them meanwhile.                      *)
CanDispatch ==
    /\ handler.pc = "idle"
    /\ (owner = "none" /\ main.pc # "dead") \/ main.pc \in {"published", "sent"}

Start(p, pc) ==
    /\ CanDispatch
    /\ inbox # <<>> /\ Head(inbox) = p
    /\ inbox' = Tail(inbox)
    /\ handler' = [pc |-> pc, payload |-> p]
    /\ owner' = IF owner = "none" THEN "mqtt" ELSE owner
    /\ UNCHANGED <<config, publish, main, connected, heard, sent, faults>>

Return ==
    /\ handler' = IdleHandler
    /\ owner' = IF owner = "mqtt" THEN "none" ELSE owner

DeliverTooLong(p) == Len(p) >= NameSize /\ Start(p, "reject")

DeliverBadChar(p) ==
    /\ Len(p) < NameSize /\ p \notin Name
    /\ Start(p, "badchar")

(* The handler returns at once.                                             *)
Ignore(p) ==
    /\ CanDispatch
    /\ inbox # <<>> /\ Head(inbox) = p
    /\ inbox' = Tail(inbox)
    /\ UNCHANGED <<config, publish, owner, handler, main, connected, heard, sent, faults>>

(* Mutant: strncmp over the length of the payload instead of strcmp.        *)
DeliverPrefix(p) ==
    p \in Name /\ Len(p) <= Len(name) /\ p = SubSeq(name, 1, Len(p)) /\ Ignore(p)

(* The name it already has.                                                 *)
DeliverSame(p) == p = name /\ Ignore(p)

(* Mutant: characters are not looked at.                                    *)
DeliverUnchecked(p) == Len(p) < NameSize /\ p # name /\ Start(p, "copy")

DeliverNew(p) == p \in Name /\ p # name /\ Start(p, "copy")

Deliver ==
    inbox # <<>> /\ LET p == Head(inbox) IN
        DeliverTooLong(p) \/ DeliverBadChar(p) \/ DeliverSame(p) \/ DeliverNew(p)

(* Mutant: config_store before the name is copied.                          *)
CopyLast ==
    /\ handler.pc = "copy"
    /\ stored' = {name}
    /\ name' = handler.payload
    /\ Return
    /\ UNCHANGED <<failed, publish, main, topic, sent, faults>>

Copy ==
    /\ handler.pc = "copy"
    /\ name' = handler.payload
    /\ handler' = [handler EXCEPT !.pc = "store"]
    /\ UNCHANGED <<stored, failed, publish, owner, main, topic, sent, faults>>

(* config_store (see ConfigStore), whose result is not looked at: the new   *)
(* file is written, the old one removed, the new one given its name.        *)
Unlink ==
    /\ handler.pc = "store" /\ stored # {}
    /\ stored' = {}
    /\ handler' = [handler EXCEPT !.pc = "rename"]
    /\ UNCHANGED <<name, failed, publish, owner, main, topic, sent, faults>>

Rename ==
    /\ handler.pc = "rename"
    /\ stored' = {name} /\ failed' = FALSE
    /\ Return
    /\ UNCHANGED <<name, publish, main, topic, sent, faults>>

(* Mutant: an item that cannot be written is left out of the new file.      *)
StoreLeavesOut ==
    /\ handler.pc = "store" /\ stored # {} /\ Fault
    /\ stored' = {<<>>} /\ failed' = FALSE
    /\ Return
    /\ UNCHANGED <<name, publish, main, topic, sent>>

(* Something before that fails, the removal of a file that is not there in  *)
(* any case.                                                                *)
StoreFails ==
    /\ handler.pc = "store"
    /\ IF stored = {} THEN UNCHANGED faults ELSE Fault
    /\ failed' = TRUE
    /\ Return
    /\ UNCHANGED <<name, stored, publish, main, topic, sent>>

RenameFails ==
    /\ handler.pc = "rename" /\ Fault
    /\ failed' = TRUE
    /\ Return
    /\ UNCHANGED <<name, stored, publish, main, topic, sent>>

Store == Unlink \/ Rename \/ StoreFails \/ RenameFails

(* Mutant: the mutex is not given back when the queue is full.              *)
QueuePublishKeepsMutex(item) ==
    /\ mutex = "none"
    /\ IF Len(queue) < QueueCapacity THEN queue' = Append(queue, item) /\ mutex' = mutex
       ELSE queue' = queue /\ mutex' = "handler"

(* Mutant: the queue is filled without the mutex.                           *)
QueuePublishUnguarded(item) ==
    /\ queue' = IF Len(queue) < QueueCapacity THEN Append(queue, item) ELSE queue
    /\ mutex' = mutex

(* mqtt_queue_publish: takes the mutex, adds the item unless the queue is   *)
(* full, gives the mutex back.                                              *)
QueuePublish(item) ==
    /\ mutex = "none"
    /\ queue' = IF Len(queue) < QueueCapacity THEN Append(queue, item) ELSE queue
    /\ mutex' = mutex

BadChar ==
    /\ handler.pc = "badchar"
    /\ QueuePublish("error")
    /\ handler' = [handler EXCEPT !.pc = "badinput"]
    /\ UNCHANGED <<config, owner, main, topic, sent, faults>>

Reject ==
    /\ handler.pc = "reject"
    /\ QueuePublish("error")
    /\ handler' = [handler EXCEPT !.pc = "restore"]
    /\ UNCHANGED <<config, owner, main, topic, sent, faults>>

(* After a bad character `err' was never assigned: a text of any length may *)
(* be there, one that does not fit an item is not queued.                   *)
BadInput ==
    /\ handler.pc = "badinput"
    /\ mutex = "none"
    /\ QueuePublish("error") \/ UNCHANGED publish
    /\ handler' = [handler EXCEPT !.pc = "restore"]
    /\ UNCHANGED <<config, owner, main, topic, sent, faults>>

Restore ==
    /\ handler.pc = "restore"
    /\ QueuePublish("name")
    /\ Return
    /\ UNCHANGED <<config, main, topic, sent, faults>>

HandlerStep == Copy \/ Store \/ BadChar \/ Reject \/ BadInput \/ Restore

-----------------------------------------------------------------------------
(* The main task: mqtt_connect's publish of the name.                       *)

(* mqtt_connect as far as the name: the topic is subscribed.                *)
Connect ==
    /\ main.pc = "poll" /\ ~connected /\ owner = "none"
    /\ connected' = TRUE
    /\ heard' = name
    /\ main' = [main EXCEPT !.pc = "check"]
    /\ UNCHANGED <<config, publish, owner, handler, inbox, sent, faults>>

Check ==
    /\ main.pc = "check"
    /\ main' = [main EXCEPT !.pc = IF name = <<>> THEN "poll" ELSE "strlen"]
    /\ UNCHANGED <<config, publish, owner, handler, topic, sent, faults>>

(* mqtt_publish counts the characters before the client's lock is taken.    *)
(* While on_device_name copies a longer name over the terminator of the old *)
(* one, the count ends at whatever NUL is behind it.                        *)
Lengths ==
    {Len(name)} \cup
        IF handler.pc = "copy" /\ Len(handler.payload) > Len(name)
        THEN Len(name) .. NameSize - 1 ELSE {}

Strlen ==
    /\ main.pc = "strlen"
    /\ \E n \in Lengths : main' = [main EXCEPT !.pc = "publish", !.len = n]
    /\ UNCHANGED <<config, publish, owner, handler, topic, sent, faults>>

(* The first n bytes of device_name.                                        *)
Bytes(n) == [j \in 1..n |-> IF j <= Len(name) THEN name[j] ELSE NUL]

(* MQTTPublish with the lock: the payload is the name as it is now.  It is  *)
(* delivered and acknowledged, delivered only, or lost.                     *)
PublishName ==
    /\ main.pc = "publish" /\ owner = "none"
    /\ owner' = "main"
    /\ \/ connected /\ Publish(Bytes(main.len))
          /\ \/ main' = [main EXCEPT !.pc = "published", !.ok = TRUE] /\ UNCHANGED faults
             \/ main' = [main EXCEPT !.pc = "published", !.ok = FALSE] /\ Fault
       \/ /\ IF connected THEN Fault ELSE UNCHANGED faults
          /\ main' = [main EXCEPT !.pc = "published", !.ok = FALSE]
          /\ UNCHANGED <<inbox, heard>>
    /\ UNCHANGED <<config, publish, handler, connected, sent>>

Published ==
    /\ main.pc = "published" /\ handler.pc = "idle"
    /\ owner' = "none"
    /\ main' = [IdleMain EXCEPT !.pc = IF main.ok THEN "poll" ELSE "reset"]
    /\ UNCHANGED <<config, publish, handler, topic, sent, faults>>

Reset ==
    /\ main.pc = "reset" /\ owner = "none"
    /\ connected' = FALSE /\ inbox' = <<>>
    /\ main' = IdleMain
    /\ UNCHANGED <<config, publish, owner, handler, heard, sent, faults>>

-----------------------------------------------------------------------------
(* mqtt_queue_send_all.                                                     *)

Take ==
    /\ main.pc = "poll" /\ connected
    /\ mutex = "none"
    /\ mutex' = "main"
    /\ main' = [IdleMain EXCEPT !.pc = "send"]
    /\ UNCHANGED <<config, queue, owner, handler, topic, sent, faults>>

(* Publishes item i, whatever comes of it.                                  *)
SendItem ==
    /\ main.pc = "send" /\ main.i < Len(queue) /\ owner = "none"
    /\ owner' = "main"
    /\ main' = [main EXCEPT !.pc = "sent"]
    /\ UNCHANGED <<config, publish, handler, topic, sent, faults>>

Sent ==
    /\ main.pc = "sent" /\ handler.pc = "idle"
    /\ owner' = "none"
    /\ main' = [main EXCEPT !.pc = "send", !.i = main.i + 1]
    /\ UNCHANGED <<config, publish, handler, topic, sent, faults>>

SentAll ==
    /\ main.pc = "send" /\ main.i >= Len(queue)
    /\ main' = [main EXCEPT !.pc = "clear"]
    /\ UNCHANGED <<config, publish, owner, handler, topic, sent, faults>>

Clear ==
    /\ main.pc = "clear"
    /\ queue' = <<>> /\ mutex' = "none"
    /\ main' = IdleMain
    /\ UNCHANGED <<config, owner, handler, topic, sent, faults>>

MainStep ==
    \/ Connect \/ Check \/ Strlen \/ PublishName \/ Published \/ Reset
    \/ Take \/ SendItem \/ Sent \/ SentAll \/ Clear

-----------------------------------------------------------------------------
(* The environment.                                                         *)

OtherPublishes ==
    /\ connected /\ sent < MaxMessages
    /\ \E p \in Payloads : Publish(p)
    /\ sent' = sent + 1
    /\ UNCHANGED <<config, publish, owner, handler, main, connected, faults>>

ConnectionLost ==
    /\ connected /\ Fault
    /\ connected' = FALSE /\ inbox' = <<>>
    /\ UNCHANGED <<config, publish, owner, handler, main, heard, sent>>

(* Without a file config_load makes the built-in configuration, which has   *)
(* no name, and config_store fails: the device does not start.              *)
Boot ==
    /\ \/ name' \in stored /\ failed' = FALSE /\ main' = IdleMain
       \/ /\ stored = {} /\ name' = <<>> /\ failed' = TRUE
          /\ main' = [IdleMain EXCEPT !.pc = "dead"]
    /\ queue' = <<>> /\ mutex' = "none" /\ owner' = "none"
    /\ handler' = IdleHandler
    /\ connected' = FALSE /\ inbox' = <<>>
    /\ UNCHANGED <<stored, heard, sent>>

Restart == Boot /\ Fault

(* Nothing readable where the unassigned `err' points: an exception.        *)
BadInputCrash == handler.pc = "badinput" /\ Boot /\ UNCHANGED faults

Next ==
    \/ Deliver \/ HandlerStep \/ MainStep
    \/ OtherPublishes \/ ConnectionLost \/ Restart \/ BadInputCrash

(* Both tasks are scheduled, the client's task reads what has arrived, and  *)
(* every wait for an acknowledgement ends (command timeout, 3000 ms).  A     *)
(* handler that waits for the mutex gets it when the main task gives it:    *)
(* main_task then waits for its next notification, up to a second.          *)
Fairness == WF_vars(Deliver) /\ SF_vars(HandlerStep) /\ WF_vars(MainStep)

Spec == Init /\ [][Next]_vars /\ Fairness

-----------------------------------------------------------------------------
(* Properties.                                                              *)

ConfigType ==
    /\ name \in Name /\ failed \in BOOLEAN
    /\ stored \subseteq Name /\ \A m, n \in stored : m = n
    /\ handler.pc = "rename" => stored = {}

QueueType ==
    /\ queue \in Seq({"error", "name"}) /\ Len(queue) <= QueueCapacity
    /\ mutex \in {"none", "main"}
    /\ mutex = "main" <=> main.pc \in {"send", "sent", "clear"}

HandlerType ==
    /\ handler \in [pc : {"idle", "copy", "store", "rename",
                          "badchar", "badinput", "reject", "restore"},
                    payload : Text]
    /\ handler.pc = "copy" => handler.payload \in Name

MainType ==
    /\ main \in [pc : {"poll", "check", "strlen", "publish", "published", "reset",
                       "send", "sent", "clear", "dead"},
                 len : 0 .. NameSize - 1, ok : BOOLEAN, i : 0 .. QueueCapacity]
    /\ owner \in {"none", "main", "mqtt"}
    /\ owner = "main" <=> main.pc \in {"published", "sent"}
    /\ owner = "mqtt" => handler.pc # "idle"
    /\ handler.pc # "idle" => owner # "none"
    /\ main.pc = "dead" => owner = "none" /\ ~connected /\ stored = {} /\ failed

TopicType ==
    /\ connected \in BOOLEAN /\ inbox \in Seq(Text) /\ heard \in Name
    /\ ~connected => inbox = <<>>
    /\ sent \in 0..MaxMessages /\ faults \in 0..MaxFaults

(* Every variable has its type: whatever bytes arrive, a torn publish of    *)
(* the device itself included, the name is clean and fits; each lock is     *)
(* held exactly by the task that is using it.                               *)
TypeOK == ConfigType /\ QueueType /\ HandlerType /\ MainType /\ TopicType

(* Whatever the interleaving of others' messages, the device's own publish  *)
(* on connecting and its echo (main.cpp:246-255, 404-409): when nothing is  *)
(* on its way, the device goes by the last acceptable name on its topic,    *)
(* so what a subscriber has seen is what the device is called.              *)
FollowsTopic ==
    connected /\ inbox = <<>> /\ handler.pc # "copy" => name = heard

(* The file holds the name the device goes by, except while a new one is    *)
(* being stored and after a config_store that failed, whose result is       *)
(* ignored (main.cpp:259): the same name sent again does not repair it.     *)
StoredUnlessFailed ==
    handler.pc \notin {"store", "rename"} /\ ~failed => stored = {name}

(* No item leaves the queue before mqtt_queue_send_all has tried to publish *)
(* it, although it forgets them all at once and handlers add items at any   *)
(* time (main.cpp:594-598).  What a publish returns is not looked at.       *)
NothingQueuedIsLost ==
    [][queue # <<>> /\ queue' = <<>> => main.i = Len(queue) \/ Boot]_vars

(* What ConfigService speaks of: the name is all of the configuration that  *)
(* changes here.                                                            *)
View(n) == [wifi |-> "wifi", name |-> n]

(* Between the removal of the old file and the renaming of the new one the  *)
(* name is kept in the new one, which a restart does not look for.          *)
Service == INSTANCE ConfigService WITH
    Default <- View(<<>>),
    kept <- IF handler.pc = "rename" THEN {View(name)} ELSE {View(n) : n \in stored},
    running <- IF main.pc = "dead" THEN {} ELSE {View(name)},
    storing <- handler.pc \in {"store", "rename"}

(* Taking a new name is what ConfigStore's files carry out: whatever the    *)
(* two tasks do meanwhile, a handler puts one new name in use, then stores  *)
(* that one or fails.  A restart comes back with the name last stored, but  *)
(* for one moment: from the removal of the old file until the new one has   *)
(* its name, a failure or a restart loses both, and the device then stores  *)
(* no name and does not start again (main.cpp:123-131, 248-261, 687).       *)
ServiceSpec == Service!Spec

(* A handler waits for the queue's mutex, and its holder for that handler:  *)
(* for the client's lock, or, further up its own stack, for the handler to  *)
(* return.                                                                  *)
Stuck ==
    /\ handler.pc \in {"badchar", "badinput", "reject", "restore"}
    /\ mutex = "main"
    /\ \/ main.pc = "sent"
       \/ main.pc = "send" /\ main.i < Len(queue)

(* Both tasks keep coming back to rest with every lock free, unless they    *)
(* got stuck in that one way or the device has lost its file and does not   *)
(* start: a full queue, a lost acknowledgement or a refused name on its own *)
(* blocks nothing.                                                          *)
OnlyMutexBlocks ==
    []<>(Stuck \/ (main.pc \in {"poll", "dead"} /\ owner = "none" /\ mutex = "none"))

(* README.md:69: "A lock can be controlled by sending a message".  All of   *)
(* the device's topics are served by the one client: again and again it can *)
(* dispatch a message.                                                      *)
Controllable == []<>CanDispatch
=============================================================================
