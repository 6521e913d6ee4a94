--------------------------- MODULE LockController ---------------------------
(***************************************************************************)
(* The locks of one device (relay/machine-access/main/app.cpp): the state  *)
(* of each lock and of its output pin, the MQTT command handlers that      *)
(* change them, and the subscribe-and-refresh sequence the main task runs  *)
(* when it has connected.                                                  *)
(*                                                                         *)
(* Two tasks share the MQTT client: the client's own task, which calls the *)
(* handlers, and the main task.  The client (Eclipse Paho, not part of the *)
(* repository) serialises them with a re-entrant lock, `owner'.  Whoever   *)
(* holds it and waits for an acknowledgement keeps reading packets, so a   *)
(* message that arrives meanwhile is handled inside that wait.  `calls' is *)
(* the stack of handlers that are running; MaxDepth bounds it, and         *)
(* MaxDepth = 1 is a client that never enters a handler from a handler.    *)
(***************************************************************************)
EXTENDS Integers, Sequences

CONSTANTS
    LockCount,     \* CONFIG_MAIN_MA_LOCK_COUNT
    Messages,      \* payloads that may arrive, as sequences of Items
    MaxDepth,      \* bound on nested handlers
    MaxMessages,   \* bound on messages that arrive
    MaxFaults      \* bound on lost publishes, lost connections and restarts

Lock == 0 .. LockCount - 1
App == LockCount                \* the handler of the device's command topic
Handler == 0 .. LockCount       \* handler i < LockCount is on_lock_command_<i>

(* A payload as the parser reads it: a sequence of key-value pairs.  An     *)
(* "overlong" pair is one whose key or value does not fit its buffer.       *)
Items == {"lock", "unlock", "refresh", "badcommand",
          "request", "longrequest", "otherkey", "overlong"}

ASSUME LockCountAssumption == LockCount \in 1..4
ASSUME MessagesAssumption == Messages \subseteq Seq(Items)
ASSUME BoundsAssumption ==
    /\ MaxDepth \in Nat \ {0}
    /\ MaxMessages \in Nat
    /\ MaxFaults \in Nat

VARIABLES
    locked,      \* locks[i].locked
    pin,         \* level of the GPIO pin that drives lock i
    command,     \* command.type: ONE static object shared by every handler
    calls,       \* handlers running, the innermost last
    main,        \* where the main task is in connecting
    owner,       \* who holds the client's lock
    connected,   \* MQTTIsConnected
    subscribed,  \* handlers the broker's messages reach
    status,      \* last value of <i>/locked that reached the broker
    reported,    \* locks whose status reached the broker on this connection
    delivered,   \* messages delivered so far (bounded)
    faults       \* faults so far (bounded)

device == <<locked, pin, command>>
link == <<connected, subscribed>>
broker == <<status, reported>>
vars == <<device, calls, main, owner, link, broker, delivered, faults>>

CommandType == {"UNKNOWN", "LOCK", "UNLOCK", "REFRESH"}

(* A running handler: its topic, the payload as sent and as it now stands   *)
(* in the receive buffer, how far it is parsed, and where the handler is.   *)
Call == [h: Handler, msg: Messages, buf: Messages, pos: Nat,
         pc: {"parse", "error", "refresh", "refreshing", "last"},
         idx: Lock, ok: BOOLEAN]

MainState ==
    [pc: {"poll", "subscribe", "subscribing", "read", "send", "sending", "reset"},
     idx: Lock, val: BOOLEAN, ok: BOOLEAN]

Top == calls[Len(calls)]

InitialMain == [pc |-> "poll", idx |-> 0, val |-> TRUE, ok |-> TRUE]

Init ==
    /\ locked = [l \in Lock |-> TRUE]
    /\ pin = [l \in Lock |-> TRUE]
    /\ command = "UNKNOWN"
    /\ calls = <<>>
    /\ main = InitialMain
    /\ owner = "none"
    /\ connected = FALSE
    /\ subscribed = {}
    /\ status = [l \in Lock |-> "none"]
    /\ reported = {}
    /\ delivered = 0
    /\ faults = 0

-----------------------------------------------------------------------------
(* Publishing (external client).  A publish is delivered and acknowledged,  *)
(* delivered while its acknowledgement is lost, or lost; on a closed        *)
(* connection it can only be lost.                                          *)

Outcome == {o \in [delivered: BOOLEAN, ok: BOOLEAN] : o.ok => o.delivered}

Send(o) ==
    /\ o.delivered => connected
    /\ faults' = IF connected /\ ~o.ok THEN faults + 1 ELSE faults
    /\ faults' <= MaxFaults

PublishStatus(l, state, o) ==
    /\ Send(o)
    /\ status' = IF o.delivered THEN [status EXCEPT ![l] = IF state THEN "1" ELSE "0"]
                 ELSE status
    /\ reported' = IF o.delivered THEN reported \cup {l} ELSE reported

PublishError(o) == Send(o) /\ UNCHANGED broker

-----------------------------------------------------------------------------
(* The handlers: app_on_command and on_lock_command_<i>.                    *)

(* Which pairs app_on_command_on_item and on_lock_command_on_item take.  A  *)
(* "request" pair is refused whether it fits (the size test is the wrong    *)
(* way round) or not (it falls through to "Unknown key").                   *)
Accepts(h, item) == item \in {"lock", "unlock"} \/ (item = "refresh" /\ h = App)

TypeOf(item) == CASE item = "lock" -> "LOCK"
                  [] item = "unlock" -> "UNLOCK"
                  [] OTHER -> "REFRESH"

CanDispatch ==
    IF calls = <<>>
    THEN owner = "none" \/ main.pc \in {"subscribing", "sending"}
    ELSE Len(calls) < MaxDepth /\ Top.pc \in {"error", "refreshing", "last"}

(* A message arrives and its handler starts.  There is one receive buffer,  *)
(* so handlers that are waiting find other bytes where theirs were.         *)
Dispatch(h, m) ==
    /\ delivered < MaxMessages
    /\ connected
    /\ h \in subscribed
    /\ CanDispatch
    /\ \E b \in Messages :
          calls' = Append([i \in 1..Len(calls) |-> [calls[i] EXCEPT !.buf = b]],
                          [h |-> h, msg |-> m, buf |-> m, pos |-> 0,
                           pc |-> "parse", idx |-> 0, ok |-> TRUE])
    /\ owner' = IF owner = "none" THEN "mqtt" ELSE owner
    /\ delivered' = delivered + 1
    /\ UNCHANGED <<locked, pin, main, link, broker, faults>>

(* Mutant: the handler does not reset the command it parses into.           *)
DeliverKeepsCommand(h, m) == Dispatch(h, m) /\ UNCHANGED command

Deliver(h, m) == Dispatch(h, m) /\ command' = "UNKNOWN"

SetTop(c) == calls' = [calls EXCEPT ![Len(calls)] = c]
GoTo(pc) == SetTop([Top EXCEPT !.pc = pc])

(* Mutant: the client's task does not give its lock back.                   *)
ReturnKeepsOwner ==
    /\ calls' = SubSeq(calls, 1, Len(calls) - 1)
    /\ UNCHANGED owner

Return ==
    /\ calls' = SubSeq(calls, 1, Len(calls) - 1)
    /\ owner' = IF Len(calls) = 1 /\ owner = "mqtt" THEN "none" ELSE owner

InHandler(pc) == calls # <<>> /\ Top.pc = pc

HasItem == Top.pos < Len(Top.buf)
Item == Top.buf[Top.pos + 1]

AcceptItem ==
    /\ InHandler("parse") /\ HasItem
    /\ Item # "overlong" /\ Accepts(Top.h, Item)
    /\ command' = TypeOf(Item)
    /\ SetTop([Top EXCEPT !.pos = Top.pos + 1])
    /\ UNCHANGED <<locked, pin, main, owner, link, broker, delivered, faults>>

(* A pair that is refused: an error is published and parsing goes on.       *)
RefuseItem ==
    /\ InHandler("parse") /\ HasItem
    /\ Item # "overlong" /\ ~Accepts(Top.h, Item)
    /\ \E o \in Outcome : PublishError(o)
    /\ SetTop([Top EXCEPT !.pos = Top.pos + 1, !.pc = "error"])
    /\ UNCHANGED <<device, main, owner, link, delivered>>

ErrorReturn ==
    /\ InHandler("error")
    /\ GoTo("parse")
    /\ UNCHANGED <<device, main, owner, link, broker, delivered, faults>>

(* Mutant: the handler goes on after kv_parser_add failed.                  *)
ParseFailGoesOn ==
    /\ InHandler("parse") /\ HasItem
    /\ Item = "overlong"
    /\ SetTop([Top EXCEPT !.pos = Len(Top.buf)])
    /\ UNCHANGED <<device, main, owner, link, broker, delivered, faults>>

(* The parser fails: the handler gives up, whatever it accepted before.     *)
ParseFail ==
    /\ InHandler("parse") /\ HasItem
    /\ Item = "overlong"
    /\ Return
    /\ UNCHANGED <<device, main, link, broker, delivered, faults>>

Parsed == InHandler("parse") /\ ~HasItem

NoCommand ==
    /\ Parsed
    /\ command = "UNKNOWN"
    /\ Return
    /\ UNCHANGED <<device, main, link, broker, delivered, faults>>

(* command_lock, then back through the handler.  A lock that already is in  *)
(* the state asked for keeps its pin as it is, and reports all the same.    *)
CommandLock(l, state) ==
    /\ IF locked[l] = state THEN UNCHANGED <<locked, pin>>
       ELSE /\ locked' = [locked EXCEPT ![l] = state]
            /\ pin' = [pin EXCEPT ![l] = state]
    /\ \E o \in Outcome : PublishStatus(l, state, o)

ExecuteLock ==
    /\ Parsed
    /\ Top.h \in Lock
    /\ command \in {"LOCK", "UNLOCK"}
    /\ CommandLock(Top.h, command = "LOCK")
    /\ GoTo("last")
    /\ UNCHANGED <<command, main, owner, link, delivered>>

ExecuteRefresh ==
    /\ Parsed
    /\ Top.h = App
    /\ command = "REFRESH"
    /\ SetTop([Top EXCEPT !.pc = "refresh", !.idx = 0])
    /\ UNCHANGED <<device, main, owner, link, broker, delivered, faults>>

(* The other topic's commands: lock and unlock here, refresh there.         *)
UnknownCommand ==
    /\ Parsed
    /\ command \in (IF Top.h = App THEN {"LOCK", "UNLOCK"} ELSE {"REFRESH"})
    /\ \E o \in Outcome : PublishError(o)
    /\ GoTo("last")
    /\ UNCHANGED <<device, main, owner, link, delivered>>

LastReturn ==
    /\ InHandler("last")
    /\ Return
    /\ UNCHANGED <<device, main, link, broker, delivered, faults>>

(* command_refresh, in the handler: it holds the client's lock, so the      *)
(* state it reads is still the state when it is sent.                       *)
RefreshSend ==
    /\ InHandler("refresh")
    /\ \E o \in Outcome :
          /\ PublishStatus(Top.idx, locked[Top.idx], o)
          /\ SetTop([Top EXCEPT !.pc = "refreshing", !.ok = o.ok])
    /\ UNCHANGED <<device, main, owner, link, delivered>>

RefreshNext ==
    /\ InHandler("refreshing")
    /\ Top.ok /\ Top.idx + 1 < LockCount
    /\ SetTop([Top EXCEPT !.pc = "refresh", !.idx = Top.idx + 1])
    /\ UNCHANGED <<device, main, owner, link, broker, delivered, faults>>

RefreshDone ==
    /\ InHandler("refreshing")
    /\ ~(Top.ok /\ Top.idx + 1 < LockCount)
    /\ Return
    /\ UNCHANGED <<device, main, link, broker, delivered, faults>>

HandlerStep ==
    \/ AcceptItem \/ RefuseItem \/ ErrorReturn \/ ParseFail \/ NoCommand
    \/ ExecuteLock \/ ExecuteRefresh \/ UnknownCommand \/ LastReturn
    \/ RefreshSend \/ RefreshNext \/ RefreshDone

-----------------------------------------------------------------------------
(* The main task: main_task's reconnect branch and app_on_mqtt_connected.   *)

(* mqtt_connect as far as app_on_mqtt_connected; the device's command topic *)
(* is subscribed, the locks' topics are not yet.                            *)
MainConnect ==
    /\ main.pc = "poll" /\ ~connected /\ owner = "none"
    /\ connected' = TRUE
    /\ subscribed' = {App}
    /\ reported' = {}
    /\ main' = [main EXCEPT !.pc = "subscribe", !.idx = 0]
    /\ UNCHANGED <<device, calls, owner, status, delivered, faults>>

MainSubscribe ==
    /\ main.pc = "subscribe" /\ owner = "none"
    /\ owner' = "main"
    /\ main' = [main EXCEPT !.pc = "subscribing"]
    /\ UNCHANGED <<device, calls, link, broker, delivered, faults>>

(* The result of mqtt_subscribe is not looked at.                           *)
MainSubscribed ==
    /\ main.pc = "subscribing" /\ calls = <<>>
    /\ \E o \in Outcome :
          /\ Send(o)
          /\ subscribed' = IF o.ok THEN subscribed \cup {main.idx} ELSE subscribed
    /\ main' = IF main.idx + 1 < LockCount
               THEN [main EXCEPT !.pc = "subscribe", !.idx = @ + 1]
               ELSE [main EXCEPT !.pc = "read", !.idx = 0]
    /\ owner' = "none"
    /\ UNCHANGED <<device, calls, connected, broker, delivered>>

(* command_refresh in the main task reads locks[i].locked as the argument   *)
(* of the publish, and only the publish takes the client's lock.            *)
MainRead ==
    /\ main.pc = "read"
    /\ main' = [main EXCEPT !.pc = "send", !.val = locked[main.idx]]
    /\ UNCHANGED <<device, calls, owner, link, broker, delivered, faults>>

MainSend ==
    /\ main.pc = "send" /\ owner = "none"
    /\ owner' = "main"
    /\ \E o \in Outcome :
          /\ PublishStatus(main.idx, main.val, o)
          /\ main' = [main EXCEPT !.pc = "sending", !.ok = o.ok]
    /\ UNCHANGED <<device, calls, link, delivered>>

(* Mutant: the result of a publish is not looked at.                        *)
MainSentIgnoresFailure ==
    /\ main.pc = "sending" /\ calls = <<>>
    /\ main' = IF main.idx + 1 < LockCount
               THEN [main EXCEPT !.pc = "read", !.idx = @ + 1]
               ELSE [main EXCEPT !.pc = "poll"]
    /\ owner' = "none"
    /\ UNCHANGED <<device, calls, link, broker, delivered, faults>>

(* Mutant: a publish that failed is tried again on the same connection.     *)
MainSentRetries ==
    /\ main.pc = "sending" /\ calls = <<>>
    /\ main' = IF ~main.ok THEN [main EXCEPT !.pc = "read"]
               ELSE IF main.idx + 1 < LockCount
               THEN [main EXCEPT !.pc = "read", !.idx = @ + 1]
               ELSE [main EXCEPT !.pc = "poll"]
    /\ owner' = "none"
    /\ UNCHANGED <<device, calls, link, broker, delivered, faults>>

MainSent ==
    /\ main.pc = "sending" /\ calls = <<>>
    /\ main' = IF ~main.ok THEN [main EXCEPT !.pc = "reset"]
               ELSE IF main.idx + 1 < LockCount
               THEN [main EXCEPT !.pc = "read", !.idx = @ + 1]
               ELSE [main EXCEPT !.pc = "poll"]
    /\ owner' = "none"
    /\ UNCHANGED <<device, calls, link, broker, delivered, faults>>

(* mqtt_reset, after mqtt_connect returned an error.                        *)
MainReset ==
    /\ main.pc = "reset" /\ owner = "none"
    /\ connected' = FALSE
    /\ subscribed' = {}
    /\ main' = [main EXCEPT !.pc = "poll"]
    /\ UNCHANGED <<device, calls, owner, broker, delivered, faults>>

(* A round of main_task's loop on a live connection with nothing queued.    *)
MainIdle ==
    /\ main.pc = "poll" /\ connected /\ owner = "none"
    /\ UNCHANGED vars

MainStep ==
    \/ MainConnect \/ MainSubscribe \/ MainSubscribed
    \/ MainRead \/ MainSend \/ MainSent \/ MainReset \/ MainIdle

-----------------------------------------------------------------------------
(* The environment.                                                         *)

ConnectionLost ==
    /\ connected /\ faults < MaxFaults
    /\ connected' = FALSE
    /\ subscribed' = {}
    /\ faults' = faults + 1
    /\ UNCHANGED <<device, calls, main, owner, broker, delivered>>

(* Power loss or reset, then app_init: every lock locked, its pin driven.   *)
Restart ==
    /\ faults < MaxFaults
    /\ locked' = [l \in Lock |-> TRUE]
    /\ pin' = [l \in Lock |-> TRUE]
    /\ command' = "UNKNOWN"
    /\ calls' = <<>>
    /\ main' = InitialMain
    /\ owner' = "none"
    /\ connected' = FALSE
    /\ subscribed' = {}
    /\ faults' = faults + 1
    /\ UNCHANGED <<broker, delivered>>

Next ==
    \/ \E h \in Handler, m \in Messages : Deliver(h, m)
    \/ HandlerStep
    \/ MainStep
    \/ ConnectionLost
    \/ Restart

(* Every wait for an acknowledgement ends (the client's command timeout is  *)
(* 3000 ms) and the scheduler runs both tasks; nothing makes the broker     *)
(* send, or the network fail.                                               *)
Fairness == WF_vars(HandlerStep) /\ WF_vars(MainStep)

Spec == Init /\ [][Next]_vars /\ Fairness

-----------------------------------------------------------------------------
(* Properties.                                                              *)

(* Every variable has its type, and the client's lock is held by the main   *)
(* task exactly while that task waits for an acknowledgement, and by the    *)
(* client's task only while a handler runs.                                 *)
TypeOK ==
    /\ locked \in [Lock -> BOOLEAN]
    /\ pin \in [Lock -> BOOLEAN]
    /\ command \in CommandType
    /\ calls \in Seq(Call) /\ Len(calls) <= MaxDepth
    /\ main \in MainState
    /\ owner \in {"none", "main", "mqtt"}
    /\ connected \in BOOLEAN
    /\ subscribed \subseteq Handler
    /\ status \in [Lock -> {"none", "0", "1"}]
    /\ reported \subseteq Lock
    /\ delivered \in 0..MaxMessages
    /\ faults \in 0..MaxFaults
    /\ owner = "main" <=> main.pc \in {"subscribing", "sending"}
    /\ owner = "mqtt" => calls # <<>>
    /\ calls # <<>> => owner # "none"

(* What message m asks of handler h: the last command it accepts, provided  *)
(* the whole payload can be parsed.                                         *)
Requested(h, m) ==
    LET taken == {i \in 1..Len(m) : Accepts(h, m[i])}
    IN  IF taken = {} \/ \E i \in 1..Len(m) : m[i] = "overlong" THEN "UNKNOWN"
        ELSE TypeOf(m[CHOOSE i \in taken : \A j \in taken : j <= i])

(* cmd is the last command that handler h accepts among the first n pairs   *)
(* of m, or UNKNOWN if it accepts none of them.                             *)
LastAccepted(cmd, h, m, n) ==
    \/ cmd = "UNKNOWN" /\ \A i \in 1..n : ~Accepts(h, m[i])
    \/ \E i \in 1..n : /\ Accepts(h, m[i])
                       /\ cmd = TypeOf(m[i])
                       /\ \A j \in i + 1 .. n : ~Accepts(h, m[j])

(* While a handler parses, the one `command' object (app.cpp:181-184) that  *)
(* every handler of every topic writes holds what THIS handler has read in  *)
(* the payload that was sent to it, and nothing of any other message.       *)
CommandIsOwn ==
    calls # <<>> /\ Top.pc \in {"parse", "error"} =>
        /\ Top.buf = Top.msg
        /\ Top.pos <= Len(Top.msg)
        /\ \A i \in 1..Top.pos : Top.msg[i] # "overlong"
        /\ LastAccepted(command, Top.h, Top.msg, Top.pos)

(* A machine is released only by a message on its own command topic whose   *)
(* last accepted command is unlock: whatever other topics receive, however  *)
(* tasks interleave, the shared `command' object (app.cpp:181) never        *)
(* carries one lock's command to another.                                   *)
OpensOnlyOnOwnRequest ==
    [][\A l \in Lock :
          pin[l] /\ ~pin'[l] =>
              calls # <<>> /\ Top.h = l /\ Requested(l, Top.msg) = "UNLOCK"]_vars

(* The main task considers a connection good (app_on_mqtt_connected         *)
(* returned 0 and main_task went back to its loop) only if the state of     *)
(* every lock has reached the broker on this connection.                    *)
OnlineMeansReported ==
    main.pc = "poll" /\ connected => reported = Lock

(* Once faults stop, the device gets and stays connected with every lock    *)
(* reported, wherever the last fault hit the connect sequence.              *)
EventuallyOnline == <>[](main.pc = "poll" /\ connected)

(* Requests that have arrived and are not carried out yet.                  *)
Asked ==
    {<<c.h, Requested(c.h, c.msg) = "LOCK">> :
        c \in {calls[i] : i \in {j \in 1..Len(calls) :
                  /\ calls[j].pc \in {"parse", "error"}
                  /\ calls[j].h \in Lock
                  /\ Requested(calls[j].h, calls[j].msg) # "UNKNOWN"}}}

Service == INSTANCE LockService WITH output <- pin, asked <- Asked

(* The device keeps the promises of LockService: outputs follow the         *)
(* requests one by one, and a request that arrived is carried out whatever  *)
(* happens to the connection, unless the device restarts first.             *)
ServiceSpec == Service!Spec

(* README.md:60 and :79: the state of each lock is published.  When nothing *)
(* is going on, the last state that reached the broker for a lock is the    *)
(* lock's state.                                                            *)
StatusIsCurrent ==
    main.pc = "poll" /\ connected /\ calls = <<>> =>
        \A l \in Lock : status[l] = IF locked[l] THEN "1" ELSE "0"

(* README.md:69: "A lock can be controlled by sending a message" to its     *)
(* command topic.  Once faults stop, the device is connected and a message  *)
(* on any of its topics reaches its handler (app.cpp:310 ignores whether    *)
(* the subscription was made).                                              *)
EventuallyListening == <>[](connected /\ subscribed = Handler)
=============================================================================
