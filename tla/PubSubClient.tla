---------------------------- MODULE PubSubClient ----------------------------
(***************************************************************************)
(* The MQTT client of the older Arduino relay                              *)
(* (relay/mqtt/PubSubClient.cpp): connect, subscribe, publish and loop,    *)
(* with the keep-alive that decides whether the broker is still there.     *)
(* There is one thread; a call that waits blocks it.                       *)
(*                                                                         *)
(* Time advances in units of which loop() is called at least one in each.  *)
(* `now' is millis(), an unsigned counter that wraps.  The broker and the  *)
(* TCP connection are external: packets arrive in order, the last of them  *)
(* may still be coming in, and the path can die at any time: what the      *)
(* client then writes is lost without an error.  A path over which a byte  *)
(* takes as long as the socket timeout counts as dead.                     *)
(***************************************************************************)
EXTENDS Integers, Sequences

CONSTANTS
    KeepAlive,       \* MQTT_KEEPALIVE
    SocketTimeout,   \* MQTT_SOCKET_TIMEOUT
    Wrap,            \* number of values of an unsigned long
    AnswerTime,      \* longest time the broker takes to answer
    RestTime,        \* longest time a packet takes to come in, on a working path
    InboxSize,       \* bound on packets that wait to be read
    Topics           \* topics other clients publish on

ASSUME TimesAssumption ==
    /\ KeepAlive \in Nat \ {0} /\ SocketTimeout \in Nat \ {0}
    /\ AnswerTime \in Nat \ {0} /\ RestTime \in Nat /\ InboxSize \in Nat \ {0}
    /\ Wrap \in Nat /\ Wrap > 2 * KeepAlive + SocketTimeout + RestTime + 2

VARIABLES
    now,              \* millis()
    state,            \* _state
    lastIn,           \* lastInActivity
    lastOut,          \* lastOutActivity
    pingOutstanding,
    call,             \* the wait the thread is in, or "read" inside loop()
    t,                \* t of the last loop(): when it began
    since,            \* previousMillis in readByte
    polled,           \* has loop() run in this unit of time?
    sock,             \* _client->connected()
    inbox,            \* packets that have arrived
    partial,          \* is the last of them still coming in?
    late,             \* how long it has been, on a working path
    path,             \* do packets still get through?
    session,          \* did the broker accept the CONNECT?
    subs,             \* topics subscribed in this session
    owed,             \* answers of the broker on their way
    age,              \* how long the first of them has been
    silence,          \* time since the broker last heard of the device
    deadFor           \* time since the path died

stamps == <<lastIn, lastOut, pingOutstanding>>
broker == <<session, subs, owed, age>>
incoming == <<inbox, partial, late>>
link == <<sock, incoming, path, broker, silence, deadFor>>
client == <<now, state, stamps, call, t, since, polled, link>>

ClientInit ==
    /\ now \in 0 .. Wrap - 1
    /\ state = "disconnected"
    /\ lastIn = 0 /\ lastOut = 0 /\ pingOutstanding = FALSE
    /\ call = "none" /\ t = 0 /\ since = 0 /\ polled = FALSE
    /\ sock = FALSE /\ inbox = <<>> /\ partial = FALSE /\ late = 0 /\ path = FALSE
    /\ session = FALSE /\ subs = {} /\ owed = <<>> /\ age = 0
    /\ silence = 0 /\ deadFor = 0

(* Unsigned subtraction.                                                    *)
Elapsed(last) == (now - last) % Wrap

(* _client->stop(), or the other side closing.                              *)
Close ==
    /\ sock' = FALSE /\ inbox' = <<>> /\ partial' = FALSE /\ late' = 0 /\ path' = FALSE
    /\ session' = FALSE /\ subs' = {} /\ owed' = <<>> /\ age' = 0
    /\ silence' = 0 /\ deadFor' = 0

(* A packet is written; the broker hears of the device if there is a path,  *)
(* and owes the answers.                                                    *)
Write(answers) ==
    /\ silence' = IF path THEN 0 ELSE silence
    /\ owed' = IF path THEN owed \o answers ELSE owed
    /\ UNCHANGED <<sock, path, session, age, deadFor>>

(* A packet of which the first byte has arrived is read; readByte then      *)
(* waits for each byte that has not.                                        *)
Slow == partial /\ Len(inbox) = 1
Waiting == call \in {"answer", "stalled"}

-----------------------------------------------------------------------------
(* connect().                                                               *)

ConnectFails ==
    /\ call = "none" /\ ~sock
    /\ state' = "failed"
    /\ UNCHANGED <<now, stamps, call, t, since, polled, link>>

ConnectSends ==
    /\ call = "none" /\ ~sock
    /\ sock' = TRUE /\ path' = TRUE
    /\ owed' \in {<<"CONNACK">>, <<"REFUSED">>}
    /\ lastIn' = now /\ lastOut' = now
    /\ call' = "connack"
    /\ UNCHANGED <<now, state, pingOutstanding, t, since, polled, incoming,
                   session, subs, age, silence, deadFor>>

ConnectWaits ==
    /\ call = "connack" /\ Slow
    /\ call' = "answer" /\ since' = now
    /\ UNCHANGED <<now, state, stamps, t, polled, link>>

ConnectReads(packet) ==
    /\ call = "connack" /\ inbox # <<>> /\ ~Slow /\ Head(inbox) = packet
    /\ call' = "none"

ConnectAccepted ==
    /\ ConnectReads("CONNACK")
    /\ inbox' = Tail(inbox)
    /\ lastIn' = now /\ pingOutstanding' = FALSE
    /\ state' = "connected" /\ session' = TRUE
    /\ UNCHANGED <<now, lastOut, t, since, polled, sock, partial, late, path,
                   subs, owed, age, silence, deadFor>>

(* Mutant: the socket is left open.                                         *)
ConnectRefusedStaysOpen ==
    /\ ConnectReads("REFUSED")
    /\ inbox' = Tail(inbox)
    /\ state' = "refused"
    /\ UNCHANGED <<now, stamps, t, since, polled, sock, partial, late, path,
                   broker, silence, deadFor>>

ConnectRefused ==
    /\ ConnectReads("REFUSED")
    /\ state' = "refused"
    /\ Close
    /\ UNCHANGED <<now, stamps, t, since, polled>>

ConnectTimeout ==
    /\ call = "connack" /\ inbox = <<>> /\ Elapsed(lastIn) >= SocketTimeout
    /\ state' = "timeout"
    /\ Close
    /\ call' = "none"
    /\ UNCHANGED <<now, stamps, t, since, polled>>

(* The answer never comes in: _state is not set.                            *)
ConnectGivesUp ==
    /\ call = "answer" /\ Elapsed(since) >= SocketTimeout
    /\ Close
    /\ call' = "none"
    /\ UNCHANGED <<now, state, stamps, t, since, polled>>

-----------------------------------------------------------------------------
(* connected(), subscribe() and publish().                                  *)

NotConnected ==
    /\ ~sock
    /\ state' = IF state = "connected" THEN "lost" ELSE state

(* subscribe() does not wait for the acknowledgement.                       *)
Subscribe(topic) ==
    /\ call = "none"
    /\ \/ /\ sock
          /\ lastOut' = now
          /\ Write(<<"SUBACK">>)
          /\ subs' = IF path /\ session THEN subs \cup {topic} ELSE subs
          /\ UNCHANGED <<state, incoming>>
       \/ NotConnected /\ UNCHANGED <<lastOut, link>>
    /\ UNCHANGED <<now, lastIn, pingOutstanding, call, t, since, polled>>

-----------------------------------------------------------------------------
(* loop().                                                                  *)

(* Mutant: the sum wraps where the difference does not.                     *)
DueBySum ==
    now > lastIn + KeepAlive \/ now > lastOut + KeepAlive

Due == Elapsed(lastIn) > KeepAlive \/ Elapsed(lastOut) > KeepAlive

LoopNotConnected ==
    /\ call = "none" /\ NotConnected
    /\ polled' = TRUE
    /\ UNCHANGED <<now, stamps, call, t, since, link>>

(* Mutant: the socket is left open.                                         *)
LoopTimeoutStaysOpen ==
    /\ call = "none" /\ sock /\ Due /\ pingOutstanding
    /\ state' = "timeout" /\ polled' = TRUE
    /\ UNCHANGED <<now, stamps, call, t, since, link>>

LoopTimeout ==
    /\ call = "none" /\ sock /\ Due /\ pingOutstanding
    /\ state' = "timeout" /\ polled' = TRUE
    /\ Close
    /\ UNCHANGED <<now, stamps, call, t, since>>

(* Mutant: the flag is not set.                                             *)
LoopPingForgets ==
    /\ call = "none" /\ sock /\ Due /\ ~pingOutstanding
    /\ t' = now /\ lastIn' = now /\ lastOut' = now
    /\ Write(<<"PINGRESP">>)
    /\ call' = "read"
    /\ UNCHANGED <<now, state, pingOutstanding, since, polled, incoming, subs>>

LoopPing ==
    /\ call = "none" /\ sock /\ Due /\ ~pingOutstanding
    /\ t' = now /\ lastIn' = now /\ lastOut' = now /\ pingOutstanding' = TRUE
    /\ Write(<<"PINGRESP">>)
    /\ call' = "read"
    /\ UNCHANGED <<now, state, since, polled, incoming, subs>>

LoopNotDue ==
    /\ call = "none" /\ sock /\ ~Due
    /\ t' = now
    /\ call' = "read"
    /\ UNCHANGED <<now, state, stamps, since, polled, link>>

ReadNothing ==
    /\ call = "read" /\ inbox = <<>>
    /\ call' = "none" /\ polled' = TRUE
    /\ UNCHANGED <<now, state, stamps, t, since, link>>

(* At most one packet is read in each call; what is done with it counts as  *)
(* done when loop() began, however long it took to come in.                 *)
Read(packet) ==
    /\ call = "read" /\ inbox # <<>> /\ ~Slow /\ Head(inbox) = packet
    /\ inbox' = Tail(inbox)
    /\ call' = "none" /\ polled' = TRUE
    /\ UNCHANGED <<now, state, t, since, sock, partial, late, path, broker, deadFor>>

(* A packet longer than the buffer counts as none.                          *)
ReadTooLong ==
    /\ Read("long")
    /\ UNCHANGED <<stamps, silence>>

ReadSuback ==
    /\ Read("SUBACK")
    /\ lastIn' = t
    /\ UNCHANGED <<lastOut, pingOutstanding, silence>>

(* Mutant: the flag stays set.                                              *)
ReadPingrespForgets ==
    /\ Read("PINGRESP")
    /\ lastIn' = t
    /\ UNCHANGED <<lastOut, pingOutstanding, silence>>

ReadPingresp ==
    /\ Read("PINGRESP")
    /\ lastIn' = t /\ pingOutstanding' = FALSE
    /\ UNCHANGED <<lastOut, silence>>

(* A message on a subscribed topic: the callback publishes.                 *)
ReadPublish(topic) ==
    /\ Read(topic)
    /\ lastIn' = t /\ lastOut' = now
    /\ silence' = IF path THEN 0 ELSE silence
    /\ UNCHANGED pingOutstanding

(* readByte waits for the rest of the packet.                               *)
ReadWaits ==
    /\ call = "read" /\ Slow
    /\ call' = "stalled" /\ since' = now
    /\ UNCHANGED <<now, state, stamps, t, polled, link>>

(* It never comes, and what there is of the packet counts as none.          *)
ReadGivesUp ==
    /\ call = "stalled" /\ Elapsed(since) >= SocketTimeout
    /\ inbox' = <<>> /\ partial' = FALSE /\ late' = 0
    /\ call' = "none" /\ polled' = TRUE
    /\ UNCHANGED <<now, state, stamps, t, since, sock, path, broker, silence, deadFor>>

-----------------------------------------------------------------------------
(* The broker, the network and time (external).                             *)

(* All of the packet, or its first byte; it is behind the others.           *)
Arrives(packet) ==
    /\ Len(inbox) < InboxSize /\ ~partial
    /\ inbox' = Append(inbox, packet)
    /\ partial' \in BOOLEAN /\ late' = 0

Answer ==
    /\ path /\ owed # <<>>
    /\ Arrives(Head(owed))
    /\ owed' = Tail(owed) /\ age' = 0
    /\ UNCHANGED <<now, state, stamps, call, t, since, polled, sock, path,
                   session, subs, silence, deadFor>>

OtherPublishes ==
    /\ path /\ subs # {}
    /\ \E p \in subs \cup {"long"} : Arrives(p)
    /\ UNCHANGED <<now, state, stamps, call, t, since, polled, sock, path,
                   broker, silence, deadFor>>

(* The next byte of a packet that is being read.                            *)
MoreArrives ==
    /\ path /\ Waiting
    /\ since' = now
    /\ UNCHANGED <<now, state, stamps, call, t, polled, link>>

RestArrives ==
    /\ path /\ partial
    /\ partial' = FALSE /\ late' = 0
    /\ \/ call = "answer" /\ call' = "connack"
       \/ call = "stalled" /\ call' = "read"
       \/ ~Waiting /\ call' = call
    /\ UNCHANGED <<now, state, stamps, t, since, polled, sock, inbox, path,
                   broker, silence, deadFor>>

PathDies ==
    /\ path
    /\ path' = FALSE
    /\ owed' = <<>> /\ age' = 0 /\ silence' = 0 /\ late' = 0
    /\ UNCHANGED <<now, state, stamps, call, t, since, polled, sock, inbox, partial,
                   session, subs, deadFor>>

PeerCloses ==
    /\ sock /\ Close
    /\ UNCHANGED <<now, state, stamps, call, t, since, polled>>

(* On a working path the broker answers in time, and all of a packet comes  *)
(* in in time, each byte of it within the socket timeout.                   *)
InTime ==
    /\ owed # <<>> => age < AnswerTime
    /\ path /\ partial => late < RestTime
    /\ path /\ Waiting => Elapsed(since) + 1 < SocketTimeout

(* A wait ends as soon as it can.                                           *)
TimePasses ==
    /\ \/ call = "none" /\ polled
       \/ call = "connack" /\ inbox = <<>> /\ Elapsed(lastIn) < SocketTimeout
       \/ Waiting /\ Elapsed(since) < SocketTimeout
    /\ InTime
    /\ now' = (now + 1) % Wrap
    /\ polled' = FALSE
    /\ age' = IF owed # <<>> THEN age + 1 ELSE 0
    /\ late' = IF path /\ partial THEN late + 1 ELSE 0
    /\ silence' = IF path THEN silence + 1 ELSE 0
    /\ deadFor' = IF sock /\ ~path THEN deadFor + 1 ELSE 0
    /\ UNCHANGED <<state, stamps, call, t, since, sock, inbox, partial, path,
                   session, subs, owed>>

Environment ==
    \/ Answer \/ OtherPublishes \/ MoreArrives \/ RestArrives
    \/ PathDies \/ PeerCloses \/ TimePasses

-----------------------------------------------------------------------------
(* Properties.                                                              *)

ClientType ==
    /\ \A c \in {now, lastIn, lastOut, t, since} : c \in 0 .. Wrap - 1
    /\ state \in {"disconnected", "connected", "failed", "refused", "timeout", "lost"}
    /\ pingOutstanding \in BOOLEAN /\ polled \in BOOLEAN
    /\ call \in {"none", "connack", "answer", "read", "stalled"}
    /\ sock \in BOOLEAN /\ path \in BOOLEAN /\ session \in BOOLEAN
    /\ inbox \in Seq(Topics \cup {"CONNACK", "REFUSED", "SUBACK", "PINGRESP", "long"})
    /\ Len(inbox) <= InboxSize
    /\ partial \in BOOLEAN /\ (partial => Len(inbox) >= 1)
    /\ subs \subseteq Topics
    /\ owed \in Seq({"CONNACK", "REFUSED", "SUBACK", "PINGRESP"})
    /\ age \in 0 .. AnswerTime /\ late \in 0 .. RestTime
    /\ silence \in Nat /\ deadFor \in Nat
    /\ ~sock => ~path /\ ~session /\ inbox = <<>>
    /\ sock /\ call \notin {"connack", "answer"} => state = "connected" /\ session

(* A connection over which nothing comes through any more is given up       *)
(* within two keep-alive intervals of the last packet that was read: the    *)
(* ping flag, the two time stamps, the wrap of millis() and a read that     *)
(* stalls never put it off (PubSubClient.cpp:285-297).                      *)
DeadLinkIsNoticed ==
    deadFor <= InboxSize + 2 * (KeepAlive + 1)

(* The client never gives up a connection whose broker answers in time,     *)
(* with other packets in the way of the answer or not.                      *)
NoFalseTimeout ==
    [][state = "connected" /\ state' = "timeout" => ~path]_client

(* A device with a path to its broker is silent for longer than the         *)
(* keep-alive interval by no more than one unit of time and what the packet *)
(* it is reading takes to come in, for it sends nothing meanwhile           *)
(* (PubSubClient.cpp:208-218, 280-297).  Nothing in the code bounds that    *)
(* packet: readByte waits up to the socket timeout for each byte.           *)
BrokerHearsInTime == silence <= KeepAlive + 1 + RestTime
=============================================================================
