------------------------- MODULE LegacyRelayProofs -------------------------
(***************************************************************************)
(* Proofs about LegacyRelay and the PubSubClient below it: the type        *)
(* invariant, that a connected device hears both kinds of commands, and    *)
(* that what it reports is what its relay does.                            *)
(***************************************************************************)
EXTENDS LegacyRelay, SequenceTheorems, TLAPS

Packets == Topics \cup {"CONNACK", "REFUSED", "SUBACK", "PINGRESP", "long"}
Answers == {"CONNACK", "REFUSED", "SUBACK", "PINGRESP"}

(* The parts of the type invariant.                                         *)
TimeType ==
    /\ now \in 0 .. Wrap - 1 /\ t \in 0 .. Wrap - 1 /\ since \in 0 .. Wrap - 1
    /\ lastIn \in 0 .. Wrap - 1 /\ lastOut \in 0 .. Wrap - 1
    /\ age \in 0 .. AnswerTime /\ late \in 0 .. RestTime
    /\ silence \in Nat /\ deadFor \in Nat

FlagType ==
    /\ state \in {"disconnected", "connected", "failed", "refused", "timeout", "lost"}
    /\ pingOutstanding \in BOOLEAN /\ polled \in BOOLEAN
    /\ sock \in BOOLEAN /\ path \in BOOLEAN /\ session \in BOOLEAN /\ partial \in BOOLEAN
    /\ subs \subseteq Topics

PacketType ==
    /\ inbox \in Seq(Packets) /\ Len(inbox) <= InboxSize
    /\ partial => Len(inbox) >= 1
    /\ owed \in Seq(Answers)

(* The socket, the session and where the thread is agree.                   *)
SocketType ==
    /\ call \in {"none", "connack", "answer", "read", "stalled"}
    /\ pc \in {"connect", "connecting", "lock", "unlock", "loop"}
    /\ pc = "connecting" <=> call \in {"connack", "answer"}
    /\ ~sock => ~path /\ ~session /\ inbox = <<>>
    /\ sock /\ call \notin {"connack", "answer"} => state = "connected" /\ session

MachineType ==
    /\ locked \in BOOLEAN /\ relay \in {"on", "off"}
    /\ published \in {"none", "true", "false"}

(* The type invariant, part by part.                                        *)
LEMMA TypeParts ==
    TypeOK <=> TimeType /\ FlagType /\ PacketType /\ SocketType /\ MachineType
  BY DEF TypeOK, ClientType, TimeType, FlagType, PacketType, SocketType, MachineType,
         Packets, Answers

-----------------------------------------------------------------------------
(* Type correctness, part by part.                                          *)

(* The initial state is typed.                                              *)
LEMMA InitType == Init => TypeOK
<1> SUFFICES ASSUME Init PROVE TypeOK
  OBVIOUS
<1>1. TimeType
  BY TimesAssumption DEF Init, ClientInit, TimeType
<1>2. FlagType /\ SocketType /\ MachineType
  BY DEF Init, ClientInit, FlagType, SocketType, MachineType
<1>3. PacketType
  <2>1. Len(<<>>) <= InboxSize
    BY TimesAssumption, EmptySeq
  <2> QED
    BY <2>1, EmptySeq DEF Init, ClientInit, PacketType
<1> QED
  BY <1>1, <1>2, <1>3, TypeParts

(* Time stamps stay on the clock.                                           *)
LEMMA TimeStep == TimeType /\ [Next]_vars => TimeType'
<1> SUFFICES ASSUME TimeType, [Next]_vars PROVE TimeType'
  OBVIOUS
<1> USE DEF stamps, broker, incoming, link
<1>0. 0 \in 0 .. Wrap - 1 /\ 0 \in 0 .. AnswerTime /\ 0 \in 0 .. RestTime
  BY TimesAssumption
<1>1. CASE Connect \/ ConnectStalls
  BY <1>0, <1>1 DEF Connect, ConnectStalls, ConnectWaits, ConnectFails, ConnectSends, TimeType
<1>2. CASE ConnectReturns
  BY <1>0, <1>2 DEF ConnectReturns, ConnectAccepted, ConnectRefused, ConnectTimeout,
     ConnectGivesUp, ConnectReads, Close, TimeType
<1>3. CASE SubscribeNext
  <2>1. /\ UNCHANGED <<now, lastIn, t, since, age, late, deadFor>> /\ lastOut' \in {lastOut, now}
        /\ silence' \in {silence, 0}
    BY <1>3 DEF SubscribeNext, Subscribe, Write
  <2> QED
    BY <2>1 DEF TimeType
<1>4. CASE Loop \/ HandleMessage
  <2>1. CASE KeepAliveStep
    <3>1. CASE LoopPing
      BY <3>1 DEF LoopPing, Write, TimeType
    <3>2. CASE LoopTimeout
      BY <1>0, <3>2 DEF LoopTimeout, Close, TimeType
    <3>3. CASE LoopNotConnected
      BY <3>3 DEF LoopNotConnected, TimeType
    <3>4. CASE LoopNotDue
      BY <3>4 DEF LoopNotDue, TimeType
    <3> QED
      BY <2>1, <3>1, <3>2, <3>3, <3>4 DEF KeepAliveStep
  <2>2. CASE ReadStep
    <3>1. CASE ReadNothing \/ ReadWaits \/ ReadGivesUp
      BY <1>0, <3>1 DEF ReadNothing, ReadWaits, ReadGivesUp, TimeType
    <3>2. CASE ReadTooLong \/ ReadSuback \/ ReadPingresp
      BY <3>2 DEF ReadTooLong, ReadSuback, ReadPingresp, Read, TimeType
    <3> QED
      BY <2>2, <3>1, <3>2 DEF ReadStep
  <2>3. CASE HandleMessage
    BY <2>3 DEF HandleMessage, ReadPublish, Read, TimeType
  <2> QED
    BY <1>4, <2>1, <2>2, <2>3 DEF Loop
<1>5. CASE Environment
  <2>1. CASE TimePasses
    <3>1. now' \in 0 .. Wrap - 1
      BY <2>1, TimesAssumption DEF TimePasses, TimeType
    <3>2. age' \in 0 .. AnswerTime
      BY <1>0, <2>1, TimesAssumption DEF TimePasses, InTime, TimeType
    <3>3. late' \in 0 .. RestTime
      BY <1>0, <2>1, TimesAssumption DEF TimePasses, InTime, TimeType
    <3>4. silence' \in Nat /\ deadFor' \in Nat
      BY <2>1 DEF TimePasses, TimeType
    <3> QED
      BY <2>1, <3>1, <3>2, <3>3, <3>4 DEF TimePasses, TimeType
  <2>2. CASE Answer \/ OtherPublishes
    <3>1. /\ UNCHANGED <<now, lastIn, lastOut, t, since, silence, deadFor>>
          /\ late' = 0 /\ age' \in {age, 0}
      BY <2>2 DEF Answer, OtherPublishes, Arrives
    <3> QED
      BY <1>0, <3>1 DEF TimeType
  <2>3. CASE MoreArrives \/ RestArrives
    <3>1. /\ UNCHANGED <<now, lastIn, lastOut, t, age, silence, deadFor>>
          /\ late' \in {late, 0} /\ since' \in {since, now}
      BY <2>3 DEF MoreArrives, RestArrives
    <3> QED
      BY <1>0, <3>1 DEF TimeType
  <2>4. CASE PathDies \/ PeerCloses
    <3>1. /\ UNCHANGED <<now, lastIn, lastOut, t, since>>
          /\ age' = 0 /\ late' = 0 /\ silence' = 0 /\ deadFor' \in {deadFor, 0}
      BY <2>4 DEF PathDies, PeerCloses, Close
    <3> QED
      BY <1>0, <3>1 DEF TimeType
  <2> QED
    BY <1>5, <2>1, <2>2, <2>3, <2>4 DEF Environment
<1>6. CASE Restart
  BY <1>0, <1>6 DEF Restart, Close, TimeType
<1>7. CASE UNCHANGED vars
  BY <1>7 DEF vars, client, TimeType
<1> QED
  BY <1>1, <1>2, <1>3, <1>4, <1>5, <1>6, <1>7 DEF Next

(* So do flags and the machine.                                             *)
LEMMA FlagStep == FlagType /\ [Next]_vars => FlagType'
<1> SUFFICES ASSUME FlagType, [Next]_vars PROVE FlagType'
  OBVIOUS
<1> USE DEF stamps, broker, incoming, link
<1>1. CASE Connect \/ ConnectStalls
  BY <1>1 DEF Connect, ConnectStalls, ConnectWaits, ConnectFails, ConnectSends, FlagType
<1>2. CASE ConnectReturns
  BY <1>2 DEF ConnectReturns, ConnectAccepted, ConnectRefused, ConnectTimeout,
       ConnectGivesUp, ConnectReads, Close, FlagType
<1>3. CASE SubscribeNext
  <2>1. /\ UNCHANGED <<pingOutstanding, polled, sock, path, session, partial>>
        /\ state' \in {state, "lost"} /\ \E topic \in Topics : subs' \subseteq subs \cup {topic}
    BY <1>3, TopicsAssumption DEF SubscribeNext, Subscribe, NotConnected, Write
  <2> QED
    BY <2>1 DEF FlagType
<1>4. CASE Loop \/ HandleMessage
  <2>1. CASE KeepAliveStep
    BY <2>1 DEF KeepAliveStep, LoopNotConnected, NotConnected, LoopTimeout, LoopPing, LoopNotDue,
       Write, Close, FlagType
  <2>2. CASE ReadStep
    BY <2>2 DEF ReadStep, ReadNothing, ReadTooLong, ReadSuback, ReadPingresp, ReadWaits,
       ReadGivesUp, Read, FlagType
  <2>3. CASE HandleMessage
    BY <2>3 DEF HandleMessage, ReadPublish, Read, FlagType
  <2> QED
    BY <1>4, <2>1, <2>2, <2>3 DEF Loop
<1>5. CASE Environment
  <2>1. CASE Answer \/ OtherPublishes \/ MoreArrives \/ RestArrives
    BY <2>1 DEF Answer, OtherPublishes, Arrives, MoreArrives, RestArrives, FlagType
  <2>2. CASE PathDies \/ PeerCloses \/ TimePasses
    BY <2>2 DEF PathDies, PeerCloses, TimePasses, Close, FlagType
  <2> QED
    BY <1>5, <2>1, <2>2 DEF Environment
<1>6. CASE Restart
  BY <1>6 DEF Restart, Close, FlagType
<1>7. CASE UNCHANGED vars
  BY <1>7 DEF vars, client, FlagType
<1> QED
  BY <1>1, <1>2, <1>3, <1>4, <1>5, <1>6, <1>7 DEF Next

(* And the relay's own variables.                                           *)
LEMMA MachineStep == MachineType /\ [Next]_vars => MachineType'
<1> SUFFICES ASSUME MachineType, [Next]_vars PROVE MachineType'
  OBVIOUS
<1>1. CASE HandleMessage
  BY <1>1 DEF HandleMessage, Callback, MachineType
<1>2. CASE Restart
  BY <1>2 DEF Restart, MachineType
<1>3. CASE ~HandleMessage /\ ~Restart
  <2>1. UNCHANGED machine
    BY <1>3 DEF Next, Connect, ConnectStalls, ConnectReturns, SubscribeNext, Loop, vars
  <2> QED
    BY <2>1 DEF machine, MachineType
<1> QED
  BY <1>1, <1>2, <1>3

(* A packet that arrives joins the others.                                  *)
LEMMA ArrivesType ==
    ASSUME PacketType, NEW p \in Packets, Arrives(p)
    PROVE  inbox' \in Seq(Packets) /\ Len(inbox') <= InboxSize /\ Len(inbox') >= 1
<1>1. inbox' \in Seq(Packets) /\ Len(inbox') = Len(inbox) + 1
  BY AppendProperties DEF PacketType, Arrives
<1>2. Len(inbox) \in Nat /\ Len(inbox) < InboxSize
  BY LenProperties DEF PacketType, Arrives
<1> QED
  BY <1>1, <1>2, TimesAssumption

(* One that is read leaves them; it has come in, the last may still be      *)
(* coming in.                                                               *)
LEMMA TailType ==
    ASSUME PacketType, inbox # <<>>, ~Slow, inbox' = Tail(inbox)
    PROVE  /\ inbox' \in Seq(Packets) /\ Len(inbox') <= InboxSize
           /\ partial => Len(inbox') >= 1
<1>1. inbox' \in Seq(Packets) /\ Len(inbox') = Len(inbox) - 1
  BY HeadTailProperties DEF PacketType
<1>2. Len(inbox) \in Nat /\ Len(inbox) <= InboxSize
  BY LenProperties DEF PacketType
<1>3. Len(inbox) # 0
  BY EmptySeq DEF PacketType
<1> QED
  BY <1>1, <1>2, <1>3, TimesAssumption DEF Slow

(* No packets at all are typed packets.                                     *)
LEMMA NonePacketType ==
    /\ <<>> \in Seq(Packets) /\ Len(<<>>) <= InboxSize /\ <<>> \in Seq(Answers)
  BY TimesAssumption, EmptySeq

(* What is written may add answers to those that are owed.                  *)
LEMMA WriteType ==
    ASSUME PacketType, NEW a \in Answers, Write(<<a>>)
    PROVE  owed' \in Seq(Answers)
<1>1. <<a>> \in Seq(Answers)
  OBVIOUS
<1> QED
  BY <1>1, ConcatProperties DEF Write, PacketType

(* Packets on their way in either direction stay packets.                   *)
LEMMA PacketStep == PacketType /\ FlagType /\ [Next]_vars => PacketType'
<1> SUFFICES ASSUME PacketType, FlagType, [Next]_vars PROVE PacketType'
  OBVIOUS
<1> USE DEF stamps, broker, incoming, link
<1>0. partial \in BOOLEAN /\ partial' \in BOOLEAN
  BY FlagStep DEF FlagType
<1>1. CASE Connect \/ ConnectStalls
  <2>1. \A a \in Answers : <<a>> \in Seq(Answers)
    OBVIOUS
  <2>2. owed' \in {owed, <<"CONNACK">>, <<"REFUSED">>} /\ UNCHANGED <<inbox, partial>>
    BY <1>1 DEF Connect, ConnectStalls, ConnectWaits, ConnectFails, ConnectSends
  <2>3. owed' \in Seq(Answers)
    <3>1. owed \in Seq(Answers) /\ "CONNACK" \in Answers /\ "REFUSED" \in Answers
      BY DEF PacketType, Answers
    <3> QED
      BY <2>1, <2>2, <3>1, Zenon
  <2>4. inbox' = inbox /\ partial' = partial
    BY <2>2
  <2> QED
    BY <2>3, <2>4, Zenon DEF PacketType
<1>2. CASE ConnectReturns
  <2>1. \/ inbox # <<>> /\ ~Slow /\ inbox' = Tail(inbox) /\ UNCHANGED <<partial, owed>>
        \/ inbox' = <<>> /\ ~partial' /\ owed' = <<>>
    BY <1>2 DEF ConnectReturns, ConnectAccepted, ConnectRefused, ConnectTimeout,
       ConnectGivesUp, ConnectReads, Close
  <2> QED
    BY <1>0, <2>1, TailType, NonePacketType DEF PacketType
<1>3. CASE SubscribeNext
  <2>1. \/ UNCHANGED <<inbox, partial, owed>>
        \/ Write(<<"SUBACK">>) /\ UNCHANGED <<inbox, partial>>
    BY <1>3 DEF SubscribeNext, Subscribe
  <2> QED
    BY <2>1, WriteType DEF PacketType, Answers
<1>4. CASE Loop
  <2>1. \/ UNCHANGED <<inbox, partial, owed>>
        \/ Write(<<"PINGRESP">>) /\ UNCHANGED <<inbox, partial>>
        \/ inbox # <<>> /\ ~Slow /\ inbox' = Tail(inbox) /\ UNCHANGED <<partial, owed>>
        \/ inbox' = <<>> /\ ~partial' /\ owed' \in {owed, <<>>}
    BY <1>4 DEF Loop, KeepAliveStep, ReadStep, LoopNotConnected, LoopTimeout, LoopPing,
       LoopNotDue, Close, ReadNothing, ReadTooLong, ReadSuback, ReadPingresp, ReadWaits,
       ReadGivesUp, Read
  <2> QED
    BY <1>0, <2>1, WriteType, TailType, NonePacketType DEF PacketType, Answers
<1>5. CASE HandleMessage
  <2>1. inbox # <<>> /\ ~Slow /\ inbox' = Tail(inbox) /\ UNCHANGED <<partial, owed>>
    BY <1>5 DEF HandleMessage, ReadPublish, Read
  <2> QED
    BY <2>1, TailType DEF PacketType
<1>6. CASE Answer
  <2>1. Head(owed) \in Answers /\ Tail(owed) \in Seq(Answers)
    BY <1>6, HeadTailProperties DEF Answer, PacketType
  <2>2. Head(owed) \in Packets
    BY <2>1 DEF Answers, Packets
  <2> QED
    BY <1>6, <2>1, <2>2, ArrivesType DEF Answer, PacketType
<1>7. CASE OtherPublishes
  <2>1. PICK p \in subs \cup {"long"} : Arrives(p)
    BY <1>7 DEF OtherPublishes
  <2>2. p \in Packets
    BY DEF FlagType, Packets
  <2> QED
    BY <1>7, <2>1, <2>2, ArrivesType DEF OtherPublishes, PacketType
<1>8. CASE MoreArrives \/ RestArrives \/ PathDies
  BY <1>0, <1>8, NonePacketType DEF MoreArrives, RestArrives, PathDies, PacketType
<1>9. CASE PeerCloses \/ TimePasses
  BY <1>0, <1>9, NonePacketType DEF PeerCloses, TimePasses, Close, PacketType
<1>10. CASE Restart
  BY <1>10, NonePacketType DEF Restart, Close, PacketType
<1>11. CASE UNCHANGED vars
  BY <1>11 DEF vars, client, PacketType
<1> QED
  BY <1>1, <1>2, <1>3, <1>4, <1>5, <1>6, <1>7, <1>8, <1>9, <1>10, <1>11 DEF Next, Environment

(* A socket that is open outside connect() stays one with a session.        *)
LEMMA SocketStep == SocketType /\ [Next]_vars => SocketType'
<1> SUFFICES ASSUME SocketType, [Next]_vars PROVE SocketType'
  OBVIOUS
<1> USE DEF stamps, broker, incoming, link
<1>1. CASE Connect \/ ConnectStalls
  BY <1>1 DEF Connect, ConnectStalls, ConnectWaits, ConnectFails, ConnectSends, SocketType
<1>2. CASE ConnectReturns
  BY <1>2 DEF ConnectReturns, ConnectAccepted, ConnectRefused, ConnectTimeout,
       ConnectGivesUp, ConnectReads, Close,
         SocketType
<1>3. CASE SubscribeNext
  BY <1>3 DEF SubscribeNext, Subscribe, NotConnected, Write, SocketType
<1>4. CASE Loop
  <2>1. CASE KeepAliveStep
    BY <1>4, <2>1 DEF Loop, KeepAliveStep, LoopNotConnected, NotConnected, LoopTimeout,
       LoopPing, LoopNotDue, Write, Close,
         SocketType
  <2>2. CASE ReadStep
    <3>1. pc = "loop" /\ UNCHANGED <<pc, state, sock, path, session>>
          /\ call' \in {"none", "stalled"}
          /\ (UNCHANGED inbox \/ inbox # <<>> \/ inbox' = <<>>)
      BY <1>4, <2>2 DEF Loop, ReadStep, ReadNothing, ReadTooLong, ReadSuback, ReadPingresp,
         ReadWaits, ReadGivesUp, Read
    <3> QED
      BY <3>1 DEF SocketType
  <2> QED
    BY <1>4, <2>1, <2>2 DEF Loop
<1>5. CASE HandleMessage
  <2>1. pc = "loop" /\ UNCHANGED <<pc, state, sock, path, session>>
        /\ call' = "none" /\ inbox # <<>>
    BY <1>5 DEF HandleMessage, ReadPublish, Read
  <2> QED
    BY <2>1 DEF SocketType
<1>6. CASE Environment /\ UNCHANGED <<pc, machine>>
  BY <1>6 DEF Environment, Answer, OtherPublishes, MoreArrives, RestArrives, PathDies,
     PeerCloses, TimePasses, Close,
         SocketType
<1>7. CASE Restart
  BY <1>7 DEF Restart, Close,
         SocketType
<1>8. CASE UNCHANGED vars
  BY <1>8 DEF vars, client, SocketType
<1> QED
  BY <1>1, <1>2, <1>3, <1>4, <1>5, <1>6, <1>7, <1>8 DEF Next

(* Every step leaves the state typed.                                       *)
LEMMA StepType == TypeOK /\ [Next]_vars => TypeOK'
<1>1. TypeOK' <=> TimeType' /\ FlagType' /\ PacketType' /\ SocketType' /\ MachineType'
  BY TypeParts, PTL
<1> QED
  BY <1>1, TypeParts, TimeStep, FlagStep, PacketStep, SocketStep, MachineStep

(* Every variable keeps its type, and an open socket outside connect() has  *)
(* a session, for any keep-alive, timeouts and clock width.                 *)
THEOREM TypeCorrect == Spec => []TypeOK
  BY InitType, StepType, PTL DEF Spec

-----------------------------------------------------------------------------
(* A connected device listens.                                              *)

(* The subscriptions setup() has come to.                                   *)
SubscribedSoFar ==
    path => /\ pc = "unlock" => "lock" \in subs
            /\ pc = "loop" => subs = Topics

(* subscribe() is only ever lost together with the connection.              *)
LEMMA StepSubscribed ==
    ASSUME TypeOK, SubscribedSoFar, [Next]_vars
    PROVE  SubscribedSoFar'
<1> USE DEF stamps, broker, incoming, link
<1>1. CASE Connect \/ ConnectStalls \/ ConnectReturns
  BY <1>1 DEF Connect, ConnectStalls, ConnectWaits, ConnectFails, ConnectSends,
     ConnectReturns, ConnectAccepted,
     ConnectRefused, ConnectTimeout, SubscribedSoFar
<1>2. CASE SubscribeNext
  <2>1. path => sock /\ session
    BY <1>2 DEF SubscribeNext, TypeOK, ClientType
  <2>2. subs \subseteq Topics
    BY DEF TypeOK, ClientType
  <2> QED
    BY <1>2, <2>1, <2>2, TopicsAssumption
       DEF SubscribeNext, Subscribe, NotConnected, Write, SubscribedSoFar
<1>3. CASE Loop \/ HandleMessage
  <2>1. UNCHANGED pc /\ (~path' \/ UNCHANGED <<path, subs>>)
    BY <1>3 DEF Loop, KeepAliveStep, ReadStep, LoopNotConnected, LoopTimeout, LoopPing,
       LoopNotDue, Write, Close, ReadNothing, ReadTooLong, ReadSuback, ReadPingresp,
       ReadWaits, ReadGivesUp, HandleMessage, ReadPublish, Read
  <2> QED
    BY <2>1 DEF SubscribedSoFar
<1>4. CASE Environment /\ UNCHANGED <<pc, machine>>
  BY <1>4 DEF Environment, Answer, OtherPublishes, MoreArrives, RestArrives, PathDies,
     PeerCloses, TimePasses, Close,
     SubscribedSoFar
<1>5. CASE Restart
  BY <1>5 DEF Restart, Close, SubscribedSoFar
<1>6. CASE UNCHANGED vars
  BY <1>6 DEF vars, client, SubscribedSoFar
<1> QED
  BY <1>1, <1>2, <1>3, <1>4, <1>5, <1>6 DEF Next

(* Although setup() ignores the results of connect() and subscribe(), a     *)
(* device in loop() with a working connection gets both kinds of commands.  *)
THEOREM Listens == Spec => []ListensIfConnected
<1>1. Init => SubscribedSoFar
  BY DEF Init, ClientInit, SubscribedSoFar
<1>2. SubscribedSoFar => ListensIfConnected
  BY DEF SubscribedSoFar, ListensIfConnected
<1> QED
  BY <1>1, <1>2, StepSubscribed, TypeCorrect, PTL DEF Spec

-----------------------------------------------------------------------------
(* Its reports are true.                                                    *)

(* Nothing is published before loop(), so a report that reached the broker  *)
(* belongs to the connection of this boot.                                  *)
Reported ==
    /\ pc # "loop" => published = "none"
    /\ ReportIsTrue

(* What a subscriber was last told since the device started is the state of *)
(* its relay, as long as the connection works.                              *)
THEOREM ReportsTruth == Spec => []ReportIsTrue
<1>1. Init => Reported
  BY DEF Init, ClientInit, Reported, ReportIsTrue
<1>2. TypeOK /\ Reported /\ [Next]_vars => Reported'
  <2> SUFFICES ASSUME TypeOK, Reported, [Next]_vars PROVE Reported'
    OBVIOUS
  <2> USE DEF stamps, broker, incoming, link, machine
  <2>1. CASE Connect \/ ConnectStalls \/ ConnectReturns \/ SubscribeNext
    <3>1. published' = published /\ pc # "loop"
      BY <2>1 DEF Connect, ConnectStalls, ConnectReturns, SubscribeNext
    <3> QED
      BY <3>1 DEF Reported, ReportIsTrue
  <2>2. CASE Loop
    <3>1. UNCHANGED <<pc, machine>> /\ (~path' \/ UNCHANGED path)
      BY <2>2 DEF Loop, KeepAliveStep, ReadStep, LoopNotConnected, LoopTimeout, LoopPing,
         LoopNotDue, Write, Close, ReadNothing, ReadTooLong, ReadSuback, ReadPingresp,
         ReadWaits, ReadGivesUp, Read
    <3> QED
      BY <3>1 DEF Reported, ReportIsTrue
  <2>3. CASE HandleMessage
    <3>1. PICK topic \in Topics : ReadPublish(topic) /\ Callback(topic)
      BY <2>3 DEF HandleMessage
    <3>2. UNCHANGED <<pc, path>> /\ pc = "loop"
      BY <2>3 DEF HandleMessage, ReadPublish, Read
    <3> QED
      BY <3>1, <3>2 DEF Callback, Reported, ReportIsTrue
  <2>4. CASE Environment /\ UNCHANGED <<pc, machine>>
    BY <2>4 DEF Environment, Answer, OtherPublishes, MoreArrives, RestArrives,
       PathDies, PeerCloses, TimePasses,
       Close, Reported, ReportIsTrue
  <2>5. CASE Restart
    BY <2>5 DEF Restart, Reported, ReportIsTrue
  <2>6. CASE UNCHANGED vars
    BY <2>6 DEF vars, client, Reported, ReportIsTrue
  <2> QED
    BY <2>1, <2>2, <2>3, <2>4, <2>5, <2>6 DEF Next
<1>3. Reported => ReportIsTrue
  BY DEF Reported
<1> QED
  BY <1>1, <1>2, <1>3, TypeCorrect, PTL DEF Spec
=============================================================================
