------------------------- MODULE LegacyTimingProofs -------------------------
(***************************************************************************)
(* Proofs about the clock of LegacyRelay: the client gives up a dead       *)
(* connection in bounded time, never gives up one whose broker answers in  *)
(* time, and the broker hears from the device in time; for any keep-alive, *)
(* timeouts, number of unread packets and width of millis().               *)
(***************************************************************************)
EXTENDS LegacyRelayProofs

InAge == Elapsed(lastIn)
OutAge == Elapsed(lastOut)
LoopAge == Elapsed(t)
StallAge == Elapsed(since)

(* How old the stamps can be while connect() waits: until the first byte of *)
(* the answer, then until the rest of it.                                   *)
ConnectClock ==
    /\ call \in {"connack", "answer"} => ~polled /\ lastIn = lastOut
    /\ call = "connack" =>
          /\ InAge <= SocketTimeout + RestTime
          /\ inbox = <<>> => InAge <= SocketTimeout
          /\ path /\ Slow => InAge <= SocketTimeout + late
    /\ call = "answer" =>
          /\ Slow /\ StallAge <= SocketTimeout
          /\ path => InAge <= SocketTimeout + late

(* While loop() runs: no older than the keep-alive when it began, and it    *)
(* has run as long as the packet that it reads has been coming in.          *)
LoopClock ==
    call \in {"read", "stalled"} =>
        /\ LoopAge <= InAge /\ LoopAge <= OutAge
        /\ InAge <= KeepAlive + LoopAge /\ OutAge <= KeepAlive + LoopAge
        /\ call = "read" => LoopAge <= RestTime /\ (inbox = <<>> \/ Slow => LoopAge = 0)
        /\ call = "stalled" =>
              /\ Slow /\ StallAge <= LoopAge
              /\ path => LoopAge <= late /\ StallAge < SocketTimeout
              /\ ~path => LoopAge <= RestTime + StallAge /\ StallAge <= SocketTimeout

(* Between the calls.                                                       *)
IdleClock ==
    call = "none" =>
        LET tick == IF polled THEN 0 ELSE 1
            bound == KeepAlive + RestTime + tick + (IF path THEN 0 ELSE SocketTimeout)
        IN  /\ InAge <= bound
            /\ OutAge <= bound \/ (~polled /\ OutAge <= SocketTimeout + RestTime)

(* How old the stamps can be at each point of the thread: far younger than  *)
(* the clock's width, so that the differences are the true ages.            *)
ClockInv ==
    /\ polled => pc = "loop"
    /\ sock => ConnectClock /\ LoopClock /\ IdleClock

(* How long a path has been dead, by how far the client has come towards    *)
(* giving it up: it reads what is left, one packet or more in each unit of  *)
(* time, then sends a ping, then times out.                                 *)
DeadInv ==
    /\ path \/ ~sock => deadFor = 0
    /\ sock /\ call = "connack" => deadFor <= InAge /\ (inbox # <<>> => deadFor = 0)
    /\ sock /\ call = "answer" => deadFor <= StallAge
    /\ sock /\ call = "stalled" => deadFor <= InboxSize + StallAge
    /\ sock /\ call \in {"none", "read"} =>
          /\ inbox # <<>> =>
                deadFor + Len(inbox) <= InboxSize + (IF polled THEN 0 ELSE 1)
          /\ inbox = <<>> /\ ~pingOutstanding =>
                /\ deadFor <= InboxSize + InAge
                /\ deadFor <= InboxSize + KeepAlive + (IF polled THEN 0 ELSE 1)
          /\ inbox = <<>> /\ pingOutstanding =>
                /\ deadFor <= InboxSize + KeepAlive + 1 + InAge
                /\ deadFor <= InboxSize + 2 * KeepAlive + 1 + (IF polled THEN 0 ELSE 1)

(* What was written last is no older than the broker's knowledge of it.     *)
HeardInv == silence <= IF path THEN OutAge ELSE 0

(* setup() is done before any ping; no time passes once it is connected.    *)
SetupInv ==
    /\ pc \in {"connect", "connecting"} => state = "disconnected" /\ subs = {} /\ ~session
    /\ pc = "connect" => ~sock
    /\ owed = <<>> => age = 0
    /\ pc = "connecting" => Len(owed) + Len(inbox) <= 1
    /\ path /\ pc \in {"lock", "unlock"} =>
          /\ ~polled /\ call = "none" /\ ~pingOutstanding
          /\ InAge = 0 /\ age = 0
          /\ pc = "lock" => owed = <<>>
          /\ pc = "unlock" => OutAge = 0 /\ owed \in {<<>>, <<"SUBACK">>}

Pongs == {i \in 1..Len(inbox) : inbox[i] = "PINGRESP"}

(* The answers the client waits for in loop(), and how long it has: none to *)
(* a ping; one to a ping, on its way; or that one with packets before it,   *)
(* in time unless it is being read already.                                 *)
Quiet ==
    /\ ~pingOutstanding /\ Pongs = {}
    /\ \/ owed = <<>>
       \/ /\ owed = <<"SUBACK">>
          /\ InAge <= AnswerTime + age /\ OutAge <= AnswerTime + age
       \/ /\ owed = <<"SUBACK", "SUBACK">>
          /\ InAge <= age /\ OutAge <= age

Pinged ==
    /\ pingOutstanding /\ Pongs = {} /\ owed = <<"PINGRESP">>
    /\ InAge <= age /\ OutAge <= age

Answered ==
    /\ pingOutstanding /\ owed = <<>>
    /\ \E j \in 1..Len(inbox) :
          /\ Pongs = {j}
          /\ \/ j = 1 /\ call # "none"
             \/ /\ InAge + j <= AnswerTime + InboxSize + (IF polled THEN 0 ELSE 1)
                /\ OutAge + j <= AnswerTime + InboxSize + (IF polled THEN 0 ELSE 1)

PingInv ==
    /\ path /\ pc = "loop" => Quiet \/ Pinged \/ Answered
    /\ path /\ pc \in {"lock", "unlock"} => Pongs = {}

-----------------------------------------------------------------------------
(* Arithmetic on the clock.                                                 *)

(* An age fits the clock, and is zero for a stamp that is taken now.        *)
LEMMA AgeOf ==
    ASSUME NEW n \in 0 .. Wrap - 1, NEW last \in 0 .. Wrap - 1
    PROVE  (n - last) % Wrap \in 0 .. Wrap - 1 /\ (n - n) % Wrap = 0
  BY TimesAssumption

(* One tick of the clock is one unit of age, also across the wrap, unless   *)
(* the age itself is as old as the clock is wide.                           *)
LEMMA TickOf ==
    ASSUME NEW n \in 0 .. Wrap - 1, NEW last \in 0 .. Wrap - 1,
           ((n - last) % Wrap) + 1 < Wrap
    PROVE  (((n + 1) % Wrap) - last) % Wrap = ((n - last) % Wrap) + 1
<1>1. CASE n >= last /\ n + 1 < Wrap
  <2>1. (n + 1) % Wrap = n + 1 /\ (n - last) % Wrap = n - last
    BY <1>1, TimesAssumption
  <2>2. (n + 1 - last) % Wrap = n + 1 - last
    BY <1>1, TimesAssumption
  <2> QED
    BY <2>1, <2>2
<1>2. CASE n >= last /\ n + 1 = Wrap
  <2>1. (n + 1) % Wrap = 0 /\ (n - last) % Wrap = n - last
    BY <1>2, TimesAssumption
  <2>2. last > 0
    BY <1>2, <2>1
  <2>3. (0 - last) % Wrap = Wrap - last
    BY <2>2, TimesAssumption
  <2> QED
    BY <1>2, <2>1, <2>3
<1>3. CASE n < last
  <2>1. (n + 1) % Wrap = n + 1 /\ (n - last) % Wrap = n - last + Wrap
    BY <1>3, TimesAssumption
  <2>2. n + 1 < last
    BY <1>3, <2>1, TimesAssumption
  <2>3. (n + 1 - last) % Wrap = n + 1 - last + Wrap
    BY <2>2, TimesAssumption
  <2> QED
    BY <2>1, <2>3, TimesAssumption
<1> QED
  BY <1>1, <1>2, <1>3, TimesAssumption

(* All the numbers the invariants compare.                                  *)
LEMMA Numbers ==
    ASSUME TypeOK
    PROVE  /\ InAge \in Nat /\ OutAge \in Nat /\ LoopAge \in Nat /\ StallAge \in Nat
           /\ late \in Nat /\ late <= RestTime /\ deadFor \in Nat /\ silence \in Nat
           /\ age \in Nat /\ age <= AnswerTime
           /\ Len(inbox) \in Nat /\ Len(inbox) <= InboxSize
           /\ KeepAlive \in Nat /\ KeepAlive >= 1
           /\ SocketTimeout \in Nat /\ SocketTimeout >= 1 /\ RestTime \in Nat
           /\ AnswerTime \in Nat /\ InboxSize \in Nat /\ InboxSize >= 1
           /\ Wrap \in Nat /\ Wrap > 2 * KeepAlive + SocketTimeout + RestTime + 2
<1>1. TimeType /\ PacketType
  BY TypeParts
<1>2. InAge \in Nat /\ OutAge \in Nat /\ LoopAge \in Nat /\ StallAge \in Nat
  BY <1>1, AgeOf, TimesAssumption DEF TimeType, InAge, OutAge, LoopAge, StallAge, Elapsed
<1> QED
  BY <1>1, <1>2, LenProperties, TimesAssumption DEF TimeType, PacketType

(* What the code compares is the age.                                       *)
LEMMA Compared ==
    /\ Elapsed(lastIn) = InAge /\ Elapsed(since) = StallAge
    /\ Due <=> InAge > KeepAlive \/ OutAge > KeepAlive
    /\ lastIn = lastOut => InAge = OutAge
  BY DEF InAge, OutAge, StallAge, Due

(* While the clock stands, a stamp that is kept keeps its age, one that is  *)
(* taken has none, and lastIn may be given the time loop() began.           *)
LEMMA ClockStands ==
    ASSUME TypeOK, now' = now
    PROVE  /\ lastIn' = lastIn => InAge' = InAge
           /\ lastIn' = now => InAge' = 0
           /\ lastIn' = t => InAge' = LoopAge
           /\ lastOut' = lastOut => OutAge' = OutAge
           /\ lastOut' = now => OutAge' = 0
           /\ t' = t => LoopAge' = LoopAge
           /\ t' = now => LoopAge' = 0
           /\ since' = since => StallAge' = StallAge
           /\ since' = now => StallAge' = 0
<1>1. now \in 0 .. Wrap - 1
  BY TypeParts DEF TimeType
<1>2. (now - now) % Wrap = 0
  BY <1>1, AgeOf
<1> QED
  BY <1>2 DEF InAge, OutAge, LoopAge, StallAge, Elapsed

(* When it ticks, every age below its width grows by one.                   *)
LEMMA ClockTicks ==
    ASSUME TypeOK, TimePasses
    PROVE  /\ InAge + 1 < Wrap => InAge' = InAge + 1
           /\ OutAge + 1 < Wrap => OutAge' = OutAge + 1
           /\ LoopAge + 1 < Wrap => LoopAge' = LoopAge + 1
           /\ StallAge + 1 < Wrap => StallAge' = StallAge + 1
<1>1. TimeType
  BY TypeParts
<1>2. /\ now' = (now + 1) % Wrap /\ lastIn' = lastIn /\ lastOut' = lastOut
      /\ t' = t /\ since' = since
  BY DEF TimePasses, stamps
<1> QED
  BY <1>1, <1>2, TickOf DEF TimeType, InAge, OutAge, LoopAge, StallAge, Elapsed

-----------------------------------------------------------------------------
(* How old a stamp can be.                                                  *)

(* No step lets a stamp grow older than that.                               *)
LEMMA StepClock ==
    ASSUME TypeOK, TypeOK', ClockInv, [Next]_vars
    PROVE  ClockInv'
<1> USE DEF stamps, broker, incoming, link
<1>a. /\ InAge \in Nat /\ OutAge \in Nat /\ LoopAge \in Nat /\ StallAge \in Nat
      /\ late \in Nat /\ late <= RestTime /\ RestTime \in Nat
      /\ KeepAlive \in Nat /\ KeepAlive >= 1 /\ SocketTimeout \in Nat /\ SocketTimeout >= 1
      /\ Wrap \in Nat /\ Wrap > 2 * KeepAlive + SocketTimeout + RestTime + 2
  BY Numbers
<1>b. /\ Elapsed(lastIn) = InAge /\ Elapsed(since) = StallAge
      /\ Due <=> InAge > KeepAlive \/ OutAge > KeepAlive
      /\ lastIn = lastOut => InAge = OutAge
  BY Compared
<1>c. now' = now =>
        /\ lastIn' = lastIn => InAge' = InAge
        /\ lastIn' = now => InAge' = 0
        /\ lastIn' = t => InAge' = LoopAge
        /\ lastOut' = lastOut => OutAge' = OutAge
        /\ lastOut' = now => OutAge' = 0
        /\ t' = t => LoopAge' = LoopAge
        /\ t' = now => LoopAge' = 0
        /\ since' = since => StallAge' = StallAge
        /\ since' = now => StallAge' = 0
  BY ClockStands
<1>d. ~sock => ~path
  BY TypeParts DEF SocketType
<1>e. pc = "connecting" <=> call \in {"connack", "answer"}
  BY TypeParts DEF SocketType
<1> USE <1>a, <1>b, <1>c
<1>1. CASE TimePasses
  <2>1. /\ InAge + 1 < Wrap => InAge' = InAge + 1
        /\ OutAge + 1 < Wrap => OutAge' = OutAge + 1
        /\ LoopAge + 1 < Wrap => LoopAge' = LoopAge + 1
        /\ StallAge + 1 < Wrap => StallAge' = StallAge + 1
    BY <1>1, ClockTicks
  <2>2. /\ sock' = sock /\ path' = path /\ call' = call /\ ~polled' /\ inbox' = inbox
        /\ partial' = partial /\ lastIn' = lastIn /\ lastOut' = lastOut /\ Slow' = Slow
        /\ late' = IF path /\ partial THEN late + 1 ELSE 0
        /\ call \in {"none", "connack", "answer", "stalled"}
    BY <1>1 DEF TimePasses, Waiting, Slow
  <2>3. SUFFICES ASSUME sock PROVE ConnectClock' /\ LoopClock' /\ IdleClock'
    BY <2>2 DEF ClockInv
  <2>4. CASE call = "none"
    BY <1>1, <2>1, <2>2, <2>3, <2>4
       DEF TimePasses, Waiting, ClockInv, ConnectClock, LoopClock, IdleClock
  <2>5. CASE call = "connack"
    <3>1. inbox = <<>> /\ InAge < SocketTimeout
      BY <1>1, <2>5 DEF TimePasses, Waiting
    <3>2. ~Slow
      BY <3>1, EmptySeq DEF Slow
    <3>3. InAge' = InAge + 1 /\ lastIn = lastOut
      BY <2>1, <2>3, <2>5, <3>1 DEF ClockInv, ConnectClock
    <3> QED
      BY <2>2, <2>5, <3>1, <3>2, <3>3 DEF ConnectClock, LoopClock, IdleClock
  <2>6. CASE call = "answer"
    <3>1. Slow /\ partial /\ lastIn = lastOut /\ StallAge < SocketTimeout
      BY <1>1, <2>3, <2>6 DEF TimePasses, Waiting, Slow, ClockInv, ConnectClock
    <3>2. path => InAge <= SocketTimeout + late /\ late' = late + 1
      BY <2>2, <2>3, <2>6, <3>1 DEF ClockInv, ConnectClock
    <3>3. StallAge' = StallAge + 1 /\ (path => InAge' = InAge + 1)
      BY <2>1, <3>1, <3>2
    <3> QED
      BY <2>2, <2>6, <3>1, <3>2, <3>3 DEF ConnectClock, LoopClock, IdleClock
  <2>7. CASE call = "stalled"
    <3>1. Slow /\ partial /\ StallAge < SocketTimeout /\ StallAge <= LoopAge
      BY <1>1, <2>3, <2>7 DEF TimePasses, Waiting, Slow, ClockInv, LoopClock
    <3>2. /\ LoopAge <= InAge /\ LoopAge <= OutAge
          /\ InAge <= KeepAlive + LoopAge /\ OutAge <= KeepAlive + LoopAge
          /\ path => LoopAge <= late
          /\ ~path => LoopAge <= RestTime + StallAge
      BY <2>3, <2>7 DEF ClockInv, LoopClock
    <3>3. path => StallAge + 1 < SocketTimeout /\ late' = late + 1
      BY <1>1, <2>2, <2>7, <3>1 DEF TimePasses, InTime, Waiting
    <3>4. /\ StallAge' = StallAge + 1 /\ LoopAge' = LoopAge + 1
          /\ InAge' = InAge + 1 /\ OutAge' = OutAge + 1
      BY <2>1, <3>1, <3>2
    <3> QED
      BY <2>2, <2>7, <3>1, <3>2, <3>3, <3>4 DEF ConnectClock, LoopClock, IdleClock
  <2> QED
    BY <2>2, <2>4, <2>5, <2>6, <2>7
<1>2. CASE Connect \/ ConnectStalls
  BY <1>2, <1>e DEF Connect, ConnectStalls, ConnectFails, ConnectSends, ConnectWaits, Slow,
     ClockInv, ConnectClock, LoopClock, IdleClock
<1>3. CASE ConnectReturns
  BY <1>3, <1>e DEF ConnectReturns, ConnectAccepted, ConnectRefused, ConnectTimeout,
     ConnectGivesUp, ConnectReads, Close, ClockInv, ConnectClock, LoopClock, IdleClock
<1>4. CASE SubscribeNext
  BY <1>4 DEF SubscribeNext, Subscribe, NotConnected, Write, ClockInv, ConnectClock,
     LoopClock, IdleClock
<1>5. CASE Loop /\ KeepAliveStep
  BY <1>5 DEF Loop, KeepAliveStep, LoopNotConnected, NotConnected, LoopTimeout, LoopPing,
     LoopNotDue, Write, Close, ClockInv, ConnectClock, LoopClock, IdleClock
<1>6. CASE Loop /\ ReadStep
  <2>1. CASE ReadNothing
    BY <1>6, <2>1 DEF Loop, ReadNothing, ClockInv, ConnectClock, LoopClock, IdleClock
  <2>2. CASE ReadTooLong \/ ReadSuback \/ ReadPingresp
    BY <1>6, <2>2 DEF Loop, ReadTooLong, ReadSuback, ReadPingresp, Read, ClockInv,
       ConnectClock, LoopClock, IdleClock
  <2>3. CASE ReadWaits
    BY <1>6, <2>3 DEF Loop, ReadWaits, Slow, ClockInv, ConnectClock, LoopClock, IdleClock
  <2>4. CASE ReadGivesUp
    BY <1>6, <2>4 DEF Loop, ReadGivesUp, ClockInv, ConnectClock, LoopClock, IdleClock
  <2> QED
    BY <1>6, <2>1, <2>2, <2>3, <2>4 DEF ReadStep
<1>7. CASE HandleMessage
  BY <1>7 DEF HandleMessage, ReadPublish, Read, ClockInv, ConnectClock, LoopClock, IdleClock
<1>8. CASE (Answer \/ OtherPublishes) /\ UNCHANGED <<pc, machine>>
  <2>1. /\ ~partial /\ inbox' # <<>> /\ ~Slow /\ late' = 0
        /\ Slow' => inbox = <<>>
        /\ UNCHANGED <<now, lastIn, lastOut, t, since, call, polled, path, sock, pc>>
    <3>1. PICK p \in Packets : Arrives(p)
      <4>1. CASE Answer
        <5>1. Head(owed) \in Answers
          BY <4>1, TypeParts, HeadTailProperties DEF Answer, PacketType
        <5> QED
          BY <4>1, <5>1 DEF Answer, Answers, Packets
      <4>2. CASE OtherPublishes
        <5>1. subs \cup {"long"} \subseteq Packets
          BY TypeParts DEF FlagType, Packets
        <5> QED
          BY <4>2, <5>1 DEF OtherPublishes
      <4> QED
        BY <1>8, <4>1, <4>2
    <3>2. PacketType
      BY TypeParts
    <3>3. inbox' # <<>> /\ (Slow' => inbox = <<>>)
      <4>1. inbox \in Seq(Packets) /\ Len(inbox) \in Nat /\ inbox' = Append(inbox, p)
        BY <3>1, <3>2, LenProperties DEF PacketType, Arrives
      <4>2. Len(inbox') = Len(inbox) + 1
        BY <4>1, AppendProperties
      <4>3. inbox' # <<>>
        BY <4>1, <4>2, EmptySeq
      <4>4. Len(inbox) = 0 => inbox = <<>>
        BY <4>1, EmptySeq
      <4> QED
        BY <4>1, <4>2, <4>3, <4>4 DEF Slow
    <3> QED
      BY <1>8, <3>1, <3>3 DEF Answer, OtherPublishes, Arrives, Slow
  <2> QED
    BY <2>1 DEF ClockInv, ConnectClock, LoopClock, IdleClock
<1>9. CASE (MoreArrives \/ RestArrives) /\ UNCHANGED <<pc, machine>>
  <2>1. CASE MoreArrives
    BY <1>9, <2>1 DEF MoreArrives, Waiting, Slow, ClockInv, ConnectClock, LoopClock, IdleClock
  <2>2. CASE RestArrives
    <3>1. /\ path /\ sock /\ inbox # <<>> /\ inbox' = inbox /\ ~Slow'
          /\ \/ call = "answer" /\ call' = "connack"
             \/ call = "stalled" /\ call' = "read"
             \/ call \notin {"answer", "stalled"} /\ call' = call
          /\ UNCHANGED <<now, lastIn, lastOut, t, since, polled, path, sock, pc>>
      <4>1. inbox # <<>>
        BY <2>2, TypeParts, EmptySeq DEF RestArrives, PacketType
      <4> QED
        BY <1>9, <1>d, <2>2, <4>1 DEF RestArrives, Waiting, Slow
    <3> QED
      BY <3>1 DEF ClockInv, ConnectClock, LoopClock, IdleClock
  <2> QED
    BY <1>9, <2>1, <2>2
<1>10. CASE (PathDies \/ PeerCloses) /\ UNCHANGED <<pc, machine>>
  BY <1>10 DEF PathDies, PeerCloses, Close, Slow, ClockInv, ConnectClock, LoopClock, IdleClock
<1>11. CASE Restart
  BY <1>11 DEF Restart, Close, ClockInv
<1>12. CASE UNCHANGED vars
  BY <1>12 DEF vars, client, Slow, ClockInv, ConnectClock, LoopClock, IdleClock
<1> QED
  BY <1>1, <1>2, <1>3, <1>4, <1>5, <1>6, <1>7, <1>8, <1>9, <1>10, <1>11, <1>12
     DEF Next, Loop, Environment

-----------------------------------------------------------------------------
(* Packets that wait to be read.                                            *)

(* Reading one moves the others up.                                         *)
LEMMA TailAt ==
    ASSUME PacketType, inbox # <<>>, inbox' = Tail(inbox)
    PROVE  /\ Len(inbox) \in Nat /\ Len(inbox) >= 1 /\ Len(inbox') = Len(inbox) - 1
           /\ Head(inbox) = inbox[1]
           /\ \A i \in 1..Len(inbox') : inbox'[i] = inbox[i + 1]
<1>1. inbox \in Seq(Packets)
  BY DEF PacketType
<1>2. /\ Head(inbox) = inbox[1] /\ Len(Tail(inbox)) = Len(inbox) - 1
      /\ \A i \in 1..Len(Tail(inbox)) : Tail(inbox)[i] = inbox[i + 1]
  BY <1>1, HeadTailProperties
<1>3. Len(inbox) \in Nat /\ Len(inbox) # 0
  BY <1>1, LenProperties, EmptySeq
<1> QED
  BY <1>2, <1>3

(* One that arrives is behind them.                                         *)
LEMMA ArrivesAt ==
    ASSUME PacketType, NEW p \in Packets, Arrives(p)
    PROVE  /\ Len(inbox) \in Nat /\ Len(inbox') = Len(inbox) + 1
           /\ Len(inbox) < InboxSize
           /\ \A i \in 1..Len(inbox) : inbox'[i] = inbox[i]
           /\ inbox'[Len(inbox) + 1] = p
<1>1. inbox \in Seq(Packets) /\ Len(inbox) \in Nat
  BY LenProperties DEF PacketType
<1> QED
  BY <1>1, AppendProperties DEF Arrives

-----------------------------------------------------------------------------
(* The client notices.                                                      *)

(* As long as the path works there is nothing to account for.               *)
LEMMA NotDead ==
    ASSUME TypeOK, deadFor = 0
    PROVE  DeadInv
<1>1. /\ InAge \in Nat /\ StallAge \in Nat /\ Len(inbox) \in Nat /\ Len(inbox) <= InboxSize
      /\ KeepAlive \in Nat /\ InboxSize \in Nat
  BY Numbers
<1> QED
  BY <1>1 DEF DeadInv

(* A dead path stays within the account.                                    *)
LEMMA StepDead ==
    ASSUME SocketTimeout <= KeepAlive,
           TypeOK, TypeOK', ClockInv, DeadInv, [Next]_vars
    PROVE  DeadInv'
<1> USE DEF stamps, broker, incoming, link
<1>a. /\ InAge \in Nat /\ OutAge \in Nat /\ LoopAge \in Nat /\ StallAge \in Nat
      /\ deadFor \in Nat /\ Len(inbox) \in Nat /\ Len(inbox) <= InboxSize
      /\ KeepAlive \in Nat /\ KeepAlive >= 1 /\ SocketTimeout \in Nat /\ RestTime \in Nat
      /\ InboxSize \in Nat /\ InboxSize >= 1
      /\ Wrap \in Nat /\ Wrap > 2 * KeepAlive + SocketTimeout + RestTime + 2
  BY Numbers
<1>b. /\ Elapsed(lastIn) = InAge /\ Elapsed(since) = StallAge
      /\ Due <=> InAge > KeepAlive \/ OutAge > KeepAlive
  BY Compared
<1>c. now' = now =>
        /\ lastIn' = lastIn => InAge' = InAge
        /\ lastIn' = now => InAge' = 0
        /\ lastIn' = t => InAge' = LoopAge
        /\ since' = since => StallAge' = StallAge
        /\ since' = now => StallAge' = 0
  BY ClockStands
<1>d. inbox # <<>> <=> Len(inbox) >= 1
  BY TypeParts, EmptySeq, LenProperties DEF PacketType
<1>e. ~sock => ~path /\ inbox = <<>>
  BY TypeParts DEF SocketType
<1>f. inbox # <<>> /\ inbox' = Tail(inbox) =>
        /\ Len(inbox') = Len(inbox) - 1
        /\ inbox' # <<>> => Len(inbox) >= 2
  BY TypeParts, TailAt, EmptySeq DEF PacketType
<1>g. Len(inbox') \in Nat /\ Len(inbox') <= InboxSize
  <2>1. PacketType'
    BY TypeParts, PTL
  <2> QED
    BY <2>1, LenProperties DEF PacketType
<1>h. pc = "connecting" <=> call \in {"connack", "answer"}
  BY TypeParts DEF SocketType
<1> USE <1>a, <1>b, <1>c, <1>d, <1>e
<1>1. CASE TimePasses
  <2>1. /\ InAge + 1 < Wrap => InAge' = InAge + 1
        /\ StallAge + 1 < Wrap => StallAge' = StallAge + 1
    BY <1>1, ClockTicks
  <2>2. /\ UNCHANGED <<sock, path, call, inbox, pingOutstanding>> /\ ~polled'
        /\ deadFor' = IF sock /\ ~path THEN deadFor + 1 ELSE 0
        /\ call = "none" => polled
        /\ call = "connack" => inbox = <<>> /\ InAge < SocketTimeout
        /\ call \in {"answer", "stalled"} => StallAge < SocketTimeout
        /\ call # "read"
    BY <1>1 DEF TimePasses, Waiting
  <2> QED
    BY <2>1, <2>2 DEF ClockInv, ConnectClock, IdleClock, DeadInv
<1>2. CASE Connect \/ ConnectStalls
  <2>1. ConnectStalls => deadFor' = 0
    BY <1>h DEF ConnectStalls, ConnectWaits, Slow, DeadInv
  <2>2. Connect => deadFor' = 0
    BY DEF Connect, ConnectFails, ConnectSends, DeadInv
  <2>3. (TypeOK /\ deadFor = 0)' => DeadInv'
    BY NotDead, PTL
  <2> QED
    BY <1>2, <2>1, <2>2, <2>3
<1>3. CASE ConnectReturns
  BY <1>3, <1>f DEF ConnectReturns, ConnectAccepted, ConnectRefused, ConnectTimeout,
     ConnectGivesUp, ConnectReads, Close, DeadInv
<1>4. CASE SubscribeNext
  BY <1>4 DEF SubscribeNext, Subscribe, NotConnected, Write, DeadInv
<1>5. CASE Loop /\ KeepAliveStep
  BY <1>5 DEF Loop, KeepAliveStep, LoopNotConnected, NotConnected, LoopTimeout,
     LoopPing, LoopNotDue, Write, Close, DeadInv
<1>6. CASE Loop /\ ReadStep
  <2>1. CASE ReadNothing
    BY <1>6, <2>1 DEF Loop, ReadNothing, ClockInv, LoopClock, DeadInv
  <2>2. CASE ReadTooLong
    BY <1>6, <2>2, <1>f DEF Loop, ReadTooLong, Read, ClockInv, LoopClock, DeadInv
  <2>6. CASE ReadSuback
    BY <1>6, <2>6, <1>f DEF Loop, ReadSuback, Read, ClockInv, LoopClock, DeadInv
  <2>3. CASE ReadPingresp
    BY <1>6, <2>3, <1>f DEF Loop, ReadPingresp, Read, ClockInv, LoopClock, DeadInv
  <2>4. CASE ReadWaits
    BY <1>6, <2>4 DEF Loop, ReadWaits, Slow, ClockInv, LoopClock, DeadInv
  <2>5. CASE ReadGivesUp
    BY <1>6, <2>5 DEF Loop, ReadGivesUp, ClockInv, LoopClock, DeadInv
  <2> QED
    BY <1>6, <2>1, <2>2, <2>3, <2>4, <2>5, <2>6 DEF ReadStep
<1>7. CASE HandleMessage
  BY <1>7, <1>f DEF HandleMessage, ReadPublish, Read, ClockInv, LoopClock, DeadInv
<1>8. CASE Environment /\ ~TimePasses
  <2>1. CASE PeerCloses
    BY <2>1 DEF PeerCloses, Close, DeadInv
  <2>2. CASE ~PeerCloses
    <3>1. /\ path /\ deadFor' = deadFor
          /\ UNCHANGED <<sock, polled, pingOutstanding>>
      BY <1>8, <2>2 DEF Environment, Answer, OtherPublishes, MoreArrives, RestArrives, PathDies
    <3>2. deadFor' = 0
      BY <3>1 DEF DeadInv
    <3>3. (TypeOK /\ deadFor = 0)' => DeadInv'
      BY NotDead, PTL
    <3> QED
      BY <3>2, <3>3
  <2> QED
    BY <2>1, <2>2
<1>9. CASE Restart
  BY <1>9 DEF Restart, Close, DeadInv
<1>10. CASE UNCHANGED vars
  BY <1>10 DEF vars, client, DeadInv
<1> QED
  BY <1>1, <1>2, <1>3, <1>4, <1>5, <1>6, <1>7, <1>8, <1>9, <1>10 DEF Next, Loop

(* The initial state satisfies all of them.                                 *)
LEMMA InitClock == Init => ClockInv /\ DeadInv /\ HeardInv
<1>1. 0 \in Nat /\ 0 <= 0 /\ 0 + 0 <= 0 + 0
  OBVIOUS
<1> QED
  BY <1>1, EmptySeq DEF Init, ClientInit, ClockInv, DeadInv, HeardInv

(* Stamps never grow too old.                                               *)
LEMMA ClockCorrect == Spec => [](TypeOK /\ ClockInv)
<1>1. TypeOK /\ ClockInv /\ [Next]_vars => (TypeOK /\ ClockInv)'
  BY StepType, StepClock
<1> QED
  BY <1>1, InitType, InitClock, PTL DEF Spec

(* A connection over which nothing comes through any more is given up       *)
(* within two keep-alive intervals of the last packet that was read, for    *)
(* any keep-alive no shorter than the socket timeout (both are 15 seconds   *)
(* in PubSubClient.h).  With a longer socket timeout a read that stalls     *)
(* does put it off.                                                         *)
THEOREM NoticesDeadLink ==
    ASSUME SocketTimeout <= KeepAlive
    PROVE  Spec => []DeadLinkIsNoticed
<1>1. TypeOK /\ TypeOK' /\ ClockInv /\ DeadInv /\ [Next]_vars => DeadInv'
  BY StepDead
<1>2. TypeOK /\ ClockInv /\ DeadInv => DeadLinkIsNoticed
  <2> SUFFICES ASSUME TypeOK, ClockInv, DeadInv PROVE DeadLinkIsNoticed
    OBVIOUS
  <2>1. call \in {"none", "connack", "answer", "read", "stalled"}
    BY TypeParts DEF SocketType
  <2>2. inbox = <<>> \/ Len(inbox) >= 1
    BY TypeParts, EmptySeq, LenProperties DEF PacketType
  <2>3. /\ InAge \in Nat /\ LoopAge \in Nat /\ StallAge \in Nat
        /\ deadFor \in Nat /\ Len(inbox) \in Nat /\ RestTime \in Nat
        /\ KeepAlive \in Nat /\ KeepAlive >= 1 /\ SocketTimeout \in Nat /\ InboxSize \in Nat
    BY Numbers
  <2>4. /\ sock /\ call = "connack" => deadFor <= SocketTimeout
        /\ sock /\ call \in {"answer", "stalled"} => deadFor <= InboxSize + SocketTimeout
    BY <2>2, <2>3 DEF ClockInv, ConnectClock, LoopClock, DeadInv
  <2> QED
    BY <2>1, <2>2, <2>3, <2>4 DEF DeadInv, DeadLinkIsNoticed
<1> QED
  BY <1>1, <1>2, InitClock, ClockCorrect, PTL DEF Spec

-----------------------------------------------------------------------------
(* The broker hears of the device.                                          *)

(* What is written on a working path reaches the broker.                    *)
LEMMA StepHeard ==
    ASSUME TypeOK, ClockInv, HeardInv, [Next]_vars
    PROVE  HeardInv'
<1> USE DEF stamps, broker, incoming, link
<1>a. /\ InAge \in Nat /\ OutAge \in Nat /\ LoopAge \in Nat /\ silence \in Nat
      /\ late \in Nat /\ late <= RestTime /\ RestTime \in Nat
      /\ KeepAlive \in Nat /\ KeepAlive >= 1 /\ SocketTimeout \in Nat
      /\ Wrap \in Nat /\ Wrap > 2 * KeepAlive + SocketTimeout + RestTime + 2
  BY Numbers
<1>b. lastIn = lastOut => InAge = OutAge
  BY Compared
<1>c. now' = now =>
        /\ lastOut' = lastOut => OutAge' = OutAge
        /\ lastOut' = now => OutAge' = 0
  BY ClockStands
<1>d. ~sock => ~path
  BY TypeParts DEF SocketType
<1> USE <1>a, <1>c, <1>d
<1>1. CASE TimePasses
  <2>1. OutAge + 1 < Wrap => OutAge' = OutAge + 1
    BY <1>1, ClockTicks
  <2>2. path => OutAge + 1 < Wrap
    BY <1>1, <1>b DEF TimePasses, Waiting, ClockInv, ConnectClock, LoopClock, IdleClock
  <2>3. path' = path /\ silence' = IF path THEN silence + 1 ELSE 0
    BY <1>1 DEF TimePasses
  <2> QED
    BY <2>1, <2>2, <2>3 DEF HeardInv
<1>2. CASE Connect \/ ConnectStalls \/ ConnectReturns
  BY <1>2 DEF Connect, ConnectStalls, ConnectFails, ConnectSends, ConnectWaits, ConnectReturns,
     ConnectAccepted, ConnectRefused, ConnectTimeout, ConnectGivesUp, Close, HeardInv
<1>3. CASE SubscribeNext
  BY <1>3 DEF SubscribeNext, Subscribe, NotConnected, Write, HeardInv
<1>4. CASE Loop \/ HandleMessage
  BY <1>4 DEF Loop, KeepAliveStep, ReadStep, LoopNotConnected, LoopTimeout, LoopPing,
     LoopNotDue, Write, Close, ReadNothing, ReadTooLong, ReadSuback, ReadPingresp,
     ReadWaits, ReadGivesUp, HandleMessage, ReadPublish, Read, HeardInv
<1>5. CASE Environment /\ ~TimePasses
  BY <1>5 DEF Environment, Answer, OtherPublishes, MoreArrives, RestArrives, PathDies,
     PeerCloses, Close, HeardInv
<1>6. CASE Restart \/ UNCHANGED vars
  BY <1>6 DEF Restart, Close, vars, client, HeardInv
<1> QED
  BY <1>1, <1>2, <1>3, <1>4, <1>5, <1>6 DEF Next

(* A device whose packets get through is silent for longer than the         *)
(* keep-alive by no more than one unit of time and what one packet takes to *)
(* come in, if connect() waits no longer than that for an answer to begin.  *)
(* A broker that allows one and a half keep-alive intervals hears of it in  *)
(* time if a packet comes in within less than half of one.                  *)
THEOREM IsHeardInTime ==
    ASSUME SocketTimeout <= KeepAlive + 1
    PROVE  Spec => []BrokerHearsInTime
<1>1. TypeOK /\ ClockInv /\ HeardInv /\ [Next]_vars => HeardInv'
  BY StepHeard
<1>2. TypeOK /\ ClockInv /\ HeardInv => BrokerHearsInTime
  <2> SUFFICES ASSUME TypeOK, ClockInv, HeardInv PROVE BrokerHearsInTime
    OBVIOUS
  <2>1. call \in {"none", "connack", "answer", "read", "stalled"} /\ (path => sock)
    BY TypeParts DEF SocketType
  <2>2. lastIn = lastOut => InAge = OutAge
    BY Compared
  <2>3. /\ InAge \in Nat /\ OutAge \in Nat /\ LoopAge \in Nat /\ silence \in Nat
        /\ late \in Nat /\ late <= RestTime /\ RestTime \in Nat
        /\ KeepAlive \in Nat /\ SocketTimeout \in Nat
    BY Numbers
  <2>4. path => OutAge <= KeepAlive + 1 + RestTime
    BY <2>1, <2>2, <2>3 DEF ClockInv, ConnectClock, LoopClock, IdleClock
  <2> QED
    BY <2>3, <2>4 DEF HeardInv, BrokerHearsInTime
<1> QED
  BY <1>1, <1>2, InitClock, ClockCorrect, PTL DEF Spec

-----------------------------------------------------------------------------
(* setup() leaves nothing behind.                                           *)

(* Answers that are owed, as they are written and delivered.                *)
LEMMA OwedFacts ==
    /\ <<>> \o <<"SUBACK">> = <<"SUBACK">> /\ <<>> \o <<"PINGRESP">> = <<"PINGRESP">>
    /\ <<"SUBACK">> \o <<"SUBACK">> = <<"SUBACK", "SUBACK">>
    /\ Head(<<"SUBACK">>) = "SUBACK" /\ Tail(<<"SUBACK">>) = <<>>
    /\ Head(<<"SUBACK", "SUBACK">>) = "SUBACK" /\ Tail(<<"SUBACK", "SUBACK">>) = <<"SUBACK">>
    /\ Head(<<"PINGRESP">>) = "PINGRESP" /\ Tail(<<"PINGRESP">>) = <<>>
    /\ <<"SUBACK">> # <<>> /\ <<"SUBACK", "SUBACK">> # <<>> /\ <<"PINGRESP">> # <<>>
    /\ <<"SUBACK">> # <<"SUBACK", "SUBACK">> /\ <<"SUBACK">> # <<"PINGRESP">>
<1>1. <<>> \o <<"SUBACK">> = <<"SUBACK">>
  OBVIOUS
<1>2. <<>> \o <<"PINGRESP">> = <<"PINGRESP">>
  OBVIOUS
<1>3. <<"SUBACK">> \o <<"SUBACK">> = <<"SUBACK", "SUBACK">>
  <2> DEFINE one == <<"SUBACK">>
             two == <<"SUBACK", "SUBACK">>
  <2>1. one \in Seq(Answers) /\ Len(one) = 1 /\ one[1] = "SUBACK"
    BY DEF Answers
  <2>2. two \in Seq(Answers) /\ Len(two) = 2 /\ two[1] = "SUBACK" /\ two[2] = "SUBACK"
    BY DEF Answers
  <2> HIDE DEF one, two
  <2>3. /\ one \o one \in Seq(Answers) /\ Len(one \o one) = 2
        /\ (one \o one)[1] = "SUBACK" /\ (one \o one)[2] = "SUBACK"
    <3>1. /\ one \o one \in Seq(Answers) /\ Len(one \o one) = Len(one) + Len(one)
          /\ \A i \in 1 .. Len(one) + Len(one) :
                (one \o one)[i] = IF i <= Len(one) THEN one[i] ELSE one[i - Len(one)]
      BY <2>1, ConcatProperties, Zenon
    <3>2. 1 \in 1 .. Len(one) + Len(one) /\ 2 \in 1 .. Len(one) + Len(one)
      BY <2>1
    <3>3. (one \o one)[1] = one[1] /\ (one \o one)[2] = one[2 - Len(one)]
      BY <2>1, <3>1, <3>2
    <3>4. one[2 - Len(one)] = one[1]
      BY <2>1
    <3> QED
      BY <2>1, <3>1, <3>3, <3>4
  <2>4. \A i \in 1..2 : (one \o one)[i] = two[i]
    BY <2>2, <2>3
  <2>5. one \o one = two
    BY <2>2, <2>3, <2>4, SeqEqual
  <2> QED
    BY <2>5 DEF one, two
<1>4. Head(<<"SUBACK">>) = "SUBACK" /\ Tail(<<"SUBACK">>) = <<>>
  OBVIOUS
<1>5. Head(<<"SUBACK", "SUBACK">>) = "SUBACK"
  OBVIOUS
<1>6. Tail(<<"SUBACK", "SUBACK">>) = <<"SUBACK">>
  OBVIOUS
<1>7. Head(<<"PINGRESP">>) = "PINGRESP" /\ Tail(<<"PINGRESP">>) = <<>>
  OBVIOUS
<1>8. <<"SUBACK">> # <<>> /\ <<"SUBACK", "SUBACK">> # <<>> /\ <<"PINGRESP">> # <<>>
  OBVIOUS
<1>9. <<"SUBACK">> # <<"SUBACK", "SUBACK">>
  OBVIOUS
<1>10. <<"SUBACK">> # <<"PINGRESP">>
  OBVIOUS
<1> QED
  BY <1>1, <1>2, <1>3, <1>4, <1>5, <1>6, <1>7, <1>8, <1>9, <1>10

(* While connect() waits, its answer is all there is.                       *)
LEMMA StepConnecting ==
    ASSUME TypeOK, SetupInv, [Next]_vars, pc' = "connecting"
    PROVE  Len(owed') + Len(inbox') <= 1
<1> USE DEF stamps, broker, incoming, link
<1>a. /\ inbox \in Seq(Packets) /\ owed \in Seq(Answers)
      /\ Len(inbox) \in Nat /\ Len(owed) \in Nat
  BY TypeParts, LenProperties DEF PacketType
<1>b. ~sock => inbox = <<>>
  BY TypeParts DEF SocketType
<1>c. pc = "connecting" => Len(owed) + Len(inbox) <= 1 /\ subs = {}
  BY DEF SetupInv
<1>1. CASE Connect
  <2>1. ~sock /\ inbox' = inbox /\ owed' \in {<<"CONNACK">>, <<"REFUSED">>}
    BY <1>1 DEF Connect, ConnectSends
  <2>2. Len(<<"CONNACK">>) = 1
    OBVIOUS
  <2>3. Len(<<"REFUSED">>) = 1
    OBVIOUS
  <2>4. Len(inbox') = 0
    BY <2>1, <1>b, EmptySeq
  <2>5. Len(owed') = 1
    BY <2>1, <2>2, <2>3
  <2> QED
    BY <2>4, <2>5
<1>2. CASE Answer /\ UNCHANGED <<pc, machine>>
  <2>1. Len(owed') = Len(owed) - 1 /\ Head(owed) \in Answers
    BY <1>2, <1>a, HeadTailProperties DEF Answer
  <2>2. Len(inbox') = Len(inbox) + 1
    BY <1>2, <2>1, TypeParts, ArrivesAt DEF Answer, Answers, Packets
  <2> QED
    BY <1>2, <1>a, <1>c, <2>1, <2>2
<1>3. CASE /\ \/ OtherPublishes \/ MoreArrives \/ RestArrives
              \/ PathDies \/ PeerCloses \/ TimePasses
           /\ UNCHANGED <<pc, machine>>
  <2>2. UNCHANGED <<inbox, owed>> \/ (owed' = <<>> /\ (inbox' = inbox \/ inbox' = <<>>))
    BY <1>3, <1>c DEF OtherPublishes, MoreArrives, RestArrives, PathDies, PeerCloses,
       TimePasses, Close
  <2> QED
    BY <1>3, <1>a, <1>c, <2>2, EmptySeq
<1>4. CASE ConnectStalls \/ UNCHANGED vars
  BY <1>4, <1>c DEF ConnectStalls, ConnectWaits, vars, client
<1>5. CASE ConnectReturns \/ SubscribeNext \/ Loop \/ HandleMessage \/ Restart
  BY <1>5 DEF ConnectReturns, SubscribeNext, Loop, HandleMessage, Restart
<1> QED
  BY <1>1, <1>2, <1>3, <1>4, <1>5 DEF Next, Environment

(* Every step keeps what setup() relies on.                                 *)
LEMMA StepSetup ==
    ASSUME TypeOK, ClockInv, SetupInv, [Next]_vars
    PROVE  SetupInv'
<1> USE DEF stamps, broker, incoming, link
<1>a. /\ inbox \in Seq(Packets) /\ owed \in Seq(Answers)
      /\ Len(inbox) \in Nat /\ Len(owed) \in Nat /\ age \in Nat
      /\ (inbox # <<>> => Len(inbox) >= 1) /\ (Len(owed) = 0 => owed = <<>>)
  BY TypeParts, Numbers, LenProperties, EmptySeq DEF PacketType
<1>b. /\ ~sock => ~path /\ inbox = <<>>
      /\ pc = "connecting" <=> call \in {"connack", "answer"}
  BY TypeParts DEF SocketType
<1>c. now' = now =>
        /\ lastIn' = lastIn => InAge' = InAge
        /\ lastIn' = now => InAge' = 0
        /\ lastOut' = lastOut => OutAge' = OutAge
        /\ lastOut' = now => OutAge' = 0
  BY ClockStands
<1>1. pc' \in {"connect", "connecting"} => state' = "disconnected" /\ subs' = {} /\ ~session'
  <2>1. CASE Connect \/ ConnectStalls
    BY <2>1 DEF Connect, ConnectFails, ConnectSends, ConnectStalls, ConnectWaits, SetupInv
  <2>2. CASE ConnectReturns \/ SubscribeNext \/ Loop \/ HandleMessage
    BY <2>2 DEF ConnectReturns, SubscribeNext, Loop, HandleMessage
  <2>3. CASE Environment /\ UNCHANGED <<pc, machine>>
    BY <2>3 DEF Environment, Answer, OtherPublishes, MoreArrives, RestArrives, PathDies,
       PeerCloses, TimePasses, Close, SetupInv
  <2>4. CASE Restart \/ UNCHANGED vars
    BY <2>4 DEF Restart, Close, vars, client, SetupInv
  <2> QED
    BY <2>1, <2>2, <2>3, <2>4 DEF Next
<1>2. pc' = "connect" => ~sock'
  <2>1. CASE Connect \/ ConnectStalls \/ ConnectReturns \/ SubscribeNext \/ Loop \/ HandleMessage
    BY <2>1 DEF Connect, ConnectStalls, ConnectReturns, SubscribeNext, Loop, HandleMessage
  <2>2. CASE Environment /\ UNCHANGED <<pc, machine>>
    BY <2>2, <1>b DEF Environment, Answer, OtherPublishes, MoreArrives, RestArrives, PathDies,
       PeerCloses, TimePasses, Close, SetupInv
  <2>3. CASE Restart \/ UNCHANGED vars
    BY <2>3 DEF Restart, Close, vars, client, SetupInv
  <2> QED
    BY <2>1, <2>2, <2>3 DEF Next
<1>3. owed' = <<>> => age' = 0
  <2>1. CASE Connect \/ ConnectStalls \/ ConnectReturns
    BY <2>1 DEF Connect, ConnectFails, ConnectSends, ConnectStalls, ConnectWaits, ConnectReturns,
       ConnectReads, ConnectAccepted, ConnectRefused, ConnectTimeout, ConnectGivesUp, Close,
       SetupInv
  <2>2. CASE SubscribeNext \/ Loop \/ HandleMessage
    <3>1. \/ UNCHANGED <<owed, age>>
          \/ owed' = <<>> /\ age' = 0
          \/ \E a \in Answers : owed' = owed \o <<a>>
      BY <2>2 DEF SubscribeNext, Subscribe, Write, Loop, KeepAliveStep, ReadStep,
         LoopNotConnected, LoopTimeout, LoopPing, LoopNotDue, Close, ReadNothing, ReadTooLong,
         ReadSuback, ReadPingresp, ReadWaits, ReadGivesUp, HandleMessage, ReadPublish, Read, Answers
    <3>2. \A a \in Answers : owed \o <<a>> # <<>>
      <4> TAKE a \in Answers
      <4>1. <<a>> \in Seq(Answers) /\ Len(<<a>>) = 1
        OBVIOUS
      <4>2. Len(owed \o <<a>>) = Len(owed) + 1
        BY <1>a, <4>1, ConcatProperties
      <4> QED
        BY <1>a, <4>2, EmptySeq
    <3> QED
      BY <3>1, <3>2 DEF SetupInv
  <2>3. CASE Environment
    BY <2>3 DEF Environment, Answer, OtherPublishes, MoreArrives, RestArrives, PathDies,
       PeerCloses, TimePasses, Close, SetupInv
  <2>4. CASE Restart \/ UNCHANGED vars
    BY <2>4 DEF Restart, Close, vars, client, SetupInv
  <2> QED
    BY <2>1, <2>2, <2>3, <2>4 DEF Next
<1>4. path' /\ pc' \in {"lock", "unlock"} =>
        /\ ~polled' /\ call' = "none" /\ ~pingOutstanding'
        /\ InAge' = 0 /\ age' = 0
        /\ pc' = "lock" => owed' = <<>>
        /\ pc' = "unlock" => OutAge' = 0 /\ owed' \in {<<>>, <<"SUBACK">>}
  <2>1. CASE Connect
    BY <2>1, <1>b DEF Connect, ConnectFails, ConnectSends
  <2>9. CASE ConnectStalls
    BY <2>9 DEF ConnectStalls
  <2>2. CASE ConnectReturns
    <3> SUFFICES ASSUME path' PROVE /\ pc' = "lock" /\ ~polled' /\ call' = "none"
                                    /\ ~pingOutstanding' /\ InAge' = 0 /\ age' = 0
                                    /\ owed' = <<>>
      OBVIOUS
    <3>1. ConnectAccepted /\ pc = "connecting" /\ pc' = "lock"
      BY <2>2 DEF ConnectReturns, ConnectRefused, ConnectTimeout, ConnectGivesUp, Close
    <3>2. /\ inbox # <<>> /\ path /\ UNCHANGED <<polled, owed, age>>
          /\ call' = "none" /\ ~pingOutstanding' /\ now' = now /\ lastIn' = now
      BY <3>1 DEF ConnectAccepted, ConnectReads
    <3>3. ~polled /\ InAge' = 0
      BY <1>c, <3>1, <3>2 DEF ClockInv
    <3>4. Len(owed) = 0
      BY <1>a, <3>1, <3>2 DEF SetupInv
    <3> QED
      BY <1>a, <3>1, <3>2, <3>3, <3>4 DEF SetupInv
  <2>3. CASE SubscribeNext
    BY <2>3, <1>b, <1>c, OwedFacts DEF SubscribeNext, Subscribe, NotConnected, Write, SetupInv
  <2>4. CASE Loop \/ HandleMessage \/ Restart
    BY <2>4 DEF Loop, HandleMessage, Restart
  <2>5. CASE TimePasses /\ UNCHANGED <<pc, machine>>
    BY <2>5, <1>b DEF TimePasses, Waiting, SetupInv
  <2>6. CASE Answer /\ UNCHANGED <<pc, machine>>
    BY <2>6, <1>c, OwedFacts DEF Answer, SetupInv
  <2>7. CASE /\ OtherPublishes \/ MoreArrives \/ RestArrives \/ PathDies \/ PeerCloses
             /\ UNCHANGED <<pc, machine>>
    BY <2>7, <1>c DEF OtherPublishes, MoreArrives, RestArrives, Waiting, PathDies, PeerCloses,
       Close, SetupInv
  <2>8. CASE UNCHANGED vars
    BY <2>8, <1>c DEF vars, client, SetupInv
  <2> QED
    BY <2>1, <2>2, <2>3, <2>4, <2>5, <2>6, <2>7, <2>8, <2>9 DEF Next, Environment
<1> QED
  BY <1>1, <1>2, <1>3, <1>4, StepConnecting DEF SetupInv

-----------------------------------------------------------------------------
(* No false alarm.                                                          *)

(* Answers to pings among the packets, as the first packet is read...       *)
LEMMA PongsTail ==
    ASSUME PacketType, inbox # <<>>, inbox' = Tail(inbox)
    PROVE  /\ Head(inbox) = "PINGRESP" <=> 1 \in Pongs
           /\ Pongs = {} => Pongs' = {}
           /\ \A j \in 1..Len(inbox) :
                 Pongs = {j} =>
                    IF j = 1 THEN Pongs' = {} ELSE Pongs' = {j - 1} /\ j - 1 \in 1..Len(inbox')
<1>1. /\ Len(inbox) \in Nat /\ Len(inbox) >= 1 /\ Len(inbox') = Len(inbox) - 1
      /\ Head(inbox) = inbox[1]
      /\ \A i \in 1..Len(inbox') : inbox'[i] = inbox[i + 1]
  BY TailAt
<1>2. Pongs \subseteq 1..Len(inbox) /\ Pongs' \subseteq 1..Len(inbox')
  BY DEF Pongs
<1>3. \A i \in 1..Len(inbox') : i \in Pongs' <=> i + 1 \in Pongs
  BY <1>1 DEF Pongs
<1>4. Head(inbox) = "PINGRESP" <=> 1 \in Pongs
  BY <1>1 DEF Pongs
<1>5. Pongs = {} => Pongs' = {}
  BY <1>2, <1>3
<1>6. ASSUME NEW j \in 1..Len(inbox), Pongs = {j}
      PROVE  IF j = 1 THEN Pongs' = {} ELSE Pongs' = {j - 1} /\ j - 1 \in 1..Len(inbox')
  <2>1. \A i \in 1..Len(inbox') : i \in Pongs' <=> i = j - 1
    BY <1>1, <1>3, <1>6
  <2>2. CASE j = 1
    BY <1>1, <1>2, <2>1, <2>2
  <2>3. CASE j # 1
    <3>1. j - 1 \in 1..Len(inbox')
      BY <1>1, <2>3
    <3> QED
      BY <1>2, <2>1, <2>3, <3>1
  <2> QED
    BY <2>2, <2>3
<1> QED
  BY <1>4, <1>5, <1>6

(* ... and as one arrives.                                                  *)
LEMMA PongsArrive ==
    ASSUME PacketType, NEW p \in Packets, Arrives(p)
    PROVE  /\ Len(inbox) \in Nat /\ Len(inbox) < InboxSize /\ Len(inbox') = Len(inbox) + 1
           /\ p # "PINGRESP" => Pongs' = Pongs
           /\ p = "PINGRESP" => Pongs' = Pongs \cup {Len(inbox) + 1}
<1>1. /\ Len(inbox) \in Nat /\ Len(inbox') = Len(inbox) + 1
      /\ Len(inbox) < InboxSize
      /\ \A i \in 1..Len(inbox) : inbox'[i] = inbox[i]
      /\ inbox'[Len(inbox) + 1] = p
  BY ArrivesAt
<1>2. \A i \in 1..Len(inbox) : i \in Pongs' <=> i \in Pongs
  BY <1>1 DEF Pongs
<1>3. Len(inbox) + 1 \in Pongs' <=> p = "PINGRESP"
  BY <1>1 DEF Pongs
<1>4. Pongs \subseteq 1..Len(inbox) /\ Pongs' \subseteq 1..Len(inbox) + 1
  BY <1>1 DEF Pongs
<1>5. \A i : i \in 1..Len(inbox) + 1 => i \in 1..Len(inbox) \/ i = Len(inbox) + 1
  BY <1>1
<1>6. ASSUME p # "PINGRESP" PROVE Pongs' = Pongs
  <2>1. \A i : i \in Pongs' <=> i \in Pongs
    BY <1>2, <1>3, <1>4, <1>5, <1>6
  <2> QED
    BY <2>1
<1>7. ASSUME p = "PINGRESP" PROVE Pongs' = Pongs \cup {Len(inbox) + 1}
  <2>1. \A i : i \in Pongs' <=> i \in Pongs \/ i = Len(inbox) + 1
    BY <1>2, <1>3, <1>4, <1>5, <1>7
  <2> QED
    BY <2>1
<1> QED
  BY <1>1, <1>6, <1>7

(* Every step of a working connection keeps the answers in time.            *)
LEMMA StepPing ==
    ASSUME AnswerTime + InboxSize <= KeepAlive, 2 * AnswerTime <= KeepAlive,
           TypeOK, ClockInv, SetupInv, PingInv, [Next]_vars
    PROVE  PingInv'
<1> USE DEF stamps, broker, incoming, link
<1>a. /\ InAge \in Nat /\ OutAge \in Nat /\ LoopAge \in Nat /\ age \in Nat /\ age <= AnswerTime
      /\ Len(inbox) \in Nat /\ Len(inbox) <= InboxSize
      /\ KeepAlive \in Nat /\ KeepAlive >= 1 /\ SocketTimeout \in Nat
      /\ late \in Nat /\ late <= RestTime /\ RestTime \in Nat
      /\ AnswerTime \in Nat /\ InboxSize \in Nat /\ InboxSize >= 1
      /\ Wrap \in Nat /\ Wrap > 2 * KeepAlive + SocketTimeout + RestTime + 2
  BY Numbers
<1>b. Due <=> InAge > KeepAlive \/ OutAge > KeepAlive
  BY Compared
<1>c. now' = now =>
        /\ lastIn' = lastIn => InAge' = InAge
        /\ lastIn' = now => InAge' = 0
        /\ lastIn' = t => InAge' = LoopAge
        /\ lastOut' = lastOut => OutAge' = OutAge
        /\ lastOut' = now => OutAge' = 0
  BY ClockStands
<1>d. path => sock
  BY TypeParts DEF SocketType
<1>e. PacketType /\ inbox \in Seq(Packets)
  BY TypeParts DEF PacketType
<1>f. inbox' = inbox => Pongs' = Pongs
  BY DEF Pongs
<1>g. call \in {"connack", "answer"} <=> pc = "connecting"
  BY TypeParts DEF SocketType
<1> USE <1>a, <1>b, <1>c, <1>d
<1>0. CASE ConnectStalls
  BY <1>0 DEF ConnectStalls, PingInv
<1>1. CASE Connect
  <2>1. pc' # "loop" /\ pc' # "unlock" /\ (pc' = "lock" => path' = path /\ ~sock)
    BY <1>1 DEF Connect, ConnectFails, ConnectSends
  <2> QED
    BY <2>1 DEF PingInv
<1>2. CASE ConnectReturns
  <2>1. pc' = "lock" /\ (path' => inbox # <<>> /\ inbox' = Tail(inbox)) /\ pc = "connecting"
    BY <1>2 DEF ConnectReturns, ConnectReads, ConnectAccepted, ConnectRefused, ConnectTimeout,
       ConnectGivesUp, Close
  <2>2. Len(owed) \in Nat
    BY <1>e, LenProperties DEF PacketType
  <2>3. Len(inbox) <= 1
    BY <2>1, <2>2 DEF SetupInv
  <2>4. path' => Len(inbox') = 0
    BY <1>e, <2>1, <2>3, TailAt
  <2>5. path' => Pongs' = {}
    BY <2>4 DEF Pongs
  <2> QED
    BY <2>1, <2>5 DEF PingInv
<1>3. CASE SubscribeNext
  <2>1. Pongs' = Pongs
    BY <1>3, <1>f DEF SubscribeNext, Subscribe
  <2>2. CASE pc = "lock"
    BY <1>3, <2>1, <2>2 DEF SubscribeNext, Subscribe, NotConnected, Write, PingInv
  <2>3. CASE pc = "unlock" /\ path'
    <3>1. /\ path /\ pc' = "loop" /\ now' = now /\ lastIn' = lastIn /\ lastOut' = now
          /\ age' = age /\ pingOutstanding' = pingOutstanding /\ owed' = owed \o <<"SUBACK">>
      BY <1>3, <2>3 DEF SubscribeNext, Subscribe, NotConnected, Write
    <3>2. owed' \in {<<"SUBACK">>, <<"SUBACK", "SUBACK">>}
      BY <2>3, <3>1, OwedFacts DEF SetupInv
    <3>3. Quiet'
      BY <2>1, <2>3, <3>1, <3>2 DEF SetupInv, PingInv, Quiet
    <3> QED
      BY <3>1, <3>3 DEF PingInv
  <2>4. CASE pc = "unlock" /\ ~path'
    BY <2>4 DEF PingInv
  <2> QED
    BY <1>3, <2>2, <2>3, <2>4 DEF SubscribeNext
<1>4. CASE Loop /\ KeepAliveStep
  <2> SUFFICES ASSUME path' PROVE Quiet' \/ Pinged' \/ Answered'
    BY <1>4 DEF Loop, PingInv
  <2>1. Pongs' = Pongs
    BY <1>4, <1>f DEF Loop, KeepAliveStep, LoopNotConnected, LoopTimeout, LoopPing,
       LoopNotDue, Close
  <2>2. path /\ (LoopPing \/ LoopNotDue)
    BY <1>4 DEF KeepAliveStep, LoopNotConnected, NotConnected, LoopTimeout, LoopPing, LoopNotDue,
       Write, Close
  <2>3. Quiet \/ Pinged \/ Answered
    BY <1>4, <2>2 DEF Loop, PingInv
  <2>4. CASE LoopNotDue
    BY <2>1, <2>3, <2>4 DEF LoopNotDue, Quiet, Pinged, Answered
  <2>5. CASE LoopPing
    <3>1. ~pingOutstanding /\ Due
      BY <2>5 DEF LoopPing
    <3>2. Quiet /\ owed = <<>>
      BY <2>3, <3>1 DEF Quiet, Pinged, Answered
    <3>3. /\ owed' = <<"PINGRESP">> /\ pingOutstanding' /\ age' = age
          /\ InAge' = 0 /\ OutAge' = 0
      BY <2>2, <2>5, <3>2, OwedFacts DEF LoopPing, Write
    <3>4. Pinged'
      BY <2>1, <3>2, <3>3 DEF Quiet, Pinged
    <3> QED
      BY <3>4
  <2> QED
    BY <2>2, <2>4, <2>5
<1>5. CASE (Loop /\ ReadStep) \/ HandleMessage
  <2> SUFFICES ASSUME path' PROVE Quiet' \/ Pinged' \/ Answered'
    BY <1>5 DEF Loop, HandleMessage, PingInv
  <2>1. /\ path /\ pc = "loop" /\ call \in {"read", "stalled"}
        /\ now' = now /\ owed' = owed /\ age' = age
        /\ lastIn' \in {lastIn, t} /\ lastOut' \in {lastOut, now}
    BY <1>5 DEF Loop, ReadStep, ReadNothing, ReadTooLong, ReadSuback,
       ReadPingresp, ReadWaits, ReadGivesUp, Read, HandleMessage, ReadPublish
  <2>2. InAge' <= InAge /\ OutAge' <= OutAge /\ InAge' \in Nat /\ OutAge' \in Nat
    BY <2>1 DEF ClockInv, LoopClock
  <2>3. Quiet \/ Pinged \/ Answered
    BY <2>1 DEF PingInv
  <2>4. ~ReadGivesUp
    <3>1. call = "stalled" => StallAge < SocketTimeout
      BY <2>1 DEF ClockInv, LoopClock
    <3>2. StallAge \in Nat /\ Elapsed(since) = StallAge
      BY Numbers, Compared
    <3>3. SocketTimeout \in Nat
      BY Numbers
    <3>4. ReadGivesUp => call = "stalled" /\ Elapsed(since) >= SocketTimeout
      BY Zenon DEF ReadGivesUp
    <3> QED
      BY <3>1, <3>2, <3>3, <3>4
  <2>5. CASE ReadWaits
    <3>1. /\ Pongs' = Pongs /\ pingOutstanding' = pingOutstanding /\ inbox' = inbox
          /\ polled' = polled /\ call' # "none"
      BY <2>5, <1>f DEF ReadWaits
    <3>2. Slow
      BY <2>5 DEF ReadWaits
    <3>3. Answered => Answered'
      <4> SUFFICES ASSUME Answered PROVE Answered'
        OBVIOUS
      <4>1. 1 \in 1..Len(inbox) /\ Pongs = {1}
        BY <3>2 DEF Answered, Slow
      <4> QED
        BY <2>1, <3>1, <4>1 DEF Answered
    <3> QED
      BY <2>1, <2>2, <2>3, <3>1, <3>3 DEF Quiet, Pinged
  <2>6. CASE ReadNothing
    <3>1. Len(inbox) = 0
      BY <2>6, EmptySeq DEF ReadNothing
    <3>2. ~Answered
      BY <3>1 DEF Answered
    <3>3. Pongs' = Pongs /\ pingOutstanding' = pingOutstanding
      BY <2>6, <1>f DEF ReadNothing
    <3> QED
      BY <2>1, <2>2, <2>3, <3>2, <3>3 DEF Quiet, Pinged
  <2>7. CASE ReadPingresp
    <3>1. inbox # <<>> /\ inbox' = Tail(inbox) /\ Head(inbox) = "PINGRESP" /\ ~pingOutstanding'
      BY <2>7 DEF ReadPingresp, Read
    <3>2. 1 \in Pongs
      BY <1>e, <3>1, PongsTail
    <3>3. Answered
      BY <2>3, <3>2 DEF Quiet, Pinged
    <3>4. Pongs = {1} /\ 1 \in 1..Len(inbox)
      BY <3>2, <3>3 DEF Answered
    <3>5. Pongs' = {}
      BY <1>e, <3>1, <3>4, PongsTail
    <3> QED
      BY <2>1, <3>1, <3>3, <3>5 DEF Answered, Quiet
  <2>8. CASE ReadTooLong \/ ReadSuback \/ \E topic \in Topics : ReadPublish(topic)
    <3>1. /\ inbox # <<>> /\ inbox' = Tail(inbox) /\ Head(inbox) # "PINGRESP"
          /\ pingOutstanding' = pingOutstanding /\ polled'
      BY <2>8, TopicsAssumption DEF ReadTooLong, ReadSuback, ReadPublish, Read
    <3>2. 1 \notin Pongs
      BY <1>e, <3>1, PongsTail
    <3>3. Pongs = {} => Pongs' = {}
      BY <1>e, <3>1, PongsTail
    <3>4. CASE Quiet \/ Pinged
      BY <2>1, <2>2, <3>1, <3>3, <3>4 DEF Quiet, Pinged
    <3>5. CASE Answered
      <4>1. PICK j \in 1..Len(inbox) :
               /\ Pongs = {j}
               /\ \/ j = 1
                  \/ /\ InAge + j <= AnswerTime + InboxSize + (IF polled THEN 0 ELSE 1)
                     /\ OutAge + j <= AnswerTime + InboxSize + (IF polled THEN 0 ELSE 1)
        BY <3>5 DEF Answered
      <4>2. j # 1
        BY <3>2, <4>1
      <4>3. Pongs' = {j - 1} /\ j - 1 \in 1..Len(inbox')
        BY <1>e, <3>1, <4>1, <4>2, PongsTail
      <4>4. /\ InAge' + (j - 1) <= AnswerTime + InboxSize
            /\ OutAge' + (j - 1) <= AnswerTime + InboxSize
        <5>1. j \in Nat /\ InAge + j <= AnswerTime + InboxSize + 1
              /\ OutAge + j <= AnswerTime + InboxSize + 1
          BY <4>1, <4>2
        <5>2. \A a \in Nat : a <= InAge => a + (j - 1) <= AnswerTime + InboxSize
          BY <5>1
        <5>3. \A a \in Nat : a <= OutAge => a + (j - 1) <= AnswerTime + InboxSize
          BY <5>1
        <5> QED
          BY <2>2, <5>2, <5>3, Zenon
      <4>5. Answered'
        BY <2>1, <3>1, <3>5, <4>3, <4>4 DEF Answered
      <4> QED
        BY <4>5
    <3> QED
      BY <2>3, <3>4, <3>5
  <2> QED
    BY <1>5, <2>4, <2>5, <2>6, <2>7, <2>8 DEF Loop, ReadStep, HandleMessage
<1>6. CASE Answer /\ UNCHANGED <<pc, machine>>
  <2>1. /\ path /\ owed # <<>> /\ Arrives(Head(owed)) /\ owed' = Tail(owed) /\ age' = 0
        /\ now' = now /\ UNCHANGED <<stamps, call, polled, path, pc>>
    BY <1>6 DEF Answer
  <2>2. Head(owed) \in Packets
    BY <1>e, <2>1, HeadTailProperties DEF PacketType, Answers, Packets
  <2>3. /\ Len(inbox') = Len(inbox) + 1 /\ Len(inbox) < InboxSize
        /\ Head(owed) # "PINGRESP" => Pongs' = Pongs
        /\ Head(owed) = "PINGRESP" => Pongs' = Pongs \cup {Len(inbox) + 1}
    BY <1>e, <2>1, <2>2, PongsArrive
  <2>4. InAge' = InAge /\ OutAge' = OutAge
    BY <2>1
  <2>5. CASE pc \in {"lock", "unlock"}
    BY <2>1, <2>3, <2>5, OwedFacts DEF SetupInv, PingInv
  <2>6. CASE pc = "loop" /\ Quiet
    <3>1. Head(owed) = "SUBACK" /\ owed' \in {<<>>, <<"SUBACK">>}
      BY <2>1, <2>6, OwedFacts DEF Quiet
    <3>2. owed' = <<"SUBACK">> => InAge <= AnswerTime /\ OutAge <= AnswerTime
      BY <2>1, <2>6, OwedFacts DEF Quiet
    <3>3. Quiet'
      BY <2>1, <2>3, <2>4, <2>6, <3>1, <3>2 DEF Quiet
    <3> QED
      BY <2>1, <2>6, <3>3 DEF PingInv
  <2>7. CASE pc = "loop" /\ Pinged
    <3>1. Head(owed) = "PINGRESP" /\ owed' = <<>>
      BY <2>1, <2>7, OwedFacts DEF Pinged
    <3>2. Pongs' = {Len(inbox) + 1} /\ Len(inbox) + 1 \in 1..Len(inbox')
      BY <2>3, <2>7, <3>1 DEF Pinged
    <3>3. /\ InAge' + (Len(inbox) + 1) <= AnswerTime + InboxSize
          /\ OutAge' + (Len(inbox) + 1) <= AnswerTime + InboxSize
      BY <2>3, <2>4, <2>7 DEF Pinged
    <3>4. /\ InAge' + (Len(inbox) + 1) <= AnswerTime + InboxSize + (IF polled' THEN 0 ELSE 1)
          /\ OutAge' + (Len(inbox) + 1) <= AnswerTime + InboxSize + (IF polled' THEN 0 ELSE 1)
      BY <2>4, <3>3
    <3>5. Answered'
      BY <2>1, <2>7, <3>1, <3>2, <3>4 DEF Pinged, Answered
    <3> QED
      BY <2>1, <2>7, <3>5 DEF PingInv
  <2>8. CASE pc \notin {"lock", "unlock", "loop"}
    BY <2>1, <2>8 DEF PingInv
  <2>9. ~(pc = "loop" /\ Answered)
    BY <2>1 DEF Answered
  <2> QED
    BY <2>1, <2>5, <2>6, <2>7, <2>8, <2>9 DEF PingInv
<1>7. CASE OtherPublishes /\ UNCHANGED <<pc, machine>>
  <2>1. PICK p \in subs \cup {"long"} : Arrives(p)
    BY <1>7 DEF OtherPublishes
  <2>2. p \in Packets /\ p # "PINGRESP"
    BY TypeParts, TopicsAssumption DEF FlagType, Packets
  <2>3. Pongs' = Pongs /\ Len(inbox') = Len(inbox) + 1
    BY <1>e, <2>1, <2>2, PongsArrive
  <2>4. /\ path' = path /\ pc' = pc /\ polled' = polled /\ owed' = owed /\ age' = age
        /\ pingOutstanding' = pingOutstanding /\ InAge' = InAge /\ OutAge' = OutAge
    BY <1>7 DEF OtherPublishes
  <2>5. Answered => Answered'
    <3> SUFFICES ASSUME Answered PROVE Answered'
      OBVIOUS
    <3>2. call' = call
      BY <1>7 DEF OtherPublishes
    <3>1. 1..Len(inbox) \subseteq 1..Len(inbox')
      BY <2>3
    <3> QED
      BY <2>3, <2>4, <3>1, <3>2 DEF Answered
  <2>6. (Quiet => Quiet') /\ (Pinged => Pinged')
    BY <2>3, <2>4 DEF Quiet, Pinged
  <2> QED
    BY <2>3, <2>4, <2>5, <2>6 DEF PingInv
<1>8. CASE TimePasses /\ UNCHANGED <<pc, machine>>
  <2> SUFFICES ASSUME path' PROVE PingInv'
    BY DEF PingInv
  <2>1. /\ path /\ polled' = FALSE /\ owed' = owed /\ inbox' = inbox /\ pc' = pc
        /\ pingOutstanding' = pingOutstanding
        /\ age' = IF owed # <<>> THEN age + 1 ELSE 0
    BY <1>8 DEF TimePasses
  <2>2. Pongs' = Pongs
    BY <2>1, <1>f
  <2>3. CASE pc = "loop"
    <3>1. (call = "none" /\ polled) \/ call = "stalled"
      BY <1>8, <1>g, <2>3 DEF TimePasses, Waiting
    <3>2. InAge <= KeepAlive + RestTime /\ OutAge <= KeepAlive + RestTime
      BY <2>1, <3>1 DEF ClockInv, IdleClock, LoopClock
    <3>8. call' = call /\ (call = "stalled" => Len(inbox) = 1)
      <4>1. call' = call
        BY <1>8, Zenon DEF TimePasses
      <4>2. call = "stalled" => Len(inbox) = 1
        BY <2>1, Zenon DEF ClockInv, LoopClock, Slow
      <4> QED
        BY <4>1, <4>2
    <3>3. InAge' = InAge + 1 /\ OutAge' = OutAge + 1
      BY <1>8, <3>2, ClockTicks
    <3>4. Quiet \/ Pinged \/ Answered
      BY <2>1, <2>3 DEF PingInv
    <3>5. CASE Quiet
      BY <2>1, <2>2, <3>3, <3>5, OwedFacts DEF Quiet, PingInv
    <3>6. CASE Pinged
      BY <2>1, <2>2, <3>3, <3>6, OwedFacts DEF Pinged, PingInv
    <3>7. CASE Answered
      <4>1. PICK j \in 1..Len(inbox) :
               /\ Pongs = {j}
               /\ \/ j = 1 /\ call # "none"
                  \/ /\ InAge + j <= AnswerTime + InboxSize + (IF polled THEN 0 ELSE 1)
                     /\ OutAge + j <= AnswerTime + InboxSize + (IF polled THEN 0 ELSE 1)
        BY <3>7 DEF Answered
      <4>2. CASE call = "stalled"
        <5>1. j \in 1..1 /\ call' # "none"
          BY <3>8, <4>1, <4>2, Zenon
        <5>2. j = 1 /\ call' # "none"
          BY <5>1
        <5> QED
          BY <2>1, <2>2, <3>7, <4>1, <5>2 DEF Answered, PingInv
      <4>3. CASE call = "none" /\ polled
        <5>1. InAge + j <= AnswerTime + InboxSize /\ OutAge + j <= AnswerTime + InboxSize
          BY <4>1, <4>3
        <5>2. /\ InAge' + j <= AnswerTime + InboxSize + 1
              /\ OutAge' + j <= AnswerTime + InboxSize + 1
          <6> HIDE <1>b, <1>c, <1>d
          <6> QED
            BY <1>a, <3>3, <5>1
        <5> QED
          BY <2>1, <2>2, <3>7, <4>1, <5>2 DEF Answered, PingInv
      <4> QED
        BY <3>1, <4>2, <4>3
    <3> QED
      BY <3>4, <3>5, <3>6, <3>7
  <2>4. CASE pc # "loop"
    BY <2>1, <2>2, <2>4 DEF PingInv
  <2> QED
    BY <2>3, <2>4
<1>9. CASE PathDies \/ PeerCloses \/ Restart
  BY <1>9 DEF PathDies, PeerCloses, Restart, Close, PingInv
<1>10. CASE UNCHANGED vars
  <2>1. /\ Pongs' = Pongs /\ InAge' = InAge /\ OutAge' = OutAge
        /\ UNCHANGED <<path, pc, polled, owed, age, pingOutstanding, inbox, call>>
    BY <1>10, <1>f DEF vars, client
  <2>2. (Quiet => Quiet') /\ (Pinged => Pinged') /\ (Answered => Answered')
    BY <2>1 DEF Quiet, Pinged, Answered
  <2> QED
    BY <2>1, <2>2 DEF PingInv
<1>11. CASE (MoreArrives \/ RestArrives) /\ UNCHANGED <<pc, machine>>
  <2>1. /\ Pongs' = Pongs /\ InAge' = InAge /\ OutAge' = OutAge
        /\ UNCHANGED <<path, pc, polled, owed, age, pingOutstanding, inbox>>
        /\ call # "none" => call' # "none"
    BY <1>11, <1>f DEF MoreArrives, RestArrives
  <2>2. (Quiet => Quiet') /\ (Pinged => Pinged') /\ (Answered => Answered')
    BY <2>1 DEF Quiet, Pinged, Answered
  <2> QED
    BY <2>1, <2>2 DEF PingInv
<1> QED
  BY <1>0, <1>1, <1>2, <1>3, <1>4, <1>5, <1>6, <1>7, <1>8, <1>9, <1>10, <1>11
  DEF Next, Environment, Loop

(* A device that just started waits for nothing.                            *)
LEMMA InitPing == Init => SetupInv /\ PingInv
  BY DEF Init, ClientInit, SetupInv, PingInv

(* The client never gives up a connection whose broker answers within half  *)
(* a keep-alive interval, if the packets that may be in the way of the      *)
(* answer, read one in each unit of time, leave it enough of the interval.  *)
THEOREM NeverGivesUpEarly ==
    ASSUME AnswerTime + InboxSize <= KeepAlive, 2 * AnswerTime <= KeepAlive
    PROVE  Spec => NoFalseTimeout
<1>1. TypeOK /\ ClockInv /\ SetupInv /\ PingInv /\ [Next]_vars
        => SetupInv' /\ PingInv'
  BY StepSetup, StepPing
<1>2. TypeOK /\ SetupInv /\ PingInv /\ [Next]_vars
        => [state = "connected" /\ state' = "timeout" => ~path]_client
  <2> SUFFICES ASSUME TypeOK, SetupInv, PingInv, [Next]_vars,
                      state = "connected", state' = "timeout", path
               PROVE  FALSE
    BY DEF vars
  <2>1. (ConnectTimeout /\ ConnectReturns) \/ (LoopTimeout /\ Loop)
    <3>1. ~Connect /\ ~ConnectStalls /\ ~SubscribeNext /\ ~HandleMessage /\ ~Restart
      BY DEF Connect, ConnectFails, ConnectSends, ConnectStalls, ConnectWaits, SubscribeNext,
         Subscribe, NotConnected,
         HandleMessage, ReadPublish, Read, Restart
    <3>2. ~Environment /\ ~UNCHANGED vars
      BY DEF Environment, Answer, OtherPublishes, MoreArrives, RestArrives, PathDies, PeerCloses,
         TimePasses, vars, client
    <3>3. ConnectReturns => ConnectTimeout
      BY DEF ConnectReturns, ConnectAccepted, ConnectRefused, ConnectGivesUp
    <3>4. Loop => LoopTimeout
      BY DEF Loop, KeepAliveStep, ReadStep, LoopNotConnected, NotConnected, LoopPing, LoopNotDue,
         ReadNothing, ReadTooLong, ReadSuback, ReadPingresp, ReadWaits, ReadGivesUp, Read
    <3> QED
      BY <3>1, <3>2, <3>3, <3>4 DEF Next
  <2>2. ~ConnectReturns
    BY DEF ConnectReturns, SetupInv
  <2>3. Due /\ pingOutstanding /\ pc = "loop" /\ call = "none"
    BY <2>1, <2>2 DEF LoopTimeout, Loop
  <2>4. Pinged \/ Answered
    BY <2>3 DEF PingInv, Quiet
  <2>5. InAge <= KeepAlive /\ OutAge <= KeepAlive
    <3>1. /\ InAge \in Nat /\ OutAge \in Nat /\ age \in Nat /\ age <= AnswerTime
          /\ KeepAlive \in Nat /\ AnswerTime \in Nat /\ InboxSize \in Nat /\ InboxSize >= 1
      BY Numbers
    <3>2. CASE Pinged
      BY <3>1, <3>2 DEF Pinged
    <3>3. CASE Answered
      <4>1. PICK j \in 1..Len(inbox) :
               /\ InAge + j <= AnswerTime + InboxSize + (IF polled THEN 0 ELSE 1)
               /\ OutAge + j <= AnswerTime + InboxSize + (IF polled THEN 0 ELSE 1)
        BY <2>3, <3>3 DEF Answered
      <4>2. j >= 1 /\ j \in Nat
        BY Numbers
      <4>3. InAge + j <= AnswerTime + InboxSize + 1 /\ OutAge + j <= AnswerTime + InboxSize + 1
        BY <3>1, <4>1
      <4> QED
        BY <3>1, <4>2, <4>3
    <3> QED
      BY <2>4, <3>2, <3>3
  <2>6. InAge \in Nat /\ OutAge \in Nat /\ KeepAlive \in Nat
    BY Numbers
  <2>7. InAge > KeepAlive \/ OutAge > KeepAlive
    BY <2>3, Compared
  <2> QED
    BY <2>5, <2>6, <2>7
<1> QED
  BY <1>1, <1>2, InitPing, ClockCorrect, PTL DEF Spec, NoFalseTimeout
=============================================================================
