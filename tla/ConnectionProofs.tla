-------------------------- MODULE ConnectionProofs --------------------------
(***************************************************************************)
(* Proofs that Connection keeps its type, that no connection survives a    *)
(* change of the link for good, and that a connection kept is a connection *)
(* on which mqtt_connect did all its work, for any number of failures.     *)
(***************************************************************************)
EXTENDS Connection, SequenceTheorems, TLAPS

(* Wi-Fi events are reported in order and the station joins again only when *)
(* the last one has been: at most two wait for their callback.              *)
EventsFitRadio ==
    /\ wifi = "joining" => events = <<>>
    /\ wifi = "up" => events \in {<<>>, <<"GOT_IP">>}
    /\ wifi = "idle" => events \in {<<>>, <<"DISCONNECTED">>, <<"GOT_IP", "DISCONNECTED">>}
    /\ pc = "boot" => wifi = "idle" /\ events = <<>>

(* The first n steps of Setup reached the broker in the present session.    *)
Done(n) ==
    /\ \A i \in 1..n : Setup[i] \in served \/ (Setup[i] = "name" /\ ~named)
    /\ n >= 3 => seen = "1"

(* What holds on a connection whose socket works, at every step of          *)
(* mqtt_connect and after it.                                               *)
ProgressInv ==
    connected /\ path =>
        /\ session
        /\ pc = "setup" => Done(step)
        /\ Kept => Done(Len(Setup))

Typed == TypeOK /\ EventsFitRadio

-----------------------------------------------------------------------------
(* What the queue of events becomes when one is reported or called back.    *)
LEMMA EventQueues ==
    /\ Append(<<>>, "GOT_IP") = <<"GOT_IP">>
    /\ Append(<<>>, "DISCONNECTED") = <<"DISCONNECTED">>
    /\ Append(<<"GOT_IP">>, "DISCONNECTED") = <<"GOT_IP", "DISCONNECTED">>
    /\ Tail(<<"GOT_IP">>) = <<>>
    /\ Tail(<<"DISCONNECTED">>) = <<>>
    /\ Tail(<<"GOT_IP", "DISCONNECTED">>) = <<"DISCONNECTED">>
    /\ Head(<<"GOT_IP">>) = "GOT_IP"
    /\ Head(<<"DISCONNECTED">>) = "DISCONNECTED"
    /\ Head(<<"GOT_IP", "DISCONNECTED">>) = "GOT_IP"
    /\ <<"GOT_IP">> # <<>> /\ <<"DISCONNECTED">> # <<>>
    /\ <<"GOT_IP", "DISCONNECTED">> # <<>>
    /\ <<"GOT_IP">> # <<"DISCONNECTED">>
<1>1. Append(<<>>, "GOT_IP") = <<"GOT_IP">>
  OBVIOUS
<1>2. Append(<<"GOT_IP">>, "DISCONNECTED") = <<"GOT_IP", "DISCONNECTED">>
  <2> DEFINE E == {"GOT_IP", "DISCONNECTED"}
             s == Append(<<"GOT_IP">>, "DISCONNECTED")
             t == <<"GOT_IP", "DISCONNECTED">>
  <2>1. <<"GOT_IP">> \in Seq(E) /\ t \in Seq(E)
    OBVIOUS
  <2>2. s \in Seq(E) /\ Len(s) = 2 /\ s[1] = "GOT_IP" /\ s[2] = "DISCONNECTED"
    BY <2>1, AppendProperties
  <2>3. Len(t) = 2 /\ t[1] = "GOT_IP" /\ t[2] = "DISCONNECTED"
    OBVIOUS
  <2> HIDE DEF s, t
  <2>4. s = t
    BY <2>1, <2>2, <2>3, SeqEqual
  <2> QED BY <2>4 DEF s, t
<1>3. /\ Tail(<<"GOT_IP">>) = <<>>
      /\ Tail(<<"DISCONNECTED">>) = <<>>
  OBVIOUS
<1>4. Tail(<<"GOT_IP", "DISCONNECTED">>) = <<"DISCONNECTED">>
  OBVIOUS
<1>5. /\ Head(<<"GOT_IP">>) = "GOT_IP"
      /\ Head(<<"DISCONNECTED">>) = "DISCONNECTED"
      /\ Head(<<"GOT_IP", "DISCONNECTED">>) = "GOT_IP"
  OBVIOUS
<1>6. <<"GOT_IP">> # <<>> /\ <<"DISCONNECTED">> # <<>>
      /\ <<"GOT_IP", "DISCONNECTED">> # <<>>
  OBVIOUS
<1>7. <<"GOT_IP">> # <<"DISCONNECTED">>
  OBVIOUS
<1>8. Append(<<>>, "DISCONNECTED") = <<"DISCONNECTED">>
  OBVIOUS
<1> QED BY <1>1, <1>2, <1>3, <1>4, <1>5, <1>6, <1>7, <1>8

(* mqtt_connect has six steps after MQTTConnect.                            *)
LEMMA SetupHasSix ==
    /\ Len(Setup) = 6
    /\ Setup[1] # "name" /\ Setup[2] # "name" /\ Setup[3] = "online"
    /\ Setup[4] # "name" /\ Setup[5] = "name" /\ Setup[6] # "name"
    /\ Setup[6] # "online"
BY DEF Setup

(* Initially every variable has its type.                                   *)
LEMMA InitTyped == Init => Typed
<1> SUFFICES ASSUME Init PROVE Typed
  OBVIOUS
<1>1. RadioType /\ EventsFitRadio
  BY DEF Init, RadioType, EventsFitRadio
<1>2. MainType
  BY BoundsAssumption, SetupHasSix DEF Init, MainType
<1>3. ClientType
  BY DEF Init, ClientType
<1>4. BrokerType
  BY DEF Init, BrokerType
<1> QED BY <1>1, <1>2, <1>3, <1>4 DEF Typed, TypeOK

(* The radio and the event task keep the order of events.                   *)
LEMMA RadioTyped ==
    ASSUME Typed, [Next]_vars
    PROVE  (RadioType /\ EventsFitRadio)'
<1> USE DEF Typed, TypeOK, RadioType, EventsFitRadio, radio
<1>1. CASE GotIp           BY <1>1, EventQueues DEF GotIp
<1>2. CASE Disconnected
  <2>1. events' = <<"DISCONNECTED">> \/ events' = <<"GOT_IP", "DISCONNECTED">>
    BY <1>2, EventQueues DEF Disconnected
  <2> QED BY <1>2, <2>1 DEF Disconnected, Fault, ClientType, MainType
<1>3. CASE Callback
  <2>1. events' = <<>> \/ events' = <<"DISCONNECTED">>
    BY <1>3, EventQueues DEF Callback
  <2>2. bits' \subseteq {"GOT_IP", "LOST_IP"}
    BY <1>3 DEF Callback
  <2>3. wifi = "up" => events' = <<>>
    BY <1>3, EventQueues DEF Callback
  <2>4. ASSUME wifi = "idle"
        PROVE  \/ events' = <<>> /\ wifi' = "joining"
               \/ events' = <<"DISCONNECTED">> /\ wifi' = "idle"
    <3>1. CASE events = <<"DISCONNECTED">>
      <4>1. Head(events) = "DISCONNECTED" /\ Tail(events) = <<>>
        BY <3>1, EventQueues
      <4> QED BY <1>3, <2>4, <4>1 DEF Callback
    <3>2. CASE events = <<"GOT_IP", "DISCONNECTED">>
      <4>1. Head(events) = "GOT_IP" /\ Tail(events) = <<"DISCONNECTED">>
        BY <3>2, EventQueues
      <4> QED BY <1>3, <2>4, <4>1 DEF Callback
    <3> QED BY <1>3, <2>4, <3>1, <3>2 DEF Callback
  <2>5. wifi # "joining" /\ (wifi = "up" => wifi' = "up") /\ pc' = pc /\ pc # "boot"
    BY <1>3 DEF Callback
  <2> QED BY <2>1, <2>2, <2>3, <2>4, <2>5
<1>4. CASE UNCHANGED <<wifi, events>> /\ (pc' = "boot" => pc = "boot") /\ bits' \in {bits, {}}
  BY <1>4
<1>5. CASE SetStationMode  BY <1>5 DEF SetStationMode
<1>6. CASE Restart         BY <1>6 DEF Restart
<1>7. BrokerNotices \/ ClientNotices \/ ConnectionLost \/ MainStep \/ UNCHANGED vars
        => SetStationMode \/ (UNCHANGED <<wifi, events>> /\ (pc' = "boot" => pc = "boot")
                              /\ bits' \in {bits, {}})
  BY DEF BrokerNotices, ClientNotices, ConnectionLost, MainStep, CreateTask, Wait,
         Handle, Poll, Dial, Connect, StartTask, SetupStep, AfterStep, SkipName, Failed, vars
<1> QED BY <1>1, <1>2, <1>3, <1>4, <1>5, <1>6, <1>7 DEF Next

(* A fault is counted only below the bound.                                 *)
LEMMA FaultTyped ==
    ASSUME MainType, Fault \/ UNCHANGED faults
    PROVE  faults' \in 0..MaxFaults
BY BoundsAssumption DEF MainType, Fault

(* What the main task keeps for itself has its type.                        *)
LEMMA MainTyped ==
    ASSUME Typed, [Next]_vars
    PROVE  MainType'
<1> USE DEF Typed, TypeOK, MainType
<1>1. Fault \/ UNCHANGED faults
  BY DEF Next, MainStep, vars, GotIp, Disconnected, Callback, BrokerNotices, ClientNotices,
         ConnectionLost, SetStationMode, CreateTask, Wait, Handle, Reset, Poll, Dial, Connect,
         Request, StartTask, SetupStep, SetupEffect, SkipName, Failed, Restart, broker, client
<1>2. faults' \in 0..MaxFaults
  BY <1>1, FaultTyped
<1>3. CASE UNCHANGED <<taken, pc, step, named>>
  BY <1>2, <1>3
<1>4. CASE SetStationMode  BY <1>2, <1>4 DEF SetStationMode
<1>5. CASE CreateTask      BY <1>2, <1>5 DEF CreateTask
<1>6. CASE Wait            BY <1>2, <1>6 DEF Wait, RadioType
<1>7. CASE Handle          BY <1>2, <1>7 DEF Handle
<1>8. CASE Poll            BY <1>2, <1>8 DEF Poll
<1>9. CASE Dial            BY <1>2, <1>9 DEF Dial
<1>10. CASE Connect        BY <1>2, <1>10 DEF Connect
<1>11. CASE StartTask      BY <1>2, <1>11, SetupHasSix DEF StartTask
<1>12. CASE SetupStep      BY <1>2, <1>12, SetupHasSix DEF SetupStep, AfterStep
<1>13. CASE SkipName
  <2>1. step # 5
    BY <1>13, SetupHasSix DEF SkipName
  <2> QED BY <1>2, <1>13, <2>1, SetupHasSix DEF SkipName
<1>14. CASE Failed         BY <1>2, <1>14 DEF Failed
<1>15. CASE Restart        BY <1>2, <1>15, SetupHasSix DEF Restart
<1>16. GotIp \/ Disconnected \/ Callback \/ BrokerNotices \/ ClientNotices \/ ConnectionLost
          \/ UNCHANGED vars => UNCHANGED <<taken, pc, step, named>>
  BY DEF GotIp, Disconnected, Callback, BrokerNotices, ClientNotices, ConnectionLost, vars
<1> QED BY <1>3, <1>4, <1>5, <1>6, <1>7, <1>8, <1>9, <1>10, <1>11, <1>12, <1>13, <1>14,
           <1>15, <1>16 DEF Next, MainStep

(* The client's state has its type, and nobody dials while connected.       *)
LEMMA ClientTyped ==
    ASSUME Typed, [Next]_vars
    PROVE  ClientType'
<1> USE DEF Typed, TypeOK, ClientType, client
<1>1. CASE GotIp           BY <1>1 DEF GotIp
<1>2. CASE Disconnected    BY <1>2 DEF Disconnected
<1>3. CASE Callback        BY <1>3 DEF Callback
<1>4. CASE BrokerNotices   BY <1>4 DEF BrokerNotices
<1>5. CASE ClientNotices   BY <1>5 DEF ClientNotices
<1>6. CASE ConnectionLost  BY <1>6 DEF ConnectionLost
<1>7. CASE SetStationMode  BY <1>7 DEF SetStationMode
<1>8. CASE CreateTask      BY <1>8 DEF CreateTask
<1>9. CASE Wait            BY <1>9 DEF Wait
<1>10. CASE Handle         BY <1>10 DEF Handle, Reset
<1>11. CASE Poll           BY <1>11 DEF Poll
<1>12. CASE Dial           BY <1>12 DEF Dial
<1>13. CASE Connect        BY <1>13 DEF Connect, Outcome
<1>14. CASE StartTask      BY <1>14 DEF StartTask
<1>15. CASE SetupStep      BY <1>15 DEF SetupStep, AfterStep
<1>16. CASE SkipName       BY <1>16 DEF SkipName
<1>17. CASE Failed         BY <1>17 DEF Failed, Reset
<1>18. CASE Restart        BY <1>18 DEF Restart
<1>19. CASE UNCHANGED vars BY <1>19 DEF vars
<1> QED BY <1>1, <1>2, <1>3, <1>4, <1>5, <1>6, <1>7, <1>8, <1>9, <1>10, <1>11, <1>12, <1>13,
           <1>14, <1>15, <1>16, <1>17, <1>18, <1>19 DEF Next, MainStep

(* What the broker keeps has its type.                                      *)
LEMMA BrokerTyped ==
    ASSUME Typed, [Next]_vars
    PROVE  BrokerType'
<1> USE DEF Typed, TypeOK, BrokerType, broker
<1>1. CASE UNCHANGED broker  BY <1>1
<1>2. CASE BrokerNotices   BY <1>2 DEF BrokerNotices, EndSession
<1>3. CASE Handle          BY <1>3 DEF Handle, Reset
<1>4. CASE Connect         BY <1>4 DEF Connect
<1>5. CASE SetupStep
  <2>1. step + 1 \in 1..Len(Setup)
    BY <1>5, SetupHasSix DEF SetupStep, MainType
  <2> QED BY <1>5, <2>1 DEF SetupStep, SetupEffect
<1>6. CASE Failed          BY <1>6 DEF Failed, Reset
<1>7. GotIp \/ Disconnected \/ Callback \/ ClientNotices \/ ConnectionLost \/ SetStationMode
        \/ CreateTask \/ Wait \/ Poll \/ Dial \/ StartTask \/ SkipName \/ Restart
        \/ UNCHANGED vars => UNCHANGED broker
  BY DEF GotIp, Disconnected, Callback, ClientNotices, ConnectionLost, SetStationMode,
         CreateTask, Wait, Poll, Dial, StartTask, SkipName, Restart, vars
<1> QED BY <1>1, <1>2, <1>3, <1>4, <1>5, <1>6, <1>7 DEF Next, MainStep

(* Every step preserves the types.                                          *)
LEMMA NextTyped ==
    ASSUME Typed, [Next]_vars
    PROVE  Typed'
BY RadioTyped, MainTyped, ClientTyped, BrokerTyped DEF Typed, TypeOK

(* The types and the order of Wi-Fi events hold throughout.                 *)
LEMMA AlwaysTyped == Spec => []Typed
<1>1. Init => Typed
  BY InitTyped
<1>2. Typed /\ [Next]_vars => Typed'
  BY NextTyped
<1> QED BY <1>1, <1>2, PTL DEF Spec

(* Every variable keeps its type, at most two Wi-Fi events are pending, and *)
(* main_task dials only a disconnected client.                              *)
THEOREM TypeCorrect == Spec => []TypeOK
<1>1. Typed => TypeOK
  BY DEF Typed
<1> QED BY <1>1, AlwaysTyped, PTL

-----------------------------------------------------------------------------
(* While mqtt_connect waits for MQTTConnect there is no connection yet, but *)
(* a change of the link is remembered all the same.                         *)
OldInv ==
    old /\ (connected \/ pc = "connect") =>
        \/ events # <<>> \/ bits # {}
        \/ pc = "handle" /\ taken # {}

(* A step that leaves an old connection up leaves an event or a bit for it. *)
LEMMA NextResetsOld ==
    ASSUME Typed, OldInv, [Next]_vars
    PROVE  OldInv'
<1> USE DEF Typed, TypeOK, ClientType, OldInv, radio, client, broker
<1>1. CASE GotIp           BY <1>1 DEF GotIp
<1>2. CASE Disconnected    BY <1>2 DEF Disconnected
<1>3. CASE Callback        BY <1>3 DEF Callback, Started
<1>4. CASE BrokerNotices   BY <1>4 DEF BrokerNotices
<1>5. CASE ClientNotices   BY <1>5 DEF ClientNotices
<1>6. CASE ConnectionLost  BY <1>6 DEF ConnectionLost
<1>7. CASE MainStep
  <2>1. CASE SetStationMode  BY <2>1 DEF SetStationMode
  <2>2. CASE CreateTask      BY <2>2 DEF CreateTask
  <2>3. CASE Wait            BY <2>3 DEF Wait
  <2>4. CASE Handle          BY <2>4 DEF Handle, Reset
  <2>5. CASE Poll            BY <2>5 DEF Poll
  <2>6. CASE Dial            BY <2>6 DEF Dial
  <2>7. CASE Connect         BY <2>7 DEF Connect, Outcome
  <2>8. CASE StartTask       BY <2>8 DEF StartTask
  <2>9. CASE SetupStep       BY <2>9 DEF SetupStep, AfterStep
  <2>10. CASE SkipName       BY <2>10 DEF SkipName
  <2>11. CASE Failed         BY <2>11 DEF Failed, Reset
  <2> QED BY <1>7, <2>1, <2>2, <2>3, <2>4, <2>5, <2>6, <2>7, <2>8, <2>9, <2>10, <2>11 DEF MainStep
<1>8. CASE Restart         BY <1>8 DEF Restart
<1>9. CASE UNCHANGED vars  BY <1>9 DEF vars
<1> QED BY <1>1, <1>2, <1>3, <1>4, <1>5, <1>6, <1>7, <1>8, <1>9 DEF Next

(* A connection made before the link changed is on its way to mqtt_reset.   *)
THEOREM ResetsOldConnection == Spec => []OldConnectionIsReset
<1>1. Init => OldInv
  BY DEF Init, OldInv
<1>2. Typed /\ OldInv /\ [Next]_vars => OldInv'
  BY NextResetsOld
<1>3. OldInv => OldConnectionIsReset
  BY DEF OldInv, OldConnectionIsReset
<1> QED BY <1>1, <1>2, <1>3, AlwaysTyped, PTL DEF Spec

-----------------------------------------------------------------------------
(* One more step of Setup that reached the broker.                          *)
LEMMA DoneStep ==
    ASSUME Typed, Done(step), pc = "setup", UNCHANGED named,
           \/ /\ served' = served \cup {Setup[step + 1]}
              /\ seen' = IF Setup[step + 1] = "online" THEN "1" ELSE seen
           \/ Setup[step + 1] = "name" /\ ~named /\ UNCHANGED <<served, seen>>
    PROVE  /\ \A i \in 1..(step + 1) : Setup[i] \in served' \/ (Setup[i] = "name" /\ ~named')
           /\ step + 1 >= 3 => seen' = "1"
<1>1. step \in 0..5
  BY SetupHasSix DEF Typed, TypeOK, MainType
<1>2. \A i \in 1..(step + 1) : i \in 1..step \/ i = step + 1
  BY <1>1
<1>3. step + 1 >= 3 => step >= 3 \/ Setup[step + 1] = "online"
  BY <1>1, SetupHasSix
<1>4. \A i \in 1..(step + 1) : Setup[i] \in served' \/ (Setup[i] = "name" /\ ~named')
  BY <1>1, <1>2 DEF Done
<1>5. step + 1 >= 3 => seen' = "1"
  BY <1>1, <1>3, SetupHasSix DEF Done
<1> QED BY <1>4, <1>5

(* A step of mqtt_connect reached the broker, or mqtt_connect gives up.     *)
LEMMA SetupProgress ==
    ASSUME Typed, ProgressInv, SetupStep \/ SkipName
    PROVE  ProgressInv'
<1> USE DEF Typed, TypeOK, ClientType, client
<1> SUFFICES ASSUME connected', path'
             PROVE  (session /\ (pc = "setup" => Done(step)) /\ (Kept => Done(Len(Setup))))'
  BY DEF ProgressInv
<1>1. pc = "setup" /\ connected /\ path /\ UNCHANGED <<connected, path, named>>
        /\ session /\ UNCHANGED session /\ Done(step)
  BY DEF SetupStep, SetupEffect, SkipName, ProgressInv, broker
<1>2. step \in 0..5
  BY <1>1, SetupHasSix DEF MainType
<1>3. CASE pc' = "failed"
  BY <1>1, <1>3 DEF Kept
<1>4. CASE pc' # "failed"
  <2>1. \/ /\ served' = served \cup {Setup[step + 1]}
           /\ seen' = IF Setup[step + 1] = "online" THEN "1" ELSE seen
        \/ Setup[step + 1] = "name" /\ ~named /\ UNCHANGED <<served, seen>>
    BY <1>4 DEF SetupStep, SetupEffect, SkipName, Outcome, broker
  <2>2. step' = step + 1
    BY DEF SetupStep, SkipName
  <2>3. Done(step)' 
    BY <1>1, <2>1, <2>2, DoneStep DEF Done
  <2>4. pc' # "setup" => step' = Len(Setup)
    BY <1>1, <1>2, <1>4, <2>2 DEF SetupStep, SkipName, AfterStep
  <2>5. Kept' => Done(Len(Setup))'
    BY <2>3, <2>4 DEF Kept
  <2> QED BY <1>1, <2>3, <2>5
<1> QED BY <1>3, <1>4

(* Every other step of the main task preserves ProgressInv.                 *)
LEMMA MainStepProgress ==
    ASSUME Typed, ProgressInv, MainStep
    PROVE  ProgressInv'
<1> USE DEF ProgressInv, Kept, Typed, TypeOK, ClientType, radio, client, broker
<1>1. CASE SetStationMode  BY <1>1 DEF SetStationMode
<1>2. CASE CreateTask      BY <1>2 DEF CreateTask
<1>3. CASE Wait            BY <1>3 DEF Wait, Done
<1>4. CASE Handle          BY <1>4 DEF Handle, Reset, Done
<1>5. CASE Poll            BY <1>5 DEF Poll, Done
<1>6. CASE Dial            BY <1>6 DEF Dial
<1>7. CASE Connect         BY <1>7 DEF Connect, Request, Outcome
<1>8. CASE StartTask       BY <1>8 DEF StartTask, Done
<1>9. CASE SetupStep       BY <1>9, SetupProgress
<1>10. CASE SkipName       BY <1>10, SetupProgress
<1>11. CASE Failed         BY <1>11 DEF Failed, Reset
<1> QED BY <1>1, <1>2, <1>3, <1>4, <1>5, <1>6, <1>7, <1>8, <1>9, <1>10, <1>11 DEF MainStep

(* Every step preserves ProgressInv.                                        *)
LEMMA NextProgress ==
    ASSUME Typed, ProgressInv, [Next]_vars
    PROVE  ProgressInv'
<1> USE DEF ProgressInv, Kept, Done, client, broker
<1>1. CASE GotIp           BY <1>1 DEF GotIp
<1>2. CASE Disconnected    BY <1>2 DEF Disconnected
<1>3. CASE Callback        BY <1>3 DEF Callback
<1>4. CASE BrokerNotices   BY <1>4 DEF BrokerNotices
<1>5. CASE ClientNotices   BY <1>5 DEF ClientNotices
<1>6. CASE ConnectionLost  BY <1>6 DEF ConnectionLost
<1>7. CASE MainStep        BY <1>7, MainStepProgress
<1>8. CASE Restart         BY <1>8 DEF Restart
<1>9. CASE UNCHANGED vars  BY <1>9 DEF vars
<1> QED BY <1>1, <1>2, <1>3, <1>4, <1>5, <1>6, <1>7, <1>8, <1>9 DEF Next

(* A connection that main_task keeps and that works is one on which every   *)
(* subscription and message of mqtt_connect arrived, after any will.        *)
THEOREM KeepsServed == Spec => []KeptIsServed
<1>1. Init => ProgressInv
  BY DEF Init, ProgressInv
<1>2. Typed /\ ProgressInv /\ [Next]_vars => ProgressInv'
  BY NextProgress
<1>3. ProgressInv => KeptIsServed
  BY SetupHasSix DEF ProgressInv, KeptIsServed, Kept, Works, Done
<1> QED BY <1>1, <1>2, <1>3, AlwaysTyped, PTL DEF Spec
=============================================================================
