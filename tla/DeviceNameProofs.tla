-------------------------- MODULE DeviceNameProofs --------------------------
(***************************************************************************)
(* Proofs about DeviceName: its type invariant, that the queue forgets     *)
(* nothing before it was sent, that the name on flash is the name in use   *)
(* unless a store failed, that the device goes by the last acceptable name *)
(* on its topic, that it implements ConfigService, and that its two tasks  *)
(* block each other in one way only.                                       *)
(***************************************************************************)
EXTENDS DeviceName, SequenceTheorems, TLAPS

(* How far mqtt_queue_send_all has come in the queue.                       *)
QueueIndex ==
    /\ main.pc \in {"send", "sent"} => main.i <= Len(queue)
    /\ main.pc = "sent" => main.i < Len(queue)
    /\ main.pc = "clear" => main.i = Len(queue)

IInv == TypeOK /\ QueueIndex

-----------------------------------------------------------------------------
(* Facts about names and the queue.                                         *)

(* A name is a text that fits, and what a message of others is.             *)
LEMMA NameFacts ==
    /\ Name \subseteq Text /\ <<>> \in Name /\ <<>> \in Text
    /\ Payloads \subseteq Text /\ Stored \subseteq Name
    /\ \A n \in Name : Len(n) \in 0 .. NameSize - 1
<1>1. <<>> \in Name
  BY NamesAssumption, EmptySeq DEF Name
<1>2. ASSUME NEW n \in Name PROVE n \in Text /\ Len(n) \in 0 .. NameSize - 1
  <2>1. n \in Seq(Letters) /\ Len(n) < NameSize /\ Len(n) \in Nat
    BY DEF Name
  <2>2. n \in Seq(Chars)
    BY <2>1 DEF Chars
  <2> QED
    BY <2>1, <2>2, NamesAssumption DEF Text
<1> QED
  BY <1>1, <1>2, NamesAssumption

(* The bytes mqtt_publish sends are a text, whatever length it counted.     *)
LEMMA BytesType ==
    ASSUME name \in Name, NEW n \in Nat
    PROVE  Bytes(n) \in Text
<1>1. \A j \in 1..n : (IF j <= Len(name) THEN name[j] ELSE NUL) \in Chars
  <2>1. name \in Seq(Letters)
    BY DEF Name
  <2> QED
    BY <2>1, ElementOfSeq DEF Chars
<1> QED
  BY <1>1, IsASeq DEF Bytes, Text

(* A queue that is filled or full keeps its items and its bound.            *)
LEMMA QueuePublishType ==
    ASSUME QueueType, NEW item \in {"error", "name"}, QueuePublish(item)
    PROVE  /\ queue' \in Seq({"error", "name"}) /\ Len(queue') <= QueueCapacity
           /\ mutex' = mutex /\ mutex = "none"
           /\ queue # <<>> => queue' # <<>>
<1>1. CASE Len(queue) < QueueCapacity
  <2>1. queue \in Seq({"error", "name"}) /\ queue' = Append(queue, item)
    BY <1>1 DEF QueuePublish, QueueType
  <2>2. queue' \in Seq({"error", "name"}) /\ queue' # <<>> /\ Len(queue') = Len(queue) + 1
    BY <2>1, AppendProperties
  <2>3. Len(queue) \in Nat
    BY <2>1
  <2> QED
    BY <1>1, <2>2, <2>3 DEF QueuePublish, QueueCapacity
<1>2. CASE ~(Len(queue) < QueueCapacity)
  BY <1>2 DEF QueuePublish, QueueType
<1> QED
  BY <1>1, <1>2

(* A fault that happens was still allowed.                                  *)
LEMMA FaultType == faults \in 0..MaxFaults /\ Fault => faults' \in 0..MaxFaults
  BY BoundsAssumption DEF Fault

-----------------------------------------------------------------------------
(* Type correctness, part by part.                                          *)

HandlerPCs ==
    {"idle", "copy", "store", "rename", "badchar", "badinput", "reject", "restore"}

(* Only these steps begin, go on with or end a config_store.                *)
LEMMA StoringStep ==
    TypeOK /\ [Next]_vars /\ ~(Copy \/ Store \/ Restart \/ BadInputCrash) =>
        \A pc \in {"store", "rename"} : handler.pc = pc <=> handler'.pc = pc
<1> SUFFICES ASSUME TypeOK, [Next]_vars, ~(Copy \/ Store \/ Restart \/ BadInputCrash),
                    NEW pc \in {"store", "rename"}
             PROVE  handler.pc = pc <=> handler'.pc = pc
  OBVIOUS
<1>1. handler \in [pc : HandlerPCs, payload : Text]
  BY DEF TypeOK, HandlerType, HandlerPCs
<1>2. CASE Deliver
  BY <1>2 DEF Deliver, DeliverTooLong, DeliverBadChar, DeliverSame, DeliverNew, Start,
              Ignore, CanDispatch
<1>3. CASE BadChar \/ Reject \/ BadInput \/ Restore
  <2>1. handler.pc \in {"badchar", "reject", "badinput", "restore"}
    BY <1>3 DEF BadChar, Reject, BadInput, Restore
  <2>2. handler' = IdleHandler \/ \E next \in {"badinput", "restore"} :
                                     handler' = [handler EXCEPT !.pc = next]
    BY <1>3 DEF BadChar, Reject, BadInput, Restore, Return
  <2>3. handler'.pc \in {"idle", "badinput", "restore"}
    BY <1>1, <2>2 DEF IdleHandler
  <2> QED
    BY <2>1, <2>3
<1>4. CASE MainStep \/ OtherPublishes \/ ConnectionLost \/ UNCHANGED vars
  BY <1>4 DEF MainStep, Connect, Check, Strlen, PublishName, Published, Reset, Take,
     SendItem, Sent, SentAll, Clear, OtherPublishes, ConnectionLost, vars
<1> QED
  BY <1>2, <1>3, <1>4 DEF Next, HandlerStep

(* The name and its copy on flash.                                          *)
LEMMA ConfigStep == TypeOK /\ [Next]_vars => ConfigType'
<1> SUFFICES ASSUME TypeOK, [Next]_vars PROVE ConfigType'
  OBVIOUS
<1>1. ConfigType /\ handler \in [pc : HandlerPCs, payload : Text]
  BY DEF TypeOK, HandlerType, HandlerPCs
<1>2. CASE Copy
  <2>1. name' \in Name /\ UNCHANGED <<stored, failed>> /\ handler'.pc = "store"
    BY <1>1, <1>2 DEF Copy, TypeOK, HandlerType
  <2> QED
    BY <1>1, <2>1 DEF ConfigType
<1>3. CASE Unlink
  <2>1. stored' = {} /\ UNCHANGED <<name, failed>>
    BY <1>3 DEF Unlink
  <2> QED
    BY <1>1, <2>1 DEF ConfigType
<1>4. CASE Rename \/ StoreFails \/ RenameFails
  <2>1. /\ stored' = stored \/ stored' = {name}
        /\ name' = name /\ handler'.pc = "idle"
    BY <1>4 DEF Rename, StoreFails, RenameFails, Return, IdleHandler
  <2>2. failed' \in BOOLEAN
    BY <1>4, Zenon DEF Rename, StoreFails, RenameFails
  <2> QED
    BY <1>1, <2>1, <2>2 DEF ConfigType
<1>5. CASE Restart \/ BadInputCrash
  <2>1. /\ name' \in stored \/ name' = <<>>
        /\ stored' = stored /\ handler'.pc = "idle"
    BY <1>5 DEF Restart, BadInputCrash, Boot, IdleHandler
  <2>2. failed' \in BOOLEAN
    BY <1>5, Zenon DEF Restart, BadInputCrash, Boot
  <2> QED
    BY <1>1, <2>1, <2>2, NameFacts DEF ConfigType
<1>6. CASE ~(Copy \/ Store \/ Restart \/ BadInputCrash)
  <2>1. UNCHANGED config
    BY <1>6 DEF Next, Deliver, DeliverTooLong, DeliverBadChar, DeliverSame, DeliverNew,
       Start, Ignore, HandlerStep, BadChar, Reject, BadInput, Restore, MainStep, Connect,
       Check, Strlen, PublishName, Published, Reset, Take, SendItem, Sent, SentAll,
       Clear, OtherPublishes, ConnectionLost, vars
  <2>2. handler.pc = "rename" <=> handler'.pc = "rename"
    BY <1>6, StoringStep
  <2> QED
    BY <1>1, <2>1, <2>2 DEF config, ConfigType
<1> QED
  BY <1>2, <1>3, <1>4, <1>5, <1>6 DEF Store

(* The running handler.                                                     *)
LEMMA HandlerTypeStep == TypeOK /\ [Next]_vars => HandlerType'
<1> SUFFICES ASSUME TypeOK, [Next]_vars PROVE HandlerType'
  OBVIOUS
<1>1. ASSUME NEW p, NEW pc \in {"copy", "badchar", "reject"}, Start(p, pc),
             pc = "copy" => p \in Name
      PROVE HandlerType'
  <2>1. p \in Text
    BY <1>1, HeadTailProperties DEF Start, TypeOK, TopicType
  <2> QED
    BY <1>1, <2>1 DEF Start, HandlerType
<1>2. CASE Deliver
  <2>1. CASE DeliverSame(Head(inbox))
    BY <2>1 DEF DeliverSame, Ignore, TypeOK, HandlerType
  <2> QED
    BY <1>1, <1>2, <2>1 DEF Deliver, DeliverTooLong, DeliverBadChar, DeliverNew
<1>3. CASE HandlerStep
  <2>1. handler' = IdleHandler \/ \E pc \in {"store", "rename", "badinput", "restore"} :
                                     handler' = [handler EXCEPT !.pc = pc]
    BY <1>3 DEF HandlerStep, Copy, Store, Unlink, Rename, StoreFails, RenameFails,
       BadChar, Reject, BadInput, Restore, Return
  <2> QED
    BY <2>1, NameFacts DEF IdleHandler, TypeOK, HandlerType
<1>4. CASE Restart \/ BadInputCrash
  BY <1>4, NameFacts DEF Restart, BadInputCrash, Boot, IdleHandler, HandlerType
<1>5. CASE MainStep \/ OtherPublishes \/ ConnectionLost \/ UNCHANGED vars
  <2>1. UNCHANGED handler
    BY <1>5 DEF MainStep, Connect, Check, Strlen, PublishName, Published, Reset, Take,
       SendItem, Sent, SentAll, Clear, OtherPublishes, ConnectionLost, vars
  <2> QED
    BY <2>1 DEF TypeOK, HandlerType
<1> QED
  BY <1>2, <1>3, <1>4, <1>5 DEF Next

(* The queue, its mutex, and the index into it.                             *)
LEMMA QueueStep == IInv /\ [Next]_vars => QueueType' /\ QueueIndex'
<1> SUFFICES ASSUME IInv, [Next]_vars PROVE QueueType' /\ QueueIndex'
  OBVIOUS
<1> USE DEF publish
<1>1. /\ queue \in Seq({"error", "name"}) /\ Len(queue) \in Nat /\ Len(queue) <= 2
      /\ main.i \in 0..2
  <2>1. queue \in Seq({"error", "name"}) /\ Len(queue) <= 2 /\ main.i \in 0..2
    BY DEF IInv, TypeOK, QueueType, MainType, QueueCapacity
  <2>2. Len(queue) \in Nat
    BY <2>1, LenProperties
  <2> QED
    BY <2>1, <2>2
<1>2. CASE BadChar \/ Reject \/ BadInput \/ Restore
  <2>1. \/ \E item \in {"error", "name"} : QueuePublish(item)
        \/ UNCHANGED publish
    BY <1>2 DEF BadChar, Reject, BadInput, Restore
  <2>2. main' = main
    BY <1>2 DEF BadChar, Reject, BadInput, Restore
  <2>3. mutex = "none"
    BY <1>2 DEF BadChar, Reject, BadInput, Restore, QueuePublish
  <2>4. main.pc \notin {"send", "sent", "clear"}
    BY <2>3 DEF IInv, TypeOK, QueueType
  <2>5. /\ queue' \in Seq({"error", "name"}) /\ Len(queue') <= QueueCapacity
        /\ mutex' = "none"
    BY <2>1, <2>3, QueuePublishType DEF IInv, TypeOK, QueueType
  <2> QED
    BY <2>2, <2>4, <2>5 DEF QueueType, QueueIndex
<1>3. CASE Take
  <2>1. main'.pc = "send" /\ main'.i = 0 /\ mutex' = "main" /\ queue' = queue
    BY <1>3 DEF Take, IdleMain
  <2> QED
    BY <1>1, <2>1 DEF IInv, TypeOK, QueueType, QueueIndex, QueueCapacity
<1>4. CASE SendItem
  <2>1. main'.pc = "sent" /\ main'.i = main.i /\ UNCHANGED publish
        /\ main.i < Len(queue) /\ main.pc = "send"
    BY <1>4 DEF SendItem, IInv, TypeOK, MainType
  <2> QED
    BY <1>1, <2>1 DEF IInv, TypeOK, QueueType, QueueIndex
<1>5. CASE Sent
  <2>1. main'.pc = "send" /\ main'.i = main.i + 1 /\ UNCHANGED publish
        /\ main.pc = "sent"
    <3> DEFINE next == main.i + 1
    <3>1. main' = [main EXCEPT !.pc = "send", !.i = next] /\ UNCHANGED publish
          /\ main.pc = "sent"
      BY <1>5 DEF Sent
    <3> HIDE DEF next
    <3>2. main'.pc = "send" /\ main'.i = next
      BY <3>1 DEF IInv, TypeOK, MainType
    <3> QED
      BY <3>1, <3>2 DEF next
  <2>2. main.i < Len(queue)
    BY <2>1 DEF IInv, QueueIndex
  <2> QED
    BY <1>1, <2>1, <2>2 DEF IInv, TypeOK, QueueType, QueueIndex
<1>6. CASE SentAll
  <2>1. main'.pc = "clear" /\ main'.i = main.i /\ UNCHANGED publish
        /\ main.i >= Len(queue) /\ main.pc = "send"
    BY <1>6 DEF SentAll, IInv, TypeOK, MainType
  <2>2. main.i <= Len(queue)
    BY <2>1 DEF IInv, QueueIndex
  <2> QED
    BY <1>1, <2>1, <2>2 DEF IInv, TypeOK, QueueType, QueueIndex
<1>7. CASE Clear \/ Restart \/ BadInputCrash
  <2>1. main'.pc \in {"poll", "dead"} /\ queue' = <<>> /\ mutex' = "none"
    BY <1>7 DEF Clear, Restart, BadInputCrash, Boot, IdleMain
  <2> QED
    BY <2>1, EmptySeq DEF QueueType, QueueIndex, QueueCapacity
<1>8. CASE Connect \/ Check \/ Strlen \/ PublishName \/ Published \/ Reset
  <2>1. UNCHANGED publish
    BY <1>8 DEF Connect, Check, Strlen, PublishName, Published, Reset
  <2>2. /\ main.pc \notin {"send", "sent", "clear"}
        /\ main'.pc \notin {"send", "sent", "clear"}
    <3>1. main.pc \in {"poll", "check", "strlen", "publish", "published", "reset"}
      BY <1>8 DEF Connect, Check, Strlen, PublishName, Published, Reset
    <3>2. CASE Connect \/ Check
      BY <3>2 DEF Connect, Check, IInv, TypeOK, MainType
    <3>3. CASE Strlen
      <4>1. PICK n \in Lengths : main' = [main EXCEPT !.pc = "publish", !.len = n]
        BY <3>3 DEF Strlen
      <4>2. main'.pc = "publish"
        BY <4>1 DEF IInv, TypeOK, MainType
      <4> QED
        BY <3>1, <4>2
    <3>4. CASE PublishName
      <4>1. PICK ok \in BOOLEAN : main' = [main EXCEPT !.pc = "published", !.ok = ok]
        BY <3>4 DEF PublishName
      <4>2. main'.pc = "published"
        BY <4>1 DEF IInv, TypeOK, MainType
      <4> QED
        BY <3>1, <4>2
    <3>5. CASE Published \/ Reset
      <4>1. main'.pc \in {"poll", "reset"}
        BY <3>5 DEF Published, Reset, IdleMain
      <4> QED
        BY <3>1, <4>1
    <3> QED
      BY <1>8, <3>2, <3>3, <3>4, <3>5
  <2> QED
    BY <2>1, <2>2 DEF IInv, TypeOK, QueueType, QueueIndex
<1>9. CASE Deliver \/ Copy \/ Store \/ OtherPublishes \/ ConnectionLost \/ UNCHANGED vars
  <2>1. UNCHANGED <<publish, main>>
    BY <1>9 DEF Deliver, DeliverTooLong, DeliverBadChar, DeliverSame, DeliverNew, Start,
       Ignore, Copy, Store, Unlink, Rename, StoreFails, RenameFails, OtherPublishes,
       ConnectionLost, vars
  <2> QED
    BY <2>1 DEF IInv, TypeOK, QueueType, QueueIndex
<1> QED
  BY <1>2, <1>3, <1>4, <1>5, <1>6, <1>7, <1>8, <1>9 DEF Next, HandlerStep, MainStep

(* The main task and the client's lock.                                     *)
MainRecord == [pc : {"poll", "check", "strlen", "publish", "published", "reset",
                     "send", "sent", "clear", "dead"},
               len : 0 .. NameSize - 1, ok : BOOLEAN, i : 0 .. QueueCapacity]

(* The main task of a device that has started.                              *)
Alive == {m \in MainRecord : m.pc # "dead"}

(* The idle main task is typed.                                             *)
LEMMA IdleType == IdleMain \in Alive /\ [IdleMain EXCEPT !.pc = "dead"] \in MainRecord
<1>1. IdleMain \in MainRecord
  BY NamesAssumption DEF IdleMain, MainRecord, QueueCapacity
<1>2. IdleMain.pc # "dead"
  BY DEF IdleMain
<1> QED
  BY <1>1, <1>2 DEF Alive, MainRecord

(* Where the main task goes keeps its record typed.                         *)
LEMMA MainRecordStep == IInv /\ MainStep => main \in Alive /\ main' \in Alive
<1> SUFFICES ASSUME IInv, MainStep PROVE main \in Alive /\ main' \in Alive
  OBVIOUS
<1> USE DEF Alive
<1>1. main \in Alive
  <2>1. main \in MainRecord
    BY DEF IInv, TypeOK, MainType, MainRecord
  <2>2. main.pc # "dead"
    BY DEF MainStep, Connect, Check, Strlen, PublishName, Published, Reset, Take, SendItem,
       Sent, SentAll, Clear
  <2> QED
    BY <2>1, <2>2
<1>2. CASE Connect \/ Check \/ SendItem \/ SentAll
  <2>1. \E pc \in {"check", "poll", "strlen", "sent", "clear"} :
           main' = [main EXCEPT !.pc = pc]
    BY <1>2 DEF Connect, Check, SendItem, SentAll
  <2> QED
    BY <1>1, <2>1 DEF MainRecord
<1>3. CASE Strlen
  <2>1. PICK n \in Lengths : main' = [main EXCEPT !.pc = "publish", !.len = n]
    BY <1>3 DEF Strlen
  <2>2. n \in 0 .. NameSize - 1
    <3>1. Len(name) \in 0 .. NameSize - 1
      BY NameFacts DEF IInv, TypeOK, ConfigType
    <3>2. n = Len(name) \/ n \in Len(name) .. NameSize - 1
      BY DEF Lengths
    <3> QED
      BY <3>1, <3>2, NamesAssumption
  <2> QED
    BY <1>1, <2>1, <2>2 DEF MainRecord
<1>4. CASE PublishName
  <2>1. PICK ok \in BOOLEAN : main' = [main EXCEPT !.pc = "published", !.ok = ok]
    BY <1>4 DEF PublishName
  <2> QED
    BY <1>1, <2>1 DEF MainRecord
<1>5. CASE Published \/ Reset \/ Take \/ Clear
  <2>1. main' = IdleMain \/ \E pc \in {"poll", "reset", "send"} :
                               main' = [IdleMain EXCEPT !.pc = pc]
    BY <1>5 DEF Published, Reset, Take, Clear
  <2>2. \A pc \in {"poll", "reset", "send"} : [IdleMain EXCEPT !.pc = pc] \in Alive
    BY IdleType DEF MainRecord
  <2> QED
    BY <1>1, <2>1, <2>2, IdleType, Zenon
<1>6. CASE Sent
  <2> DEFINE next == main.i + 1
  <2>1. main' = [main EXCEPT !.pc = "send", !.i = next] /\ main.pc = "sent"
    BY <1>6 DEF Sent
  <2>2. main.i < Len(queue) /\ Len(queue) <= 2 /\ Len(queue) \in Nat /\ main.i \in 0..2
    <3>1. main.i < Len(queue)
      BY <2>1 DEF IInv, QueueIndex
    <3>2. queue \in Seq({"error", "name"}) /\ Len(queue) <= 2 /\ main.i \in 0..2
      BY DEF IInv, TypeOK, QueueType, MainType, QueueCapacity
    <3>3. Len(queue) \in Nat
      BY <3>2, LenProperties
    <3> QED
      BY <3>1, <3>2, <3>3
  <2>3. next \in 0 .. QueueCapacity
    BY <2>2 DEF QueueCapacity
  <2> HIDE DEF next
  <2> QED
    BY <1>1, <2>1, <2>3 DEF MainRecord
<1> QED
  BY <1>1, <1>2, <1>3, <1>4, <1>5, <1>6 DEF MainStep

(* Who holds the client's lock after a step.                                *)
OwnerRight ==
    /\ owner \in {"none", "main", "mqtt"}
    /\ owner = "main" <=> main.pc \in {"published", "sent"}
    /\ owner = "mqtt" => handler.pc # "idle"
    /\ handler.pc # "idle" => owner # "none"

(* The client's lock stays where it belongs.                                *)
LEMMA OwnerStep == IInv /\ [Next]_vars => OwnerRight'
<1> SUFFICES ASSUME IInv, [Next]_vars PROVE OwnerRight'
  OBVIOUS
<1>1. OwnerRight
  BY DEF IInv, TypeOK, MainType, OwnerRight
<1>2. /\ handler.pc \in HandlerPCs /\ handler \in [pc : HandlerPCs, payload : Text]
      /\ main \in MainRecord
  BY DEF IInv, TypeOK, HandlerType, HandlerPCs, MainType, MainRecord
<1>3. ASSUME NEW p, NEW pc \in {"copy", "badchar", "reject"}, Start(p, pc) PROVE OwnerRight'
  BY <1>1, <1>3 DEF Start, CanDispatch, OwnerRight
<1>4. CASE Deliver
  <2>1. CASE DeliverSame(Head(inbox))
    BY <1>1, <2>1 DEF DeliverSame, Ignore, OwnerRight
  <2> QED
    BY <1>3, <1>4, <2>1 DEF Deliver, DeliverTooLong, DeliverBadChar, DeliverNew
<1>5. CASE Rename \/ StoreFails \/ RenameFails \/ Restore
  BY <1>1, <1>5 DEF Rename, StoreFails, RenameFails, Restore, Return, IdleHandler, OwnerRight
<1>6. CASE Copy \/ Unlink \/ BadChar \/ Reject \/ BadInput
  <2>1. /\ UNCHANGED <<main, owner>> /\ handler.pc # "idle"
        /\ \E pc \in {"store", "rename", "badinput", "restore"} :
              handler' = [handler EXCEPT !.pc = pc]
    BY <1>6 DEF Copy, Unlink, BadChar, Reject, BadInput
  <2>2. handler'.pc # "idle"
    BY <1>2, <2>1
  <2> QED
    BY <1>1, <2>1, <2>2 DEF OwnerRight
<1>7. CASE Connect \/ Check \/ Strlen \/ Reset \/ Take \/ SentAll \/ Clear
  <2>1. /\ UNCHANGED <<handler, owner>>
        /\ main.pc \notin {"published", "sent"}
    BY <1>7 DEF Connect, Check, Strlen, Reset, Take, SentAll, Clear
  <2>2. main'.pc \notin {"published", "sent"}
    <3>1. CASE Strlen
      <4>1. PICK n \in Lengths : main' = [main EXCEPT !.pc = "publish", !.len = n]
        BY <3>1 DEF Strlen
      <4>2. main'.pc = "publish"
        BY <1>2, <4>1 DEF MainRecord
      <4> QED
        BY <4>2
    <3> QED
      BY <1>2, <1>7, <3>1 DEF Connect, Check, Reset, Take, SentAll, Clear, IdleMain, MainRecord
  <2> QED
    BY <1>1, <2>1, <2>2 DEF OwnerRight
<1>8. CASE PublishName
  <2>1. PICK ok \in BOOLEAN : main' = [main EXCEPT !.pc = "published", !.ok = ok]
    BY <1>8 DEF PublishName
  <2>2. main'.pc = "published"
    BY <1>2, <2>1 DEF MainRecord
  <2> QED
    BY <1>1, <1>8, <2>2 DEF PublishName, OwnerRight
<1>9. CASE SendItem
  <2>1. main'.pc = "sent"
    BY <1>2, <1>9 DEF SendItem, MainRecord
  <2> QED
    BY <1>1, <1>9, <2>1 DEF SendItem, OwnerRight
<1>10. CASE Published
  BY <1>1, <1>10 DEF Published, IdleMain, OwnerRight
<1>11. CASE Sent
  <2> DEFINE next == main.i + 1
  <2>1. main' = [main EXCEPT !.pc = "send", !.i = next]
    BY <1>11 DEF Sent
  <2> HIDE DEF next
  <2>2. main'.pc = "send"
    BY <1>2, <2>1 DEF MainRecord
  <2> QED
    BY <1>1, <1>11, <2>2 DEF Sent, OwnerRight
<1>12. CASE Restart \/ BadInputCrash
  BY <1>12 DEF Restart, BadInputCrash, Boot, IdleMain, IdleHandler, OwnerRight
<1>13. CASE OtherPublishes \/ ConnectionLost \/ UNCHANGED vars
  BY <1>1, <1>13 DEF OtherPublishes, ConnectionLost, vars, OwnerRight
<1> QED
  BY <1>4, <1>5, <1>6, <1>7, <1>8, <1>9, <1>10, <1>11, <1>12, <1>13
     DEF Next, HandlerStep, MainStep, Store

(* A device that did not start does nothing.                                *)
DeadRight == main.pc = "dead" => owner = "none" /\ ~connected /\ stored = {} /\ failed

LEMMA DeadStep == IInv /\ [Next]_vars => DeadRight'
<1> SUFFICES ASSUME IInv, [Next]_vars PROVE DeadRight'
  OBVIOUS
<1>1. CASE Restart \/ BadInputCrash
  BY <1>1 DEF Restart, BadInputCrash, Boot, IdleMain, DeadRight
<1>2. CASE MainStep
  BY <1>2, MainRecordStep DEF Alive, DeadRight
<1>3. CASE Deliver \/ HandlerStep \/ OtherPublishes \/ ConnectionLost \/ UNCHANGED vars
  <2>1. main' = main
    BY <1>3 DEF Deliver, DeliverTooLong, DeliverBadChar, DeliverSame, DeliverNew, Start,
       Ignore, HandlerStep, Copy, Store, Unlink, Rename, StoreFails, RenameFails, BadChar,
       Reject, BadInput, Restore, OtherPublishes, ConnectionLost, vars
  <2>2. ASSUME main.pc = "dead" PROVE UNCHANGED <<owner, connected, stored, failed>>
    <3>1. DeadRight /\ handler.pc = "idle" /\ ~connected /\ inbox = <<>>
      BY <2>2 DEF IInv, TypeOK, MainType, TopicType, DeadRight
    <3>2. ~(Deliver \/ HandlerStep \/ OtherPublishes \/ ConnectionLost)
      BY <3>1 DEF Deliver, HandlerStep, Copy, Store, Unlink, Rename, StoreFails,
         RenameFails, BadChar, Reject, BadInput, Restore, OtherPublishes, ConnectionLost
    <3> QED
      BY <1>3, <3>2 DEF vars, config, topic
  <2> QED
    BY <2>1, <2>2 DEF DeadRight, IInv, TypeOK, MainType
<1> QED
  BY <1>1, <1>2, <1>3 DEF Next

(* All of it together.                                                      *)
LEMMA MainTypeStep == IInv /\ [Next]_vars => MainType'
<1> SUFFICES ASSUME IInv, [Next]_vars PROVE MainType'
  OBVIOUS
<1>1. main' \in MainRecord
  <2>1. CASE Restart \/ BadInputCrash
    BY <2>1, IdleType DEF Restart, BadInputCrash, Boot, Alive
  <2>2. CASE Deliver \/ HandlerStep \/ OtherPublishes \/ ConnectionLost \/ UNCHANGED vars
    <3>1. main' = main
      BY <2>2 DEF Deliver, DeliverTooLong, DeliverBadChar, DeliverSame, DeliverNew, Start,
         Ignore, HandlerStep, Copy, Store, Unlink, Rename, StoreFails, RenameFails, BadChar,
         Reject, BadInput, Restore, OtherPublishes, ConnectionLost, vars
    <3> QED
      BY <3>1 DEF IInv, TypeOK, MainType, MainRecord
  <2> QED
    BY <2>1, <2>2, MainRecordStep DEF Next, Alive
<1> QED
  BY <1>1, OwnerStep, DeadStep DEF MainType, MainRecord, OwnerRight, DeadRight

-----------------------------------------------------------------------------
(* The topic.                                                               *)

(* A publish leaves typed messages and a name.                              *)
LEMMA PublishType ==
    ASSUME TopicType, NEW p \in Text, Publish(p)
    PROVE  inbox' \in Seq(Text) /\ heard' \in Name
  BY AppendProperties DEF Publish, TopicType

(* What is on its way, and what was heard last.                             *)
LEMMA TopicStep == IInv /\ [Next]_vars => TopicType'
<1> SUFFICES ASSUME IInv, [Next]_vars PROVE TopicType'
  OBVIOUS
<1> USE DEF topic
<1>1. TopicType
  BY DEF IInv, TypeOK
<1>2. CASE Deliver
  <2>1. inbox # <<>> /\ inbox' = Tail(inbox) /\ UNCHANGED <<connected, heard, sent, faults>>
    BY <1>2 DEF Deliver, DeliverTooLong, DeliverBadChar, DeliverSame, DeliverNew, Start, Ignore
  <2>2. inbox' \in Seq(Text)
    BY <1>1, <2>1, HeadTailProperties DEF TopicType
  <2> QED
    BY <1>1, <2>1, <2>2 DEF TopicType
<1>3. CASE Store
  <2>1. UNCHANGED <<topic, sent>> /\ (faults' = faults \/ Fault)
    BY <1>3 DEF Store, Unlink, Rename, StoreFails, RenameFails
  <2> QED
    BY <1>1, <2>1, FaultType DEF TopicType
<1>4. CASE Connect
  BY <1>1, <1>4 DEF Connect, TopicType, IInv, TypeOK, ConfigType
<1>5. CASE PublishName
  <2>1. main.len \in Nat
    BY DEF IInv, TypeOK, MainType
  <2>2. Bytes(main.len) \in Text
    BY <2>1, BytesType DEF IInv, TypeOK, ConfigType
  <2>3. inbox' \in Seq(Text) /\ heard' \in Name
    BY <1>1, <1>5, <2>2, PublishType DEF PublishName, TopicType
  <2>4. faults' \in 0..MaxFaults
    BY <1>1, <1>5, FaultType DEF PublishName, TopicType
  <2>5. ~connected => inbox' = inbox
    BY <1>5 DEF PublishName
  <2> QED
    BY <1>1, <1>5, <2>3, <2>4, <2>5 DEF PublishName, TopicType
<1>6. CASE OtherPublishes
  <2>1. PICK p \in Payloads : Publish(p)
    BY <1>6 DEF OtherPublishes
  <2>2. inbox' \in Seq(Text) /\ heard' \in Name
    BY <1>1, <2>1, NameFacts, PublishType
  <2> QED
    BY <1>1, <1>6, <2>2, BoundsAssumption DEF OtherPublishes, TopicType
<1>7. CASE Reset \/ ConnectionLost \/ Restart \/ BadInputCrash
  <2>1. /\ connected' = FALSE /\ inbox' = <<>> /\ UNCHANGED <<heard, sent>>
        /\ faults' = faults \/ Fault
    BY <1>7 DEF Reset, ConnectionLost, Restart, BadInputCrash, Boot
  <2>2. inbox' \in Seq(Text)
    BY <2>1, EmptySeq
  <2> QED
    BY <1>1, <2>1, <2>2, FaultType DEF TopicType
<1>8. ASSUME ~(\/ Deliver \/ Store \/ Connect \/ PublishName \/ OtherPublishes
               \/ Reset \/ ConnectionLost \/ Restart \/ BadInputCrash)
      PROVE TopicType'
  <2>1. UNCHANGED <<topic, sent, faults>>
    BY <1>8 DEF Next, HandlerStep, Copy, BadChar, Reject, BadInput, Restore, MainStep,
       Check, Strlen, Published, Take, SendItem, Sent, SentAll, Clear, vars
  <2> QED
    BY <1>1, <2>1 DEF TopicType
<1> QED
  BY <1>2, <1>3, <1>4, <1>5, <1>6, <1>7, <1>8

-----------------------------------------------------------------------------
(* The theorems.                                                            *)

(* The initial state is typed.                                              *)
LEMMA InitInv == Init => IInv
<1> SUFFICES ASSUME Init PROVE IInv
  OBVIOUS
<1>1. ConfigType
  <2>1. name \in Name /\ stored = {name} /\ handler.pc = "idle"
    BY NameFacts DEF Init, IdleHandler
  <2>2. failed \in BOOLEAN
    BY DEF Init
  <2> QED
    BY <2>1, <2>2 DEF ConfigType
<1>2. QueueType /\ QueueIndex
  BY EmptySeq DEF Init, QueueType, QueueIndex, QueueCapacity, IdleMain
<1>3. HandlerType
  BY NameFacts DEF Init, HandlerType, IdleHandler
<1>4. MainType
  BY IdleType DEF Init, MainType, MainRecord, Alive, IdleMain, IdleHandler
<1>5. TopicType
  <2>1. heard \in Name /\ inbox \in Seq(Text)
    BY NameFacts, EmptySeq DEF Init
  <2>2. sent \in 0..MaxMessages /\ faults \in 0..MaxFaults
    BY BoundsAssumption DEF Init
  <2> QED
    BY <2>1, <2>2 DEF Init, TopicType
<1> QED
  BY <1>1, <1>2, <1>3, <1>4, <1>5 DEF IInv, TypeOK

(* Every step leaves the state typed.                                       *)
LEMMA StepInv == IInv /\ [Next]_vars => IInv'
  BY ConfigStep, HandlerTypeStep, QueueStep, MainTypeStep, TopicStep DEF IInv, TypeOK

(* Whatever arrives, torn publishes included, every name is clean and fits, *)
(* and each lock is held exactly by the task that uses it; for any payloads *)
(* and any number of messages and faults.                                   *)
THEOREM TypeCorrect == Spec => []TypeOK
<1>1. IInv => TypeOK
  BY DEF IInv
<1> QED
  BY <1>1, InitInv, StepInv, PTL DEF Spec

(* The file holds the name in use, except while one is being stored and     *)
(* after a store that failed: then a restart brings it back.                *)
THEOREM KeepsName == Spec => []StoredUnlessFailed
<1>1. Init => StoredUnlessFailed
  BY DEF Init, StoredUnlessFailed
<1>2. TypeOK /\ StoredUnlessFailed /\ [Next]_vars => StoredUnlessFailed'
  <2> SUFFICES ASSUME TypeOK, StoredUnlessFailed, [Next]_vars PROVE StoredUnlessFailed'
    OBVIOUS
  <2>1. CASE Copy
    <3>1. handler'.pc = "store"
      BY <2>1 DEF Copy, TypeOK, HandlerType
    <3> QED
      BY <3>1 DEF StoredUnlessFailed
  <2>2. CASE Store
    <3>1. CASE Unlink
      <4>1. handler'.pc = "rename"
        BY <3>1 DEF Unlink, TypeOK, HandlerType
      <4> QED
        BY <4>1 DEF StoredUnlessFailed
    <3> QED
      BY <2>2, <3>1 DEF Store, Rename, StoreFails, RenameFails, StoredUnlessFailed
  <2>3. CASE Restart \/ BadInputCrash
    <3>1. \/ name' \in stored /\ stored' = stored
          \/ failed'
      BY <2>3 DEF Restart, BadInputCrash, Boot
    <3>2. name' \in stored => stored = {name'}
      BY DEF TypeOK, ConfigType
    <3> QED
      BY <3>1, <3>2 DEF StoredUnlessFailed
  <2>4. CASE ~(Copy \/ Store \/ Restart \/ BadInputCrash)
    <3>1. UNCHANGED config
      BY <2>4 DEF Next, Deliver, DeliverTooLong, DeliverBadChar, DeliverSame, DeliverNew,
         Start, Ignore, HandlerStep, BadChar, Reject, BadInput, Restore, MainStep, Connect,
         Check, Strlen, PublishName, Published, Reset, Take, SendItem, Sent, SentAll,
         Clear, OtherPublishes, ConnectionLost, vars
    <3>2. \A pc \in {"store", "rename"} : handler.pc = pc <=> handler'.pc = pc
      BY <2>4, StoringStep
    <3> QED
      BY <3>1, <3>2 DEF config, StoredUnlessFailed
  <2> QED
    BY <2>1, <2>2, <2>3, <2>4
<1> QED
  BY <1>1, <1>2, TypeCorrect, PTL DEF Spec

(* No item leaves the queue before it was sent, whatever came of that,      *)
(* unless the device restarts.                                              *)
THEOREM LosesNothing == Spec => NothingQueuedIsLost
<1>1. ASSUME IInv, [Next]_vars, queue # <<>>, queue' = <<>>
      PROVE  main.i = Len(queue) \/ Boot
  <2> USE DEF publish
  <2>1. CASE Clear
    <3>1. main.pc = "clear"
      BY <2>1 DEF Clear
    <3>2. main.i = Len(queue)
      BY <1>1, <3>1 DEF IInv, QueueIndex
    <3> QED
      BY <3>2
  <2>2. CASE Restart \/ BadInputCrash
    BY <2>2 DEF Restart, BadInputCrash
  <2>3. ASSUME BadChar \/ Reject \/ BadInput \/ Restore PROVE FALSE
    <3>1. \/ \E item \in {"error", "name"} : QueuePublish(item)
          \/ UNCHANGED publish
      BY <2>3 DEF BadChar, Reject, BadInput, Restore
    <3> QED
      BY <1>1, <3>1, QueuePublishType DEF IInv, TypeOK
  <2>4. ASSUME ~(Clear \/ Restart \/ BadInputCrash \/ BadChar \/ Reject \/ BadInput \/ Restore)
        PROVE FALSE
    <3>1. queue' = queue
      BY <1>1, <2>4 DEF Next, Deliver, DeliverTooLong, DeliverBadChar, DeliverSame,
         DeliverNew, Start, Ignore, HandlerStep, Copy, Store, Unlink, Rename, StoreFails,
         RenameFails, MainStep, Connect, Check, Strlen, PublishName, Published, Reset, Take,
         SendItem, Sent, SentAll, OtherPublishes, ConnectionLost, vars
    <3> QED
      BY <1>1, <3>1
  <2> QED
    BY <2>1, <2>2, <2>3, <2>4
<1>2. IInv /\ [Next]_vars =>
        [queue # <<>> /\ queue' = <<>> => main.i = Len(queue) \/ Boot]_vars
  BY <1>1
<1> QED
  BY <1>2, InitInv, StepInv, PTL DEF Spec, NothingQueuedIsLost

-----------------------------------------------------------------------------
(* The device follows its topic.                                            *)

(* The name the device will have when the running handler is done.          *)
NameToBe == IF handler.pc = "copy" THEN handler.payload ELSE name

(* The last acceptable name among the messages on their way is the one that *)
(* was heard last; if there is none, the device has it or is taking it.     *)
Follows ==
    connected =>
        \/ /\ \A j \in 1..Len(inbox) : inbox[j] \notin Name
           /\ NameToBe = heard
        \/ \E i \in 1..Len(inbox) :
              /\ inbox[i] \in Name /\ inbox[i] = heard
              /\ \A j \in i + 1 .. Len(inbox) : inbox[j] \notin Name

(* Publishing a name makes it the last one heard and the last on its way;   *)
(* publishing anything else changes neither.                                *)
LEMMA PublishFollows ==
    ASSUME TypeOK, Follows, connected, NEW p \in Text, Publish(p),
           NameToBe' = NameToBe
    PROVE  Follows'
<1>1. /\ inbox \in Seq(Text) /\ Len(inbox) \in Nat
      /\ inbox' = Append(inbox, p)
  BY LenProperties DEF TypeOK, TopicType, Publish
<1> DEFINE n == Len(inbox)
<1>2. /\ Len(inbox') = n + 1 /\ inbox'[n + 1] = p
      /\ \A j \in 1..n : inbox'[j] = inbox[j]
  BY <1>1, AppendProperties
<1>3. n \in Nat
  BY <1>1
<1>4. \A j \in 1 .. n + 1 : j \in 1..n \/ j = n + 1
  BY <1>3
<1>5. CASE p \in Name
  <2>1. n + 1 \in 1 .. Len(inbox') /\ \A j \in n + 1 + 1 .. Len(inbox') : FALSE
    BY <1>2, <1>3
  <2>2. inbox'[n + 1] \in Name /\ inbox'[n + 1] = heard'
    BY <1>2, <1>5 DEF Publish
  <2> HIDE DEF n
  <2> QED
    BY <2>1, <2>2 DEF Follows
<1>6. CASE p \notin Name
  <2>1. heard' = heard
    BY <1>6 DEF Publish
  <2>2. CASE (\A j \in 1..n : inbox[j] \notin Name) /\ NameToBe = heard
    <3>1. \A j \in 1..Len(inbox') : inbox'[j] \notin Name
      BY <1>2, <1>4, <1>6, <2>2
    <3> QED
      BY <2>1, <2>2, <3>1 DEF Follows
  <2>3. ASSUME NEW i \in 1..n, inbox[i] \in Name, inbox[i] = heard,
               \A j \in i + 1 .. n : inbox[j] \notin Name
        PROVE  Follows'
    <3>1. i \in 1 .. Len(inbox') /\ inbox'[i] \in Name /\ inbox'[i] = heard'
      BY <1>2, <1>3, <2>1, <2>3
    <3>2. \A j \in i + 1 .. n + 1 : j \in i + 1 .. n \/ j = n + 1
      BY <1>3
    <3>3. \A j \in i + 1 .. n : j \in 1 .. n
      BY <1>3
    <3>4. \A j \in i + 1 .. Len(inbox') : inbox'[j] \notin Name
      BY <1>2, <1>6, <2>3, <3>2, <3>3
    <3> QED
      BY <3>1, <3>4 DEF Follows
  <2> QED
    BY <2>2, <2>3 DEF Follows
<1> QED
  BY <1>5, <1>6

(* Handling the next message brings the device as far as that message.      *)
LEMMA DeliverFollows ==
    ASSUME TypeOK, Follows, connected, inbox # <<>>, inbox' = Tail(inbox),
           heard' = heard,
           IF Head(inbox) \in Name THEN NameToBe' = Head(inbox) ELSE NameToBe' = NameToBe
    PROVE  Follows'
<1>1. inbox \in Seq(Text) /\ Len(inbox) \in Nat
  BY LenProperties DEF TypeOK, TopicType
<1> DEFINE n == Len(inbox)
<1>2. /\ Len(inbox') = n - 1 /\ Head(inbox) = inbox[1] /\ n >= 1
      /\ \A j \in 1 .. Len(inbox') : inbox'[j] = inbox[j + 1]
  BY <1>1, HeadTailProperties, EmptySeq
<1>3. n \in Nat
  BY <1>1
<1>4. \A j \in 1 .. n - 1 : j + 1 \in 1..n
  BY <1>3
<1>5. CASE (\A j \in 1..n : inbox[j] \notin Name) /\ NameToBe = heard
  <2>1. Head(inbox) \notin Name
    BY <1>2, <1>3, <1>5
  <2>2. \A j \in 1..Len(inbox') : inbox'[j] \notin Name
    BY <1>2, <1>4, <1>5
  <2> QED
    BY <1>5, <2>1, <2>2 DEF Follows
<1>6. ASSUME NEW i \in 1..n, inbox[i] \in Name, inbox[i] = heard,
             \A j \in i + 1 .. n : inbox[j] \notin Name
      PROVE  Follows'
  <2>1. CASE i = 1
    <3>1. NameToBe' = heard'
      BY <1>2, <1>6, <2>1
    <3>2. \A j \in 1 .. n - 1 : j + 1 \in i + 1 .. n
      BY <1>3, <2>1
    <3>3. \A j \in 1 .. Len(inbox') : inbox'[j] \notin Name
      BY <1>2, <1>6, <3>2
    <3> QED
      BY <3>1, <3>3 DEF Follows
  <2>2. CASE i # 1
    <3> DEFINE k == i - 1
    <3>1. k \in 1 .. Len(inbox') /\ k + 1 = i
      BY <1>2, <1>3, <2>2
    <3>2. inbox'[k] \in Name /\ inbox'[k] = heard'
      BY <1>2, <1>6, <3>1
    <3>3. \A j \in k + 1 .. Len(inbox') : j \in 1 .. Len(inbox') /\ j + 1 \in i + 1 .. n
      BY <1>2, <1>3
    <3>4. \A j \in k + 1 .. Len(inbox') : inbox'[j] \notin Name
      BY <1>2, <1>6, <3>3
    <3> HIDE DEF k
    <3> QED
      BY <3>1, <3>2, <3>4 DEF Follows
  <2> QED
    BY <2>1, <2>2
<1> QED
  BY <1>5, <1>6 DEF Follows

(* Every step keeps the device following.                                   *)
LEMMA StepFollows == TypeOK /\ Follows /\ [Next]_vars => Follows'
<1> SUFFICES ASSUME TypeOK, Follows, [Next]_vars PROVE Follows'
  OBVIOUS
<1> USE DEF topic, config
<1>1. CASE Deliver
  <2> DEFINE p == Head(inbox)
  <2>1. inbox # <<>> /\ inbox' = Tail(inbox) /\ UNCHANGED <<connected, heard, name>>
        /\ handler.pc = "idle"
    BY <1>1 DEF Deliver, DeliverTooLong, DeliverBadChar, DeliverSame, DeliverNew, Start,
                Ignore, CanDispatch
  <2>2. connected
    BY <2>1 DEF TypeOK, TopicType
  <2>3. NameToBe = name
    BY <2>1 DEF NameToBe
  <2>4. IF p \in Name THEN NameToBe' = p ELSE NameToBe' = NameToBe
    <3>1. CASE DeliverTooLong(p)
      <4>1. p \notin Name
        BY <3>1, NamesAssumption DEF DeliverTooLong, Name
      <4> QED
        BY <2>1, <2>3, <3>1, <4>1 DEF DeliverTooLong, Start, NameToBe
    <3>2. CASE DeliverBadChar(p)
      BY <2>1, <2>3, <3>2 DEF DeliverBadChar, Start, NameToBe
    <3>3. CASE DeliverSame(p)
      BY <2>1, <3>3 DEF DeliverSame, Ignore, NameToBe
    <3>4. CASE DeliverNew(p)
      BY <3>4 DEF DeliverNew, Start, NameToBe
    <3> QED
      BY <1>1, <3>1, <3>2, <3>3, <3>4 DEF Deliver
  <2> QED
    BY <2>1, <2>2, <2>4, DeliverFollows
<1>2. CASE HandlerStep
  <2>1. NameToBe' = NameToBe
    <3>1. CASE Copy
      <4>1. handler'.pc = "store"
        BY <3>1 DEF Copy, TypeOK, HandlerType
      <4> QED
        BY <3>1, <4>1 DEF Copy, NameToBe
    <3>2. CASE Rename \/ StoreFails \/ RenameFails \/ Restore
      BY <3>2 DEF Rename, StoreFails, RenameFails, Restore, Return, IdleHandler, NameToBe
    <3>3. CASE Unlink \/ BadChar \/ Reject \/ BadInput
      <4>1. /\ name' = name /\ handler.pc # "copy"
            /\ \E pc \in {"rename", "badinput", "restore"} :
                  handler' = [handler EXCEPT !.pc = pc]
        BY <3>3 DEF Unlink, BadChar, Reject, BadInput
      <4>2. handler'.pc # "copy"
        BY <4>1 DEF TypeOK, HandlerType
      <4> QED
        BY <4>1, <4>2 DEF NameToBe
    <3> QED
      BY <1>2, <3>1, <3>2, <3>3 DEF HandlerStep, Store
  <2>2. UNCHANGED topic
    BY <1>2 DEF HandlerStep, Copy, Store, Unlink, Rename, StoreFails, RenameFails, BadChar,
                Reject, BadInput, Restore
  <2> QED
    BY <2>1, <2>2 DEF Follows
<1>3. CASE Connect
  <2>1. handler.pc = "idle" /\ inbox = <<>> /\ heard' = name
        /\ UNCHANGED <<inbox, name, handler>>
    BY <1>3 DEF Connect, TypeOK, MainType, TopicType
  <2>2. \A j \in 1..Len(inbox') : FALSE
    BY <2>1
  <2> QED
    BY <2>1, <2>2 DEF Follows, NameToBe
<1>4. CASE PublishName
  <2>1. NameToBe' = NameToBe /\ connected' = connected
    BY <1>4 DEF PublishName, NameToBe
  <2>2. CASE Publish(Bytes(main.len)) /\ connected
    <3>1. Bytes(main.len) \in Text
      BY BytesType DEF TypeOK, ConfigType, MainType
    <3> QED
      BY <2>1, <2>2, <3>1, PublishFollows
  <2>3. CASE UNCHANGED <<inbox, heard>>
    BY <2>1, <2>3 DEF Follows
  <2> QED
    BY <1>4, <2>2, <2>3 DEF PublishName
<1>5. CASE OtherPublishes
  <2>1. PICK p \in Payloads : Publish(p)
    BY <1>5 DEF OtherPublishes
  <2>2. connected /\ NameToBe' = NameToBe
    BY <1>5 DEF OtherPublishes, NameToBe
  <2> QED
    BY <2>1, <2>2, NameFacts, PublishFollows
<1>6. CASE Reset \/ ConnectionLost \/ Restart \/ BadInputCrash
  BY <1>6 DEF Reset, ConnectionLost, Restart, BadInputCrash, Boot, Follows
<1>7. ASSUME ~(\/ Deliver \/ HandlerStep \/ Connect \/ PublishName \/ OtherPublishes
               \/ Reset \/ ConnectionLost \/ Restart \/ BadInputCrash)
      PROVE Follows'
  <2>1. UNCHANGED <<topic, name, handler>>
    BY <1>7 DEF Next, MainStep, Check, Strlen, Published, Take, SendItem, Sent, SentAll,
                Clear, vars
  <2> QED
    BY <2>1 DEF Follows, NameToBe
<1> QED
  BY <1>1, <1>2, <1>3, <1>4, <1>5, <1>6, <1>7

(* When nothing is on its way the device goes by the last acceptable name   *)
(* on its topic, for any payloads and names, however its own publishes are  *)
(* torn and however they and others' names follow each other.               *)
THEOREM FollowsItsTopic == Spec => []FollowsTopic
<1>1. Init => Follows
  BY DEF Init, Follows
<1>2. Follows => FollowsTopic
  BY DEF Follows, FollowsTopic, NameToBe
<1> QED
  BY <1>1, <1>2, StepFollows, TypeCorrect, PTL DEF Spec

-----------------------------------------------------------------------------
(* The implementation of ConfigService.                                     *)

(* What is copied over the name is another name.                            *)
CopiesNew == handler.pc = "copy" => handler.payload # name

LEMMA StepCopiesNew == TypeOK /\ CopiesNew /\ [Next]_vars => CopiesNew'
<1> SUFFICES ASSUME TypeOK, CopiesNew, [Next]_vars PROVE CopiesNew'
  OBVIOUS
<1> USE DEF config
<1>1. CASE Deliver
  <2>1. CASE DeliverNew(Head(inbox))
    BY <2>1 DEF DeliverNew, Start, CopiesNew
  <2>2. CASE DeliverTooLong(Head(inbox)) \/ DeliverBadChar(Head(inbox))
    BY <2>2 DEF DeliverTooLong, DeliverBadChar, Start, CopiesNew
  <2>3. CASE DeliverSame(Head(inbox))
    BY <2>3 DEF DeliverSame, Ignore, CopiesNew
  <2> QED
    BY <1>1, <2>1, <2>2, <2>3 DEF Deliver
<1>2. CASE HandlerStep \/ Restart \/ BadInputCrash
  <2>1. handler' = IdleHandler \/ \E pc \in {"store", "rename", "badinput", "restore"} :
                                     handler' = [handler EXCEPT !.pc = pc]
    BY <1>2 DEF HandlerStep, Copy, Store, Unlink, Rename, StoreFails, RenameFails, BadChar,
       Reject, BadInput, Restore, Return, Restart, BadInputCrash, Boot
  <2>2. handler'.pc # "copy"
    BY <2>1 DEF IdleHandler, TypeOK, HandlerType
  <2> QED
    BY <2>2 DEF CopiesNew
<1>3. CASE MainStep \/ OtherPublishes \/ ConnectionLost \/ UNCHANGED vars
  <2>1. UNCHANGED <<handler, name>>
    BY <1>3 DEF MainStep, Connect, Check, Strlen, PublishName, Published, Reset, Take,
       SendItem, Sent, SentAll, Clear, OtherPublishes, ConnectionLost, vars
  <2> QED
    BY <2>1 DEF CopiesNew
<1> QED
  BY <1>1, <1>2, <1>3 DEF Next

(* What the service is told is kept, and what runs.                         *)
Kept == IF handler.pc = "rename" THEN {View(name)} ELSE {View(n) : n \in stored}
Running == IF main.pc = "dead" THEN {} ELSE {View(name)}

(* A device whose handler runs has started.                                 *)
LEMMA HandlerRuns == TypeOK /\ handler.pc # "idle" => main.pc # "dead"
  BY DEF TypeOK, MainType

(* A restart starts on what is kept; during the renaming of the new file,   *)
(* and when that failed before, nothing is kept and the device stays down.  *)
LEMMA BootIsService ==
    ASSUME TypeOK, Boot
    PROVE  Service!Start \/ Service!Stop \/ Service!Lose
<1>1. /\ handler'.pc = "idle" /\ stored' = stored /\ Kept' = {View(n) : n \in stored}
  BY DEF Boot, IdleHandler, Kept
<1>2. CASE stored = {}
  <2>1. main'.pc = "dead"
    BY <1>2 DEF Boot, IdleMain
  <2>2. Running' = {} /\ Kept' = {}
    BY <1>1, <1>2, <2>1 DEF Running
  <2>3. CASE handler.pc = "rename"
    <3>1. Kept = Running
      BY <2>3, HandlerRuns DEF Kept, Running
    <3> QED
      BY <1>1, <2>2, <2>3, <3>1 DEF Service!Lose, Kept, Running
  <2>4. CASE handler.pc # "rename"
    <3>1. Kept' = Kept
      BY <1>1, <2>4 DEF Kept
    <3> QED
      BY <1>1, <2>2, <3>1 DEF Service!Stop, Kept, Running
  <2> QED
    BY <2>3, <2>4
<1>3. CASE stored # {}
  <2>1. main'.pc = "poll" /\ name' \in stored
    BY <1>3 DEF Boot, IdleMain
  <2>2. handler.pc # "rename" /\ stored = {name'}
    BY <1>3, <2>1 DEF TypeOK, ConfigType
  <2>3. Kept = {View(name')} /\ Kept' = {View(name')} /\ Running' = {View(name')}
    BY <1>1, <2>1, <2>2 DEF Kept, Running, View
  <2> QED
    BY <1>1, <2>3 DEF Service!Start, Kept, Running
<1> QED
  BY <1>2, <1>3

(* Whatever the two tasks do meanwhile, a handler puts one new name in use  *)
(* and then stores that one or fails.  A restart comes back with the name   *)
(* last stored, or, from the removal of the old file on, if the new one     *)
(* never got its name, not at all; for any names, payloads and faults.      *)
THEOREM ImplementsService == Spec => ServiceSpec
<1>1. Init => Service!Init
  BY DEF Init, IdleHandler, IdleMain, Service!Init
<1>2. Init => CopiesNew
  BY DEF Init, IdleHandler, CopiesNew
<1>3. IInv /\ CopiesNew /\ [Next]_vars => [Service!Next]_(Service!vars)
  <2> SUFFICES ASSUME IInv, CopiesNew, [Next]_vars PROVE [Service!Next]_(Service!vars)
    OBVIOUS
  <2>0. TypeOK
    BY DEF IInv
  <2> USE DEF config
  <2>1. CASE Copy
    <3>1. /\ handler.pc = "copy" /\ handler'.pc = "store" /\ main' = main
          /\ name' = handler.payload /\ name' # name /\ stored' = stored
      BY <2>0, <2>1 DEF Copy, CopiesNew, TypeOK, HandlerType
    <3>2. Running = {View(name)} /\ Running' = {View(name')} /\ Kept' = Kept
      BY <2>0, <3>1, HandlerRuns DEF Running, Kept
    <3>3. View(name').wifi = View(name).wifi /\ View(name').name # View(name).name
      BY <3>1 DEF View
    <3> QED
      BY <3>1, <3>2, <3>3 DEF Service!Next, Service!ChangeName, Running, Kept
  <2>2. CASE Unlink
    <3>1. /\ handler.pc = "store" /\ handler'.pc = "rename"
          /\ stored # {} /\ UNCHANGED <<name, main>>
      BY <2>0, <2>2 DEF Unlink, TypeOK, HandlerType
    <3>2. Running = {View(name)} /\ Running' = Running
          /\ Kept # {} /\ Kept' = Running
      BY <2>0, <3>1, HandlerRuns DEF Running, Kept
    <3> QED
      BY <3>1, <3>2 DEF Service!Next, Service!Keep, Running, Kept
  <2>3. CASE Rename \/ StoreFails
    <3>1. /\ handler.pc \in {"store", "rename"} /\ handler'.pc = "idle"
          /\ UNCHANGED <<name, main>>
          /\ stored' = IF handler.pc = "rename" THEN {name} ELSE stored
      BY <2>3 DEF Rename, StoreFails, Return, IdleHandler
    <3>2. Kept' = Kept /\ Running' = Running
      BY <3>1 DEF Kept, Running
    <3> QED
      BY <3>1, <3>2 DEF Service!Next, Service!Finish, Running, Kept
  <2>4. CASE RenameFails
    <3>1. /\ handler.pc = "rename" /\ handler'.pc = "idle"
          /\ UNCHANGED <<name, main>> /\ stored' = {}
      BY <2>0, <2>4 DEF RenameFails, Return, IdleHandler, TypeOK, ConfigType
    <3>2. Kept = Running /\ Kept' = {} /\ Running' = Running
      BY <2>0, <3>1, HandlerRuns DEF Kept, Running
    <3> QED
      BY <3>1, <3>2 DEF Service!Next, Service!Lose, Running, Kept
  <2>5. CASE Restart \/ BadInputCrash
    BY <2>0, <2>5, BootIsService DEF Restart, BadInputCrash, Service!Next
  <2>6. ASSUME ~(Copy \/ Store \/ Restart \/ BadInputCrash)
        PROVE  UNCHANGED Service!vars
    <3>1. name' = name /\ stored' = stored
      BY <2>6 DEF Next, Deliver, DeliverTooLong, DeliverBadChar, DeliverSame, DeliverNew,
         Start, Ignore, HandlerStep, BadChar, Reject, BadInput, Restore, MainStep, Connect,
         Check, Strlen, PublishName, Published, Reset, Take, SendItem, Sent, SentAll,
         Clear, OtherPublishes, ConnectionLost, vars
    <3>2. \A pc \in {"store", "rename"} : handler.pc = pc <=> handler'.pc = pc
      BY <2>0, <2>6, StoringStep
    <3>3. main.pc = "dead" <=> main'.pc = "dead"
      <4>1. CASE MainStep
        BY <4>1, MainRecordStep DEF Alive
      <4>2. CASE ~MainStep
        BY <2>6, <4>2 DEF Next, Deliver, DeliverTooLong, DeliverBadChar, DeliverSame,
           DeliverNew, Start, Ignore, HandlerStep, BadChar, Reject, BadInput, Restore,
           OtherPublishes, ConnectionLost, vars
      <4> QED
        BY <4>1, <4>2
    <3>4. Kept' = Kept /\ Running' = Running
      BY <3>1, <3>2, <3>3 DEF Kept, Running
    <3> QED
      BY <3>2, <3>4 DEF Service!vars, Kept, Running
  <2> QED
    BY <2>1, <2>2, <2>3, <2>4, <2>5, <2>6 DEF Store
<1>4. IInv => TypeOK
  BY DEF IInv
<1> QED
  BY <1>1, <1>2, <1>3, <1>4, StepCopiesNew, InitInv, StepInv, PTL
     DEF Spec, ServiceSpec, Service!Spec

-----------------------------------------------------------------------------
(* The one way to block.                                                    *)

(* The running handler is not waiting for the queue's mutex.                *)
HandlerReady ==
    \/ handler.pc \in {"copy", "store", "rename"}
    \/ handler.pc \in {"badchar", "badinput", "reject", "restore"} /\ mutex = "none"

(* The main task waits neither for a lock nor for a handler to return.      *)
MainReady ==
    \/ main.pc = "poll" /\ connected /\ mutex = "none"
    \/ main.pc = "poll" /\ ~connected /\ owner = "none"
    \/ main.pc \in {"check", "strlen", "clear"}
    \/ main.pc \in {"publish", "reset"} /\ owner = "none"
    \/ main.pc \in {"published", "sent"} /\ handler.pc = "idle"
    \/ main.pc = "send" /\ (main.i >= Len(queue) \/ owner = "none")

(* A task that takes a step was ready.                                      *)
LEMMA StepsAreReady == (HandlerStep => HandlerReady) /\ (MainStep => MainReady)
<1>1. HandlerStep => HandlerReady
  BY DEF HandlerStep, Copy, Store, Unlink, Rename, StoreFails, RenameFails, BadChar,
         Reject, BadInput, Restore, QueuePublish, HandlerReady
<1>2. MainStep => MainReady
  BY DEF MainStep, Connect, Check, Strlen, PublishName, Published, Reset, Take, SendItem,
         Sent, SentAll, Clear, MainReady
<1> QED
  BY <1>1, <1>2

Blocked == main.pc # "dead" /\ ~HandlerReady /\ ~MainReady

(* In a device that has started, neither task is ready in exactly one       *)
(* situation: a handler waits for the mutex that mqtt_queue_send_all holds  *)
(* around its publishes, and that publish waits for the handler             *)
(* (main.cpp:554, 588-600).  Nothing else blocks the two: not a full queue, *)
(* a lost acknowledgement, a connection lost at any moment or the handler   *)
(* that runs inside a publish.                                              *)
THEOREM OneWayToBlock == Spec => [](Stuck <=> Blocked)
<1>1. IInv => (Stuck <=> Blocked)
  <2> SUFFICES ASSUME IInv PROVE Stuck <=> Blocked
    OBVIOUS
  <2>1. /\ handler.pc \in {"idle", "copy", "store", "rename",
                            "badchar", "badinput", "reject", "restore"}
        /\ main.pc \in {"poll", "check", "strlen", "publish", "published", "reset",
                        "send", "sent", "clear", "dead"}
        /\ OwnerRight
    BY DEF IInv, TypeOK, HandlerType, MainType, OwnerRight
  <2>2. mutex \in {"none", "main"} /\ (mutex = "main" <=> main.pc \in {"send", "sent", "clear"})
    BY DEF IInv, TypeOK, QueueType
  <2>3. (main.i < Len(queue)) <=> ~(main.i >= Len(queue))
    <3>1. queue \in Seq({"error", "name"}) /\ main.i \in 0..2
      BY DEF IInv, TypeOK, QueueType, MainType, QueueCapacity
    <3>2. Len(queue) \in Nat
      BY <3>1, LenProperties
    <3> QED
      BY <3>1, <3>2
  <2>4. connected \in BOOLEAN
    BY DEF IInv, TypeOK, TopicType
  <2>5. ASSUME Stuck PROVE Blocked
    BY <2>1, <2>2, <2>3, <2>5 DEF Stuck, HandlerReady, MainReady, OwnerRight, Blocked
  <2>6. ASSUME main.pc # "dead", ~HandlerReady, ~MainReady PROVE Stuck
    <3>1. main.pc \notin {"check", "strlen", "clear"}
      BY <2>6 DEF MainReady
    <3>2. handler.pc # "idle"
      BY <2>1, <2>2, <2>4, <2>6 DEF MainReady, OwnerRight
    <3>3. mutex = "main"
      BY <2>1, <2>2, <2>6, <3>2 DEF HandlerReady
    <3>4. main.pc = "sent" \/ (main.pc = "send" /\ main.i < Len(queue))
      BY <2>2, <2>3, <2>6, <3>1, <3>3 DEF MainReady
    <3> QED
      BY <2>1, <2>6, <3>2, <3>3, <3>4 DEF HandlerReady, Stuck
  <2> QED
    BY <2>5, <2>6 DEF Blocked
<1> QED
  BY <1>1, InitInv, StepInv, PTL DEF Spec

(* Stuck once, the two tasks stay exactly where they are, with the lock,    *)
(* the mutex, the queue and the configuration as they are, and no message   *)
(* is dispatched: only a restart ends it, which the firmware does not       *)
(* bring about, except by the unassigned `err'.                             *)
THEOREM StuckForGood ==
    Spec => [][Stuck => \/ Stuck' /\ UNCHANGED <<config, publish, owner, handler, main>>
                        \/ Boot]_vars
<1> DEFINE Frozen == UNCHANGED <<config, publish, owner, handler, main>>
<1>1. ASSUME IInv, Stuck <=> Blocked, [Next]_vars, Stuck
      PROVE  (Stuck' /\ Frozen) \/ Boot
  <2>1. ~HandlerStep /\ ~MainStep
    BY <1>1, StepsAreReady DEF Blocked
  <2>2. ~Deliver
    BY <1>1 DEF Stuck, Deliver, DeliverTooLong, DeliverBadChar, DeliverSame, DeliverNew,
       Start, Ignore, CanDispatch
  <2>3. CASE OtherPublishes \/ ConnectionLost \/ UNCHANGED vars
    <3>1. Frozen
      BY <2>3 DEF OtherPublishes, ConnectionLost, vars
    <3>2. Stuck'
      BY <1>1, <3>1 DEF Stuck, publish
    <3> QED
      BY <3>1, <3>2
  <2>4. CASE Restart \/ BadInputCrash
    BY <2>4 DEF Restart, BadInputCrash
  <2> QED
    BY <1>1, <2>1, <2>2, <2>3, <2>4 DEF Next
<1>2. /\ IInv /\ (Stuck <=> Blocked) /\ [Next]_vars
      => [Stuck => (Stuck' /\ Frozen) \/ Boot]_vars
  BY <1>1
<1> QED
  BY <1>2, InitInv, StepInv, OneWayToBlock, PTL DEF Spec

=============================================================================
