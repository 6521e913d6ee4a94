------------------------- MODULE ConfigStoreProofs -------------------------
(***************************************************************************)
(* Proofs about ConfigStore: its type invariant, that the file config_load *)
(* opens is whole or absent and is replaced only by the configuration that *)
(* was written, that the credentials in use are the stored ones, and that  *)
(* it implements ConfigService.                                            *)
(***************************************************************************)
EXTENDS ConfigStore, SequenceTheorems, TLAPS

File == Seq(Wifi \cup Names)

(* What config_store has written when it is at pc: the first `item' values  *)
(* of the configuration, and all of it once it closes the file.             *)
WrittenSoFar ==
    /\ pc = "write" =>
          /\ item < Items
          /\ tmp \in File /\ Len(tmp) = item
          /\ \A i \in 1..item : tmp[i] = ram[i]
    /\ pc \in {"close", "unlink", "rename"} => tmp = ram

(* The file config_load opens is a whole configuration or not there.        *)
ConfigIsWhole == config = Absent \/ config \in Config

IInv == TypeOK /\ WrittenSoFar /\ ConfigIsWhole

-----------------------------------------------------------------------------
(* Facts about configurations.                                              *)

(* Three values of the right kinds are a configuration.                     *)
LEMMA ConfigOf ==
    ASSUME NEW s \in Wifi, NEW p \in Wifi, NEW n \in Names
    PROVE  /\ <<s, p, n>> \in Config
           /\ <<s, p, n>> \in File /\ Len(<<s, p, n>>) = Items
  BY DEF Config, File, Items

(* A configuration is a whole file.                                         *)
LEMMA ConfigFacts ==
    ASSUME NEW c \in Config
    PROVE  /\ c \in File /\ Len(c) = Items
           /\ c[1] \in Wifi /\ c[2] \in Wifi /\ c[3] \in Names
           /\ \A i \in 1..Items : c[i] \in Wifi \cup Names
  BY DEF Config, File, Items

(* Changing the name of a configuration leaves one with the same            *)
(* credentials.                                                             *)
LEMMA Rename ==
    ASSUME NEW c \in Config, NEW n \in Names
    PROVE  /\ [c EXCEPT ![3] = n] \in Config
           /\ [c EXCEPT ![3] = n][1] = c[1] /\ [c EXCEPT ![3] = n][2] = c[2]
  BY ConfigFacts, ExceptSeq DEF Config, File, Items

(* What config_load reads from a configuration is that configuration.       *)
LEMMA LoadReads ==
    ASSUME NEW c \in Config, NEW r
    PROVE  [i \in 1..Items |-> IF i <= Len(c) THEN c[i] ELSE r[i]] = c
<1>1. [i \in 1..Items |-> IF i <= Len(c) THEN c[i] ELSE r[i]] = [i \in 1..Items |-> c[i]]
  BY ConfigFacts DEF Items
<1>2. c \in [1..Items -> Wifi \cup Names]
  BY ConfigFacts DEF File
<1> QED
  BY <1>1, <1>2

(* A file with all values of a configuration is that configuration.         *)
LEMMA AllWritten ==
    ASSUME NEW f \in File, NEW c \in Config, Len(f) = Items,
           \A i \in 1..Items : f[i] = c[i]
    PROVE  f = c
<1>1. f \in [1..Items -> Wifi \cup Names] /\ c \in [1..Items -> Wifi \cup Names]
  BY ConfigFacts DEF File
<1> QED
  BY <1>1

-----------------------------------------------------------------------------
(* The inductive invariant.                                                 *)

(* A fault that happens was still allowed.                                  *)
LEMMA FaultType == TypeOK /\ Fault => faults' \in 0..MaxFaults
  BY BoundsAssumption DEF TypeOK, Fault

(* The initial state satisfies it.                                          *)
LEMMA InitInv == Init => IInv
<1> SUFFICES ASSUME Init PROVE IInv
  OBVIOUS
<1>1. config = Absent \/ (config \in Config /\ config \in File /\ Len(config) <= Items)
  <2>1. ASSUME NEW s \in Wifi, NEW p \in Wifi, NEW n \in Names, config = <<s, p, n>>
        PROVE  config \in Config
    BY <2>1, ConfigOf
  <2>2. config = Absent \/ config \in Config
    BY <2>1 DEF Init
  <2>3. Items <= Items
    BY DEF Items
  <2> QED
    BY <2>2, <2>3, ConfigFacts
<1>2. names \in 0..MaxNames /\ faults \in 0..MaxFaults /\ item \in 0..Items
  BY BoundsAssumption DEF Init, Items
<1>3. ram \in Config
  BY DefaultAssumption DEF Init
<1> QED
  BY <1>1, <1>2, <1>3 DEF Init, IInv, TypeOK, WrittenSoFar, ConfigIsWhole, File

(* Booting keeps it.                                                        *)
LEMMA BootInv == ASSUME IInv, Boot PROVE IInv'
<1> USE DEF files
<1>1. ram' \in Config
  <2>1. CASE Load
    BY <2>1, LoadReads DEF Load, IInv, ConfigIsWhole
  <2>2. CASE LoadReadError \/ LoadOpenError
    BY <2>2 DEF LoadReadError, LoadOpenError, IInv, TypeOK
  <2>3. CASE LoadDefault
    BY <2>3, DefaultAssumption DEF LoadDefault
  <2> QED
    BY <2>1, <2>2, <2>3 DEF Boot
<1>2. faults' \in 0..MaxFaults
  BY FaultType DEF Boot, Load, LoadReadError, LoadOpenError, LoadDefault, IInv, TypeOK
<1>3. /\ UNCHANGED <<files, item, names>> /\ pc' \in {"run", "dead", "open"}
      /\ caller' \in {"boot", "name"} /\ misread' \in BOOLEAN
  BY DEF Boot, Load, LoadReadError, LoadOpenError, LoadDefault, IInv, TypeOK
<1> QED
  BY <1>1, <1>2, <1>3 DEF IInv, TypeOK, WrittenSoFar, ConfigIsWhole, Storing

(* So does every step of config_store.                                      *)
LEMMA StoreInv == ASSUME IInv, Store PROVE IInv'
<1> USE DEF files
<1>1. faults' \in 0..MaxFaults
  BY FaultType DEF Store, StoreOpen, StoreWrite, StoreFailClose, StoreClose,
                   StoreUnlink, StoreRename, IInv, TypeOK
<1>2. UNCHANGED <<ram, caller, misread, names>>
  BY DEF Store, StoreOpen, StoreWrite, StoreFailClose, StoreClose, StoreUnlink, StoreRename
<1>3. CASE StoreOpen
  <2>1. CASE tmp' = <<>> /\ item' = 0 /\ pc' = "write"
    <3>1. tmp' \in File /\ Len(tmp') = 0 /\ 0 < Items /\ 0 \in 0..Items
      BY <2>1, EmptySeq DEF File, Items
    <3> QED
      BY <1>1, <1>2, <1>3, <2>1, <3>1
         DEF StoreOpen, IInv, TypeOK, WrittenSoFar, ConfigIsWhole, File, Storing
  <2>2. CASE StoreReturn(TRUE) /\ UNCHANGED <<tmp, item>>
    BY <1>1, <1>2, <1>3, <2>2
       DEF StoreOpen, StoreReturn, IInv, TypeOK, WrittenSoFar, ConfigIsWhole, Storing
  <2> QED
    BY <1>3, <2>1, <2>2 DEF StoreOpen
<1>4. CASE StoreWrite
  <2>1. /\ item \in 0..2 /\ tmp \in File /\ Len(tmp) = item
        /\ \A i \in 1..item : tmp[i] = ram[i]
        /\ ram \in Config /\ config' = config
    BY <1>4 DEF StoreWrite, IInv, TypeOK, WrittenSoFar, Items
  <2>2. CASE /\ tmp' = Append(tmp, ram[item + 1]) /\ item' = item + 1
             /\ pc' = IF item + 1 = Items THEN "close" ELSE "write"
    <3>1. ram[item + 1] \in Wifi \cup Names
      BY <2>1, ConfigFacts DEF Items
    <3>2. /\ tmp' \in File /\ Len(tmp') = item + 1
          /\ tmp'[item + 1] = ram[item + 1]
          /\ \A i \in 1..item : tmp'[i] = tmp[i]
      BY <2>1, <2>2, <3>1, AppendProperties DEF File
    <3>3. \A i \in 1..(item + 1) : tmp'[i] = ram[i]
      <4>1. \A i \in 1..(item + 1) : i \in 1..item \/ i = item + 1
        BY <2>1
      <4> QED
        BY <2>1, <3>2, <4>1
    <3>4. CASE item + 1 = Items
      <4>1. pc' = "close" /\ Len(tmp') = Items
        BY <2>2, <3>2, <3>4
      <4>2. tmp' = ram
        BY <2>1, <3>2, <3>3, <3>4, AllWritten
      <4>3. item' \in 0..Items /\ Len(tmp') <= Items
        BY <2>2, <3>4, <4>1 DEF Items
      <4> QED
        BY <1>1, <1>2, <2>1, <3>2, <4>1, <4>2, <4>3
           DEF IInv, TypeOK, WrittenSoFar, ConfigIsWhole, File, Storing
    <3>5. CASE item + 1 # Items
      <4>1. pc' = "write" /\ item' < Items /\ item' \in 0..Items /\ Len(tmp') <= Items
        BY <2>1, <2>2, <3>2, <3>5 DEF Items
      <4>2. Len(tmp') = item' /\ \A i \in 1..item' : tmp'[i] = ram'[i]
        BY <1>2, <2>2, <3>2, <3>3
      <4> QED
        BY <1>1, <1>2, <2>1, <3>2, <4>1, <4>2
           DEF IInv, TypeOK, WrittenSoFar, ConfigIsWhole, File, Storing
    <3> QED
      BY <3>4, <3>5
  <2>3. CASE pc' = "failclose" /\ UNCHANGED <<tmp, item>>
    BY <1>1, <1>2, <2>1, <2>3 DEF IInv, TypeOK, WrittenSoFar, ConfigIsWhole, Storing
  <2> QED
    BY <1>4, <2>2, <2>3 DEF StoreWrite
<1>5. CASE StoreFailClose
  BY <1>1, <1>2, <1>5
     DEF StoreFailClose, StoreReturn, IInv, TypeOK, WrittenSoFar, ConfigIsWhole, Storing
<1>6. CASE StoreClose
  BY <1>1, <1>2, <1>6
     DEF StoreClose, StoreReturn, IInv, TypeOK, WrittenSoFar, ConfigIsWhole, Storing
<1>7. CASE StoreUnlink
  BY <1>1, <1>2, <1>7
     DEF StoreUnlink, StoreReturn, IInv, TypeOK, WrittenSoFar, ConfigIsWhole, Storing
<1>8. CASE StoreRename
  <2>1. tmp = ram /\ ram \in Config
    BY <1>8 DEF StoreRename, IInv, TypeOK, WrittenSoFar
  <2>2. tmp \in File /\ Len(tmp) <= Items
    <3>1. tmp \in File /\ Len(tmp) = Items
      BY <2>1, ConfigFacts
    <3> QED
      BY <3>1 DEF Items
  <2> QED
    BY <1>1, <1>2, <1>8, <2>1, <2>2
     DEF StoreRename, StoreReturn, IInv, TypeOK, WrittenSoFar, ConfigIsWhole, Storing, File
<1> QED
  BY <1>3, <1>4, <1>5, <1>6, <1>7, <1>8 DEF Store

(* And every other step.                                                    *)
LEMMA StepInv == IInv /\ [Next]_vars => IInv'
<1> SUFFICES ASSUME IInv, [Next]_vars PROVE IInv'
  OBVIOUS
<1> USE DEF files
<1>1. ASSUME NEW n \in Names, NewName(n) PROVE IInv'
  <2>1. ram' \in Config
    BY <1>1, Rename DEF NewName, IInv, TypeOK
  <2>2. names' \in 0..MaxNames
    BY <1>1, BoundsAssumption DEF NewName, IInv, TypeOK
  <2> QED
    BY <1>1, <2>1, <2>2 DEF NewName, IInv, TypeOK, WrittenSoFar, ConfigIsWhole, Storing
<1>2. CASE Abort \/ Crash
  <2>1. faults' \in 0..MaxFaults /\ Reboot
    BY <1>2, FaultType DEF Abort, Crash, IInv, TypeOK
  <2>2. ram' \in Config /\ item' \in 0..Items
    BY <2>1, DefaultAssumption DEF Reboot, Items
  <2> QED
    BY <2>1, <2>2 DEF Reboot, IInv, TypeOK, WrittenSoFar, ConfigIsWhole
<1>3. CASE SameName \/ UNCHANGED vars
  BY <1>3 DEF SameName, vars, IInv, TypeOK, WrittenSoFar, ConfigIsWhole
<1> QED
  BY <1>1, <1>2, <1>3, BootInv, StoreInv DEF Next

-----------------------------------------------------------------------------
(* The theorems.                                                            *)

(* Every variable keeps its type, for any credentials, names and number of  *)
(* faults.                                                                  *)
THEOREM TypeCorrect == Spec => []TypeOK
<1>1. IInv => TypeOK
  BY DEF IInv
<1> QED
  BY <1>1, InitInv, StepInv, PTL DEF Spec

(* However a store fails or is cut off, and however often, the file that    *)
(* config_load opens has all its items or is not there.                     *)
THEOREM StaysComplete == Spec => []ConfigIsComplete
<1>1. IInv => ConfigIsComplete
  BY ConfigFacts DEF IInv, ConfigIsWhole, ConfigIsComplete
<1> QED
  BY <1>1, InitInv, StepInv, PTL DEF Spec

(* The old file goes only when the whole running configuration is in the    *)
(* new one, and the new file is that configuration.                         *)
THEOREM ReplacesSafely == Spec => ConfigChangesSafely
<1>1. ASSUME IInv, [Next]_vars, config' # config
      PROVE  IF config' = Absent THEN tmp = ram ELSE config' = ram
  <2>1. StoreUnlink \/ StoreRename
    BY <1>1 DEF Next, Boot, Load, LoadReadError, LoadOpenError, LoadDefault, Store,
       StoreOpen, StoreWrite, StoreFailClose, StoreClose, NewName, SameName, Abort,
       Crash, Reboot, vars, files
  <2>2. tmp = ram
    BY <1>1, <2>1 DEF StoreUnlink, StoreRename, IInv, WrittenSoFar
  <2> QED
    BY <1>1, <2>1, <2>2 DEF StoreUnlink, StoreRename, files
<1>2. IInv /\ [Next]_vars =>
        [config' # config => IF config' = Absent THEN tmp = ram ELSE config' = ram]_vars
  BY <1>1
<1> QED
  BY <1>2, InitInv, StepInv, PTL DEF Spec, ConfigChangesSafely

(* RunsOnStoredWifi, value by value.                                        *)
WifiIsStored ==
    pc \notin {"boot", "dead"} /\ ~misread /\ config # Absent =>
        config[1] = ram[1] /\ config[2] = ram[2]

(* A running device uses the credentials that are stored, and no store      *)
(* replaces them, unless a read error was taken for success.                *)
THEOREM KeepsStoredWifi == Spec => []RunsOnStoredWifi
<1>1. Init => WifiIsStored
  BY DEF Init, WifiIsStored
<1>2. IInv /\ WifiIsStored /\ [Next]_vars => WifiIsStored'
  <2> SUFFICES ASSUME IInv, WifiIsStored, [Next]_vars PROVE WifiIsStored'
    OBVIOUS
  <2> USE DEF files
  <2>1. CASE Load
    BY <2>1, LoadReads DEF Load, WifiIsStored, IInv, ConfigIsWhole
  <2>2. CASE LoadReadError \/ LoadOpenError \/ LoadDefault
    BY <2>2 DEF LoadReadError, LoadOpenError, LoadDefault, WifiIsStored
  <2>3. ASSUME NEW n \in Names, NewName(n) PROVE WifiIsStored'
    BY <2>3, Rename DEF NewName, WifiIsStored, IInv, TypeOK
  <2>4. CASE StoreOpen \/ StoreWrite \/ StoreFailClose \/ StoreClose \/ StoreUnlink
    BY <2>4 DEF StoreOpen, StoreWrite, StoreFailClose, StoreClose, StoreUnlink, WifiIsStored
  <2>5. CASE StoreRename
    BY <2>5 DEF StoreRename, WifiIsStored, IInv, WrittenSoFar
  <2>6. CASE Abort \/ Crash
    BY <2>6 DEF Abort, Crash, Reboot, WifiIsStored
  <2>7. CASE SameName \/ UNCHANGED vars
    BY <2>7 DEF SameName, vars, WifiIsStored
  <2> QED
    BY <2>1, <2>2, <2>3, <2>4, <2>5, <2>6, <2>7 DEF Next, Boot, Store
<1>3. IInv /\ WifiIsStored => RunsOnStoredWifi
  <2>1. ASSUME NEW c \in Config, NEW d \in Config, c[1] = d[1], c[2] = d[2]
        PROVE  SubSeq(c, 1, 2) = SubSeq(d, 1, 2)
    <3>1. ASSUME NEW e \in Config
          PROVE  /\ SubSeq(e, 1, 2) \in File /\ Len(SubSeq(e, 1, 2)) = 2
                 /\ SubSeq(e, 1, 2)[1] = e[1] /\ SubSeq(e, 1, 2)[2] = e[2]
      BY <3>1, ConfigFacts, SubSeqProperties DEF File, Items
    <3> QED
      BY <2>1, <3>1, SeqEqual DEF File
  <2> QED
    BY <2>1 DEF IInv, TypeOK, ConfigIsWhole, WifiIsStored, RunsOnStoredWifi
<1> QED
  BY <1>1, <1>2, <1>3, InitInv, StepInv, PTL DEF Spec
-----------------------------------------------------------------------------
(* The implementation of ConfigService.                                     *)

(* What a store replaces.  A boot stores only when there is no file, and    *)
(* then does not come as far as the rename; a device that has not loaded a  *)
(* configuration has the built-in one.                                      *)
Replacing ==
    /\ pc = "boot" => ram = Default
    /\ pc \in Storing /\ caller = "boot" => config = Absent /\ pc # "rename"
    /\ pc = "rename" => config = Absent

LEMMA StepReplacing == IInv /\ Replacing /\ [Next]_vars => Replacing'
<1> SUFFICES ASSUME IInv, Replacing, [Next]_vars PROVE Replacing'
  OBVIOUS
<1> USE DEF files, Storing
<1>1. CASE Boot
  BY <1>1 DEF Boot, Load, LoadReadError, LoadOpenError, LoadDefault, Replacing
<1>2. CASE StoreOpen \/ StoreWrite \/ StoreFailClose \/ StoreClose
  BY <1>2 DEF StoreOpen, StoreWrite, StoreFailClose, StoreClose, StoreReturn, Replacing
<1>3. CASE StoreUnlink \/ StoreRename
  BY <1>3 DEF StoreUnlink, StoreRename, StoreReturn, Replacing
<1>4. ASSUME NEW n \in Names, NewName(n) PROVE Replacing'
  BY <1>4 DEF NewName, Replacing
<1>5. CASE Abort \/ Crash
  BY <1>5 DEF Abort, Crash, Reboot, Replacing
<1>6. CASE SameName \/ UNCHANGED vars
  BY <1>6 DEF SameName, vars, Replacing
<1> QED
  BY <1>1, <1>2, <1>3, <1>4, <1>5, <1>6 DEF Next, Store

StoringName == pc \in Storing /\ caller = "name"

(* Booting starts the service, or does not.                                 *)
LEMMA BootServes == ASSUME IInv, Replacing, Boot PROVE [Service!Next]_(Service!vars)
<1> USE DEF files, Storing
<1>1. CASE Load
  <2>1. config # Absent /\ ram' = config /\ pc = "boot" /\ pc' = "run" /\ config' = config
    BY <1>1, LoadReads DEF Load, IInv, ConfigIsWhole
  <2>2. Kept = {View(config)} /\ Kept' = Kept /\ Running' = Kept
    BY <2>1 DEF Kept, Running, View
  <2>3. ~StoringName'
    BY <2>1 DEF StoringName
  <2> QED
    BY <2>2, <2>3 DEF Service!Next, Service!Start, StoringName
<1>2. CASE LoadReadError
  <2>1. config # Absent /\ ram' = Default /\ pc = "boot" /\ pc' = "run" /\ config' = config
    BY <1>2 DEF LoadReadError, Replacing
  <2>2. /\ Kept = {View(config)} /\ Kept' = Kept
        /\ Running = {} /\ Running' = {View(Default)}
    BY <2>1 DEF Kept, Running, View
  <2>3. ~StoringName'
    BY <2>1 DEF StoringName
  <2> QED
    BY <2>2, <2>3 DEF Service!Next, Service!StartOnDefault, StoringName
<1>3. CASE LoadOpenError \/ LoadDefault
  <2>1. /\ pc = "boot" /\ UNCHANGED files
        /\ pc' = "dead" \/ (pc' = "open" /\ caller' = "boot")
    BY <1>3 DEF LoadOpenError, LoadDefault
  <2>2. Kept' = Kept /\ Running = {} /\ Running' = {} /\ ~StoringName /\ ~StoringName'
    BY <2>1 DEF Kept, Running, View, StoringName
  <2> QED
    BY <2>2 DEF Service!vars, StoringName
<1> QED
  BY <1>1, <1>2, <1>3 DEF Boot

(* A store keeps the new configuration when it unlinks the old one, and     *)
(* loses it if the rename fails.                                            *)
LEMMA StoreServes == ASSUME IInv, Replacing, Store PROVE [Service!Next]_(Service!vars)
<1> USE DEF files, Storing
<1>a. UNCHANGED <<ram, caller>>
  BY DEF Store, StoreOpen, StoreWrite, StoreFailClose, StoreClose, StoreUnlink, StoreRename
<1>b. pc \in Storing /\ caller \in {"boot", "name"}
  BY DEF Store, StoreOpen, StoreWrite, StoreFailClose, StoreClose, StoreUnlink, StoreRename,
         IInv, TypeOK
<1>1. CASE UNCHANGED config /\ pc # "rename" /\ pc' # "rename"
  <2>1. \/ pc' \in Storing
        \/ pc' = IF caller = "boot" THEN "dead" ELSE "run"
    BY <1>1 DEF Store, StoreOpen, StoreWrite, StoreFailClose, StoreClose, StoreUnlink,
                StoreRename, StoreReturn
  <2>2. Kept' = Kept
    BY <1>1 DEF Kept, View
  <2>3. Running' = Running
    BY <1>a, <1>b, <2>1 DEF Running, View
  <2>4. StoringName' = StoringName \/ (StoringName /\ ~StoringName')
    BY <1>a, <1>b, <2>1 DEF StoringName
  <2> QED
    BY <2>2, <2>3, <2>4 DEF Service!Next, Service!Finish, Service!vars, StoringName
<1>2. CASE StoreUnlink /\ pc' = "rename"
  <2>1. pc = "unlink" /\ config # Absent /\ tmp' = tmp /\ tmp = ram
    BY <1>2 DEF StoreUnlink, StoreReturn, IInv, WrittenSoFar
  <2>2. caller = "name"
    BY <1>b, <2>1 DEF Replacing
  <2>3. /\ Kept = {View(config)} /\ Kept' = {View(tmp)}
        /\ Running = {View(ram)} /\ Running' = Running
    BY <1>2, <1>a, <2>1, <2>2 DEF Kept, Running, View
  <2>4. StoringName /\ StoringName'
    BY <1>2, <1>a, <2>1, <2>2 DEF StoringName
  <2>5. Kept # {} /\ Kept' = Running
    BY <2>1, <2>3
  <2> QED
    BY <2>3, <2>4, <2>5 DEF Service!Next, Service!Keep, StoringName
<1>3. CASE StoreRename
  <2>1. /\ pc = "rename" /\ pc' = "run" /\ config = Absent /\ tmp = ram /\ caller = "name"
        /\ config' \in {tmp, Absent}
    BY <1>3, <1>b DEF StoreRename, StoreReturn, Replacing, IInv, WrittenSoFar
  <2>2. /\ Kept = {View(ram)} /\ Kept' \in {Kept, {}}
        /\ Running = {View(ram)} /\ Running' = Running
    BY <1>a, <2>1 DEF Kept, Running, View
  <2>3. StoringName /\ ~StoringName'
    BY <2>1 DEF StoringName
  <2> QED
    BY <2>2, <2>3 DEF Service!Next, Service!Finish, Service!Lose, StoringName
<1>4. StoreRename \/ (StoreUnlink /\ pc' = "rename")
        \/ (UNCHANGED config /\ pc # "rename" /\ pc' # "rename")
  BY DEF Store, StoreOpen, StoreWrite, StoreFailClose, StoreClose, StoreUnlink, StoreReturn
<1> QED
  BY <1>1, <1>2, <1>3, <1>4

(* A device that stops in the middle of the replacement may have lost it.   *)
LEMMA RebootServes ==
    ASSUME IInv, Replacing, Reboot, pc # "boot"
    PROVE  [Service!Next]_(Service!vars)
<1> USE DEF files, Storing
<1>1. pc' = "boot" /\ config' = config
  BY DEF Reboot
<1>2. Running' = {} /\ ~StoringName'
  BY <1>1 DEF Running, StoringName
<1>3. CASE pc = "rename"
  <2>1. caller = "name" /\ config = Absent /\ tmp = ram
    BY <1>3 DEF Replacing, IInv, TypeOK, WrittenSoFar
  <2>2. Kept = {View(ram)} /\ Running = {View(ram)} /\ Kept' = {} /\ StoringName
    BY <1>1, <1>3, <2>1 DEF Kept, Running, View, StoringName
  <2> QED
    BY <1>2, <2>2 DEF Service!Next, Service!Lose, StoringName
<1>4. CASE pc # "rename"
  <2>1. Kept' = Kept
    BY <1>1, <1>4 DEF Kept, View
  <2> QED
    BY <1>2, <2>1 DEF Service!Next, Service!Stop, StoringName
<1> QED
  BY <1>3, <1>4

(* A new name changes nothing else of what the device runs on.              *)
LEMMA NewNameServes ==
    ASSUME IInv, NEW n \in Names, NewName(n)
    PROVE  [Service!Next]_(Service!vars)
<1> USE DEF files, Storing
<1>1. /\ pc = "run" /\ pc' = "open" /\ caller' = "name" /\ config' = config
      /\ n # ram[3] /\ ram' = [ram EXCEPT ![3] = n] /\ ram \in Config
  BY DEF NewName, IInv, TypeOK
<1>2. ram'[1] = ram[1] /\ ram'[2] = ram[2] /\ ram'[3] = n
  <2>1. ram' \in Config /\ ram'[1] = ram[1] /\ ram'[2] = ram[2]
    BY <1>1, Rename
  <2>2. [ram EXCEPT ![3] = n][3] = n
    BY <1>1, ConfigFacts, ExceptSeq DEF File, Items
  <2> QED
    BY <1>1, <2>1, <2>2
<1>3. /\ Kept' = Kept /\ Running = {View(ram)} /\ Running' = {View(ram')}
      /\ ~StoringName /\ StoringName'
  BY <1>1 DEF Kept, Running, View, StoringName
<1>4. View(ram').wifi = View(ram).wifi /\ View(ram').name # View(ram).name
  BY <1>1, <1>2 DEF View
<1> QED
  BY <1>3, <1>4 DEF Service!Next, Service!ChangeName, StoringName

(* The configuration file, with its unlink and its rename, its crashes and  *)
(* errors, implements the configuration that on_device_name counts on.      *)
THEOREM ImplementsService == Spec => ServiceSpec
<1>1. Init => Service!Init
  BY DEF Init, Service!Init, Running, Storing
<1>2. Init => Replacing
  BY DEF Init, Replacing, Storing
<1>3. IInv /\ Replacing /\ [Next]_vars => [Service!Next]_(Service!vars)
  <2> SUFFICES ASSUME IInv, Replacing, [Next]_vars PROVE [Service!Next]_(Service!vars)
    OBVIOUS
  <2>1. CASE Abort \/ Crash
    BY <2>1, RebootServes DEF Abort, Crash
  <2>2. CASE SameName \/ UNCHANGED vars
    BY <2>2 DEF SameName, vars, files, Service!vars, Kept, Running, View
  <2> QED
    BY <2>1, <2>2, BootServes, StoreServes, NewNameServes DEF Next
<1> QED
  BY <1>1, <1>2, <1>3, InitInv, StepInv, StepReplacing, PTL DEF Spec, ServiceSpec, Service!Spec
=============================================================================
