---------------------------- MODULE ConfigStore ----------------------------
(***************************************************************************)
(* The configuration of a device and its file in flash                     *)
(* (relay/machine-access/main/main.cpp): config_load at boot, config_store *)
(* from config_load and from on_device_name, the assertion on config_load  *)
(* in user_init, and the crashes and file system errors in between.        *)
(*                                                                         *)
(* A configuration is the sequence of the three values config_store writes *)
(* (ssid, password, device name), a file the sequence of those written so  *)
(* far, or Absent.  SPIFFS itself (external) is taken to do each unlink    *)
(* and rename entirely or not at all, and not to find an absent file.      *)
(***************************************************************************)
EXTENDS Integers, Sequences

CONSTANTS
    Wifi,        \* ssids and passwords
    Names,       \* device names
    Default,     \* the built-in configuration
    Absent,      \* no such file
    MaxNames,    \* bound on new device names received
    MaxFaults    \* bound on crashes and failed file operations

Items == 3
Config == {c \in Seq(Wifi \cup Names) :
              Len(c) = Items /\ c[1] \in Wifi /\ c[2] \in Wifi /\ c[3] \in Names}

ASSUME DefaultAssumption == Default \in Config
ASSUME BoundsAssumption == MaxNames \in Nat /\ MaxFaults \in Nat

VARIABLES
    config,    \* the file "config"
    tmp,       \* the file "config.tmp"
    ram,       \* main_config
    pc,        \* where the device is
    item,      \* items[] written so far by the running config_store
    caller,    \* who called the running config_store
    misread,   \* did the last config_load take a read error for success?
    names,     \* new names received so far (bounded)
    faults     \* faults so far (bounded)

files == <<config, tmp>>
vars == <<files, ram, pc, item, caller, misread, names, faults>>

Storing == {"open", "write", "close", "unlink", "rename", "failclose"}

(* Flash is freshly formatted or holds a configuration; static              *)
(* initialisation puts the built-in one in main_config.                     *)
Init ==
    /\ config \in {Absent} \cup
           {<<s, p, n>> : s \in Wifi, p \in Wifi, n \in Names}
    /\ tmp = Absent
    /\ ram = Default
    /\ pc = "boot"
    /\ item = 0
    /\ caller = "boot"
    /\ misread = FALSE
    /\ names = 0
    /\ faults = 0

Fault == faults < MaxFaults /\ faults' = faults + 1

-----------------------------------------------------------------------------
(* config_load, called by user_init.                                        *)

(* Mutant: ssid and password are taken for each other.                      *)
LoadSwaps ==
    /\ pc = "boot" /\ config # Absent
    /\ ram' = <<config[2], config[1], config[3]>>
    /\ pc' = "run"
    /\ misread' = FALSE
    /\ UNCHANGED <<files, item, caller, names, faults>>

Load ==
    /\ pc = "boot" /\ config # Absent
    /\ ram' = [i \in 1..Items |-> IF i <= Len(config) THEN config[i] ELSE ram[i]]
    /\ pc' = "run"
    /\ misread' = FALSE
    /\ UNCHANGED <<files, item, caller, names, faults>>

(* A read error jumps to the end with the last parser result, which is 0.   *)
LoadReadError ==
    /\ pc = "boot" /\ config # Absent
    /\ Fault
    /\ pc' = "run"
    /\ misread' = TRUE
    /\ UNCHANGED <<files, ram, item, caller, names>>

(* Mutant: every error is taken for a missing file.                         *)
LoadOpenErrorIsMissing ==
    /\ pc = "boot"
    /\ Fault
    /\ ram' = Default
    /\ pc' = "open" /\ caller' = "boot"
    /\ misread' = FALSE
    /\ UNCHANGED <<files, item, names>>

(* Opening fails for another reason than a missing file.                    *)
LoadOpenError ==
    /\ pc = "boot"
    /\ Fault
    /\ pc' = "dead"
    /\ UNCHANGED <<files, ram, item, caller, misread, names>>

LoadDefault ==
    /\ pc = "boot" /\ config = Absent
    /\ ram' = Default
    /\ pc' = "open" /\ caller' = "boot"
    /\ misread' = FALSE
    /\ UNCHANGED <<files, item, names, faults>>

-----------------------------------------------------------------------------
(* config_store.  Its caller at boot is asserted to succeed; on_device_name *)
(* does not look at the result.                                             *)

StoreReturn(failed) ==
    pc' = IF caller = "boot" /\ failed THEN "dead" ELSE "run"

(* Mutant: config.tmp is opened without O_TRUNC.                            *)
StoreOpenAppends ==
    /\ pc = "open"
    /\ tmp' = IF tmp = Absent THEN <<>> ELSE tmp
    /\ item' = 0 /\ pc' = "write"
    /\ UNCHANGED <<config, ram, caller, misread, names, faults>>

StoreOpen ==
    /\ pc = "open"
    /\ \/ /\ tmp' = <<>> /\ item' = 0 /\ pc' = "write"
          /\ UNCHANGED faults
       \/ /\ Fault /\ StoreReturn(TRUE)
          /\ UNCHANGED <<tmp, item>>
    /\ UNCHANGED <<config, ram, caller, misread, names>>

(* Mutant: the result of a write is not looked at.                          *)
StoreWriteIgnoresError ==
    /\ pc = "write"
    /\ \/ tmp' = Append(tmp, ram[item + 1]) /\ UNCHANGED faults
       \/ Fault /\ UNCHANGED tmp
    /\ item' = item + 1
    /\ pc' = IF item + 1 = Items THEN "close" ELSE "write"
    /\ UNCHANGED <<config, ram, caller, misread, names>>

StoreWrite ==
    /\ pc = "write"
    /\ \/ /\ tmp' = Append(tmp, ram[item + 1])
          /\ item' = item + 1
          /\ pc' = IF item + 1 = Items THEN "close" ELSE "write"
          /\ UNCHANGED faults
       \/ /\ Fault /\ pc' = "failclose"
          /\ UNCHANGED <<tmp, item>>
    /\ UNCHANGED <<config, ram, caller, misread, names>>

StoreFailClose ==
    /\ pc = "failclose"
    /\ StoreReturn(TRUE)
    /\ UNCHANGED <<files, ram, item, caller, misread, names, faults>>

StoreClose ==
    /\ pc = "close"
    /\ \/ pc' = "unlink" /\ UNCHANGED faults
       \/ Fault /\ StoreReturn(TRUE)
    /\ UNCHANGED <<files, ram, item, caller, misread, names>>

(* A missing "config" is an error like any other.                           *)
StoreUnlink ==
    /\ pc = "unlink"
    /\ \/ /\ config # Absent
          /\ config' = Absent /\ pc' = "rename"
          /\ UNCHANGED faults
       \/ /\ IF config = Absent THEN UNCHANGED faults ELSE Fault
          /\ StoreReturn(TRUE)
          /\ UNCHANGED config
    /\ UNCHANGED <<tmp, ram, item, caller, misread, names>>

StoreRename ==
    /\ pc = "rename"
    /\ \/ /\ config' = tmp /\ tmp' = Absent
          /\ StoreReturn(FALSE)
          /\ UNCHANGED faults
       \/ /\ Fault /\ StoreReturn(TRUE)
          /\ UNCHANGED files
    /\ UNCHANGED <<ram, item, caller, misread, names>>

-----------------------------------------------------------------------------
(* on_device_name with a well-formed name, and the device's ways to stop.   *)

NewName(n) ==
    /\ pc = "run" /\ names < MaxNames
    /\ n # ram[3]
    /\ ram' = [ram EXCEPT ![3] = n]
    /\ pc' = "open" /\ caller' = "name"
    /\ names' = names + 1
    /\ UNCHANGED <<files, item, misread, faults>>

(* The name the device has already: nothing is stored.                      *)
SameName ==
    /\ pc = "run"
    /\ UNCHANGED vars

Reboot ==
    /\ ram' = Default
    /\ pc' = "boot"
    /\ item' = 0
    /\ caller' = "boot"
    /\ misread' = FALSE
    /\ UNCHANGED <<files, names>>

(* Mutant: a failed assertion stops the device.                             *)
AbortHalts == pc = "dead" /\ UNCHANGED vars

(* A failed assertion aborts, and the device starts again.                  *)
Abort == pc = "dead" /\ Reboot /\ UNCHANGED faults

Crash == pc # "boot" /\ Fault /\ Reboot

Boot == Load \/ LoadReadError \/ LoadOpenError \/ LoadDefault

Store == StoreOpen \/ StoreWrite \/ StoreFailClose \/ StoreClose
            \/ StoreUnlink \/ StoreRename

Next ==
    \/ Boot \/ Store
    \/ \E n \in Names : NewName(n)
    \/ SameName
    \/ Abort \/ Crash

(* Boot, config_store and abort run to their end.                           *)
Spec == Init /\ [][Next]_vars /\ WF_vars(Boot \/ Store \/ Abort)

-----------------------------------------------------------------------------
(* Properties.                                                              *)

(* Every variable has its type.                                             *)
TypeOK ==
    /\ \A f \in {config, tmp} :
          f = Absent \/ (f \in Seq(Wifi \cup Names) /\ Len(f) <= Items)
    /\ ram \in Config
    /\ pc \in {"boot", "run", "dead"} \cup Storing
    /\ item \in 0..Items
    /\ caller \in {"boot", "name"}
    /\ misread \in BOOLEAN
    /\ names \in 0..MaxNames
    /\ faults \in 0..MaxFaults

(* However a store fails or is cut off, the file config_load will open is   *)
(* there with all its items or is not there at all: a boot never runs on    *)
(* part of a configuration (main.cpp:99-131).                               *)
ConfigIsComplete == config = Absent \/ Len(config) = Items

(* The old file goes only when its replacement, all of the running          *)
(* configuration, is on flash and closed; and a new file is that            *)
(* configuration (main.cpp:117-131).                                        *)
ConfigChangesSafely ==
    [][config' # config =>
          IF config' = Absent THEN tmp = ram ELSE config' = ram]_vars

(* While the device runs, the credentials it uses are those in flash, so    *)
(* that storing a name does not replace them, unless config_load took a     *)
(* read error for success (main.cpp:179-181).                               *)
RunsOnStoredWifi ==
    pc # "boot" /\ ~misread /\ config # Absent /\ pc # "dead" =>
        SubSeq(config, 1, 2) = SubSeq(ram, 1, 2)

(* A device whose config file stays in place runs again after every crash   *)
(* and every failed assertion.                                              *)
ComesBack == <>[](config # Absent) => []<>(pc = "run")

(* What ConfigService speaks of.  Once "config" is unlinked what is kept is *)
(* config.tmp, which is about to take its place; a device does not run      *)
(* before config_load has succeeded.                                        *)
View(c) == [wifi |-> <<c[1], c[2]>>, name |-> c[3]]

Kept ==
    IF pc = "rename" THEN {View(tmp)}
    ELSE IF config = Absent THEN {} ELSE {View(config)}

Running ==
    IF pc \in {"boot", "dead"} \/ (pc \in Storing /\ caller = "boot") THEN {} ELSE {View(ram)}

Service == INSTANCE ConfigService WITH
    Default <- View(Default),
    kept <- Kept,
    running <- Running,
    storing <- (pc \in Storing /\ caller = "name")

(* Through every crash and error, as seen from on_device_name and across    *)
(* restarts, the unlink and the rename are one atomic replacement that may  *)
(* be lost and never mixed, a boot runs on what is kept or, after a read    *)
(* error, on what is built in, and only a change of name is ever stored     *)
(* (main.cpp:86-187, 254-259).                                              *)
ServiceSpec == Service!Spec

(* main.cpp:687: assert(config_load(buf, sizeof(buf)) == 0).                *)
LoadSucceeds == pc # "dead"
=============================================================================
