--------------------------- MODULE ConfigService ---------------------------
(***************************************************************************)
(* What config_load and config_store (relay/machine-access/main/main.cpp)  *)
(* promise to a device that takes a new name: it starts on the             *)
(* configuration that is kept, keeps a new name together with the          *)
(* credentials it runs on, all at once or not at all, and gives up what it *)
(* keeps only while it replaces it.  A device that has lost its            *)
(* configuration keeps no other.                                           *)
(*                                                                         *)
(* `kept' and `running' are sets of at most one configuration, a record of *)
(* wifi and name.                                                          *)
(***************************************************************************)

CONSTANT Default   \* the built-in configuration

VARIABLES
    kept,      \* the stored configuration, none after it is lost
    running,   \* the one the device runs on, none while it does not run
    storing    \* is a new name being stored?

vars == <<kept, running, storing>>

Init == running \in {{}, kept} /\ storing = FALSE

(* The device starts, or starts again.                                      *)
Start ==
    /\ kept # {}
    /\ running' = kept /\ storing' = FALSE
    /\ UNCHANGED kept

(* What is kept cannot be read.                                             *)
StartOnDefault ==
    /\ kept # {} /\ running = {}
    /\ running' = {Default} /\ storing' = FALSE
    /\ UNCHANGED kept

Stop ==
    /\ running' = {} /\ storing' = FALSE
    /\ UNCHANGED kept

(* A new name is in use, and is going to be stored.                         *)
ChangeName ==
    /\ ~storing
    /\ \E old \in running, new \in running' :
          /\ running = {old} /\ running' = {new}
          /\ new.wifi = old.wifi /\ new.name # old.name
    /\ storing' = TRUE
    /\ UNCHANGED kept

Keep ==
    /\ storing /\ kept # {}
    /\ kept' = running /\ storing' \in BOOLEAN
    /\ UNCHANGED running

(* Storing is over, whether the name is kept or not.                        *)
Finish ==
    /\ storing /\ storing' = FALSE
    /\ UNCHANGED <<kept, running>>

Lose ==
    /\ storing /\ kept = running
    /\ kept' = {} /\ storing' = FALSE
    /\ running' \in {running, {}}

Next == Start \/ StartOnDefault \/ Stop \/ ChangeName \/ Keep \/ Finish \/ Lose

Spec == Init /\ [][Next]_vars
=============================================================================
