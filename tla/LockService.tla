---------------------------- MODULE LockService ----------------------------
(***************************************************************************)
(* What a machine-access device promises about its lock outputs: an output *)
(* changes only because somebody asked for it on that lock's own topic, or *)
(* because the device restarted (which locks everything), and what was     *)
(* asked is done unless the device restarts first.                         *)
(***************************************************************************)

CONSTANT Lock

VARIABLES
    output,   \* output[l]: is machine l locked out?
    asked     \* requests <<l, state>> received and not yet carried out

vars == <<output, asked>>

Init ==
    /\ output = [l \in Lock |-> TRUE]
    /\ asked = {}

Ask(l, state) ==
    /\ asked' = asked \cup {<<l, state>>}
    /\ UNCHANGED output

Obey(l, state) ==
    /\ <<l, state>> \in asked
    /\ output' = [output EXCEPT ![l] = state]
    /\ asked' = asked \ {<<l, state>>}

ObeySome == \E l \in Lock, state \in BOOLEAN : Obey(l, state)

Restart ==
    /\ output' = [l \in Lock |-> TRUE]
    /\ asked' = {}

Next ==
    \/ \E l \in Lock, state \in BOOLEAN : Ask(l, state)
    \/ ObeySome
    \/ Restart

Spec == Init /\ [][Next]_vars /\ WF_vars(ObeySome)
=============================================================================
