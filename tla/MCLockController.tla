-------------------------- MODULE MCLockController --------------------------
(***************************************************************************)
(* Payloads for checking LockController with TLC.                          *)
(***************************************************************************)
EXTENDS LockController

(* One command each, a payload that changes its mind, one that is cut short *)
(* by a pair that does not fit, one that commands nothing, and the payload  *)
(* README.md:76 shows.                                                      *)
MCMessages ==
    {<<"lock">>, <<"unlock">>, <<"refresh">>, <<"unlock", "lock">>,
     <<"unlock", "overlong">>, <<"badcommand">>, <<"request", "unlock">>}

(* Enough to tell whose command is carried out.                             *)
MCCommands == {<<"lock">>, <<"unlock">>, <<"refresh">>, <<"otherkey">>}
=============================================================================
