---------------------------- MODULE MCDeviceName ----------------------------
(***************************************************************************)
(* Names and payloads for checking DeviceName with TLC.  A name has at     *)
(* most two characters.                                                    *)
(***************************************************************************)
EXTENDS DeviceName

MCLetters == {"a", "b"}
MCStored == {<<>>, <<"a">>}

(* Two names of which one is the beginning of the other, one character that *)
(* is not allowed, a payload that does not fit, and an empty one.           *)
MCPayloads == {<<"a">>, <<"b", "a">>, <<"b">>, <<Other>>, <<"a", "a", "a">>, <<>>}
MCRefused == {<<Other>>}
=============================================================================
