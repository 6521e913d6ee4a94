--------------------------- MODULE MCConfigStore ---------------------------
(***************************************************************************)
(* A configuration for checking ConfigStore with TLC: the built-in         *)
(* credentials and a site's own, no device name and two others.            *)
(***************************************************************************)
EXTENDS ConfigStore

MCWifi == {"builtin", "site"}
MCNames == {"", "lathe", "mill"}
MCDefault == <<"builtin", "builtin", "">>
=============================================================================
