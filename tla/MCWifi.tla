------------------------------ MODULE MCWifi ------------------------------
(* Instances of WifiRecovery for TLC. *)
EXTENDS WifiRecovery

\* A new device, and one at home.
MCBirths == {None, "home"}
===========================================================================
