---------------------------- MODULE MCCn105Link ----------------------------
(* Values of the constants of Cn105Link for TLC. *)
EXTENDS Cn105Link

MCPhases == <<"settings", "errorcode", "standby">>
MCAllAnswers == Packets
=============================================================================
