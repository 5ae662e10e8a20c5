--------------------------- MODULE MCCn105Polling ---------------------------
(***************************************************************************)
(* Polling under the fairness of Cn105Link, in two instances that one run  *)
(* takes in turn: "live", the constants of the cfg, has an unending stream *)
(* of writes and changes of the line rate against a unit that answers late *)
(* or never; "mute" has a prompt unit that never answers 0x04.             *)
(***************************************************************************)
EXTENDS Cn105Link

VARIABLE part

MCLivePhases == <<"settings", "standby">>
MCMutePhases == <<"settings", "errorcode", "standby">>
MCAllAnswers == Packets

Mute == INSTANCE Cn105Link WITH
  Phases <- MCMutePhases, Answers <- Packets,
  ConnectInterval <- 2, CommsTimeout <- 5, BootClearEnabled <- TRUE,
  Actors <- {"commands"}, Prompt <- TRUE, MaxWire <- 2

PartsInit == \/ part = "live" /\ Init
             \/ part = "mute" /\ Mute!Init
PartsNext == \/ part = "live" /\ Next /\ UNCHANGED part
             \/ part = "mute" /\ Mute!Next /\ UNCHANGED part

\* FairSpec, for each part.
PartsSpec ==
  /\ PartsInit /\ [][PartsNext]_<<vars, part>>
  /\ WF_vars(\/ part = "live" /\ Pass
             \/ part = "mute" /\ Mute!Pass)
  /\ WF_vars(\/ part = "live" /\ Tick
             \/ part = "mute" /\ Mute!Tick)
  /\ WF_vars(\/ part = "live" /\ Receive
             \/ part = "mute" /\ Mute!Receive)
  /\ SF_vars(\/ part = "live" /\ ReceiveConnectOk
             \/ part = "mute" /\ Mute!ReceiveConnectOk)

\* Polling goes on.  A stream of commands and remote feeds cannot starve it
\* (loop(), pollDue), and the phases after one that the unit never answers are
\* polled all the same (three timeouts disable it for good).
PollingGoesOn ==
  /\ part = "live" => PollsContinue /\ Reconnects
  /\ part = "mute" => Mute!LaterPhasesPolled /\ Mute!BootClearHappens
=============================================================================
