--------------------------- MODULE MCCn105Mailbox ---------------------------
(* Values of the constants of Cn105Mailbox for TLC. *)
EXTENDS Cn105Mailbox

MCTwoTemps == {42, 44}
MCUnit == [power |-> TRUE, mode |-> "auto", temp |-> 44, fan |-> "quiet"]

PowerSet(on) == [Nothing EXCEPT !.power = on]
ModeSet(m) == [Nothing EXCEPT !.mode = m]
TempSet(t) == [Nothing EXCEPT !.temp = t]
FanSet(s) == [Nothing EXCEPT !.fan = s]

MCMailInputs == {TempSet(42), PowerSet(FALSE)}
MCAutoInputs == {ModeSet("heat"), ModeSet("auto")}
MCTempInput == {TempSet(42)}
MCFanInput == {FanSet("high")}
MCWallFan == {ModeSet("fan")}
=============================================================================
