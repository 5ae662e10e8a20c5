---------------------------- MODULE MCSettingsStore ----------------------------
(* Values of the constants of SettingsStore for TLC. *)
EXTENDS SettingsStore

MCUpgrade == [Blank EXCEPT !.band = "stored", !.rest = TRUE, !.legacy = TRUE]
MCDamaged == [MCUpgrade EXCEPT !.cfg = Damaged, !.single = FALSE]
MCBirths == {Blank, MCUpgrade, MCDamaged}
=============================================================================
