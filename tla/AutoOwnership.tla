----------------------------- MODULE AutoOwnership -----------------------------
(***************************************************************************)
(* Who steers the unit's one Auto setpoint (auto_band.h, the Auto half of  *)
(* setpoint_control.cpp): this device, from its band, or whoever stands at *)
(* the wall.  The driver counts the Auto changes it did not command; the   *)
(* main loop takes the count over, HomeKit, the browser and the dials      *)
(* claim Auto back, each under controlMutex, which the driver's task does  *)
(* not take.                                                               *)
(*                                                                         *)
(* The driver is reduced to what the hand-over sees of it: one command on  *)
(* its way, its evidence for the next answer, and a refusal (Cn105Mailbox  *)
(* has the rest).  Setpoints are in half degrees, on the Enhanced line.    *)
(***************************************************************************)
EXTENDS SetpointPolicy

CONSTANTS
  NoSet,           \* no setpoint in a command
  WallSets,        \* setpoints made at the wall
  InitialUnits,    \* what the unit is doing at first
  RoomTemps,       \* room temperatures
  UserBands,       \* bands asked for here
  AutoRange,       \* the owner's manual range of Auto
  MaxWallMoves, MaxClaims, MaxFailedSaves, MaxCycles, MaxLosses  \* bounds

\* Values are half degrees; AutoRange is one the unit can use, NoSet none of them.

VARIABLES
  ownUnit, reported,    \* in Auto and on?  at which setpoint?  In truth, and in _state.
  linked,               \* connected, and the encoding known
  command,              \* _wanted: what is on its way to the unit
  ownSent,              \* _sent: what the next answer may be answering
  refusal,              \* the setpoint the unit declined, and its answer
  ownExternal,          \* _externalAutoChanges
  seenExternal,
  stored,               \* autoOwnerUnit, the band, and Single or Range, in flash
  single,               \* autoSingleBoot()
  claim,                \* a submit() that takes Auto: "no", "held", "staged"
  touched,              \* history: who last made the Auto setpoint, as far as is known here
  spent                 \* the bounds used up

ownVars == <<ownUnit, reported, linked, command, ownSent, refusal, ownExternal, seenExternal,
             stored, single, claim, touched, spent>>
driverVars == <<ownUnit, reported, linked, command, ownSent, refusal, ownExternal>>

Mode == [range |-> AutoRange, source |-> "manual", step |-> 1, availability |-> "ready"]
Allowed(set) == TargetResult(2 * set, Mode) = "ok"
Nearest(set) == NormalizeTarget(2 * set, Mode, "enhanced")
Around(set) == ProjectBand([heat |-> set - 2, cool |-> set + 2], Mode)

NoCommand == [auto |-> "keep", set |-> NoSet]
NoRefusal == [target |-> NoSet, answer |-> NoSet]
Applied(base, cmd) ==
  [auto |-> IF cmd.auto = "keep" THEN base.auto ELSE cmd.auto = "enter",
   set |-> IF cmd.set = NoSet THEN base.set ELSE cmd.set]
\* merged(): switching off drops what was pending.
MergedAuto(old, new) ==
  [auto |-> IF new.auto = "keep" THEN old.auto ELSE new.auto,
   set |-> IF new.set # NoSet \/ new.auto = "leave" THEN new.set ELSE old.set]
EffectiveAuto == Applied(reported, command)

Spend(what, bound) == spent[what] < bound /\ spent' = [spent EXCEPT ![what] = @ + 1]

\* saveSetpointSettings(): it lands, or nothing of it does.
Saved(next) == stored' = next /\ UNCHANGED spent
SaveFails == UNCHANGED stored /\ Spend("saves", MaxFailedSaves)

OwnInit ==
  /\ ownUnit \in InitialUnits
  /\ reported = [auto |-> FALSE, set |-> AutoRange.min]
  /\ linked = FALSE /\ command = NoCommand /\ ownSent = NoCommand
  /\ refusal = NoRefusal /\ ownExternal = 0 /\ seenExternal = 0
  /\ \E byUnit, single0 \in BOOLEAN, band \in UserBands :
       /\ stored = [byUnit |-> byUnit, band |-> ProjectBand(band, Mode), single |-> single0]
       /\ single = single0
       /\ touched = IF byUnit THEN "wall" ELSE "device"
  /\ claim = "no"
  /\ spent = [wall |-> 0, claims |-> 0, saves |-> 0, boots |-> 0, losses |-> 0]

---------------------------------------------------------------------------
(***************************************************************************)
(* The unit, the line and the driver                                       *)
(***************************************************************************)
Wall(next) ==
  /\ next # ownUnit /\ Spend("wall", MaxWallMoves)
  /\ ownUnit' = next
  /\ UNCHANGED <<reported, linked, command, ownSent, refusal, ownExternal, seenExternal, stored,
                 single, claim, touched>>

\* A SET: it may be lost, and the unit may decline its setpoint.
Transmit ==
  /\ linked /\ command # NoCommand /\ claim # "held" /\ ownSent # command
  /\ ownSent' = command
  /\ \/ ownUnit' = Applied(ownUnit, command) /\ UNCHANGED spent
     \/ ownUnit' = Applied(ownUnit, [command EXCEPT !.set = NoSet]) /\ Spend("losses", MaxLosses)
  /\ UNCHANGED <<reported, linked, command, refusal, ownExternal,
                 seenExternal, stored, single, claim, touched>>

\* Whose is the change?  Within the grace of our SET any setpoint counts as ours.
OurSetpoint(inGrace) == ownSent.set # NoSet /\ (inGrace \/ ownUnit.set = ownSent.set)
OurAutoEntry == ownSent.auto = "enter"
ForeignAuto(inGrace) ==
  ownUnit.auto /\ IF reported.auto THEN ownUnit.set # reported.set /\ ~OurSetpoint(inGrace) ELSE ~OurAutoEntry

\* A SETTINGS answer is taken apart: attributed, confirmed, or a refusal.
Report(inGrace) ==
  /\ linked
  /\ LET foreign == ForeignAuto(inGrace)
         confirmed == ownSent # NoCommand /\ Applied(ownUnit, command) = ownUnit
         givenUp == ownSent # NoCommand /\ ~inGrace /\ ownSent = command
     IN  /\ ownExternal' = IF foreign THEN ownExternal + 1 ELSE ownExternal
         /\ touched' = IF foreign THEN "wall" ELSE touched
         /\ command' = IF claim # "held" /\ (confirmed \/ givenUp) THEN NoCommand ELSE command
         /\ refusal' = IF givenUp /\ ~confirmed /\ command.set # NoSet
                       THEN [target |-> command.set, answer |-> ownUnit.set]
                       ELSE IF ownUnit # reported THEN NoRefusal ELSE refusal
         /\ ownSent' = IF inGrace /\ ~confirmed /\ ownUnit.set = reported.set THEN ownSent ELSE NoCommand
  /\ reported' = ownUnit
  /\ UNCHANGED <<ownUnit, linked, seenExternal, stored, single, claim, spent>>

\* The first answer of a connection has nothing to compare with.
UnitFound ==
  /\ ~linked /\ linked' = TRUE /\ reported' = ownUnit
  /\ UNCHANGED <<ownUnit, command, ownSent, refusal, ownExternal,
                 seenExternal, stored, single, claim, touched, spent>>
UnitLost ==
  /\ linked /\ Spend("losses", MaxLosses)
  /\ linked' = FALSE /\ ownSent' = NoCommand /\ refusal' = NoRefusal
  /\ UNCHANGED <<ownUnit, reported, command, ownExternal,
                 seenExternal, stored, single, claim, touched>>

---------------------------------------------------------------------------
(***************************************************************************)
(* The coordinator                                                         *)
(***************************************************************************)
Refused(target) == refusal = [target |-> target, answer |-> reported.set]
Delivering(target) == command.set = target \/ Refused(target)

\* statusFor(): a setpoint outside the owner's range waits for its correction.
Satisfied == reported.auto => linked /\ Allowed(reported.set)

Stage(cmd) == command' = MergedAuto(command, cmd) /\ ownSent' = NoCommand

\* enforce()
Enforce ==
  /\ claim = "no" /\ linked /\ reported.auto /\ ~Allowed(reported.set)
  /\ ~Delivering(Nearest(reported.set)) /\ EffectiveAuto = reported
  /\ Stage([auto |-> "keep", set |-> Nearest(reported.set)])
  /\ UNCHANGED <<ownUnit, reported, linked, refusal, ownExternal,
                 seenExternal, stored, single, claim, touched, spent>>

\* submit(): a band, or Auto itself, is a claim; its command is held while it is
\* stored, and the count is taken over when it has been staged.
AutoEntry == [auto |-> "enter", set |-> Nearest(EffectiveAuto.set)]
SubmitClaim(cmd, band) ==
  /\ claim = "no" /\ ~single
  /\ spent.claims < MaxClaims
  /\ \/ /\ stored' = [stored EXCEPT !.byUnit = FALSE, !.band = ProjectBand(band, Mode)]
        /\ IF cmd = NoCommand THEN UNCHANGED <<command, ownSent>> ELSE Stage(cmd)
        /\ claim' = "held" /\ spent' = [spent EXCEPT !.claims = @ + 1]
     \/ SaveFails /\ UNCHANGED <<command, ownSent, claim>>
  /\ UNCHANGED <<ownUnit, reported, linked, refusal, ownExternal,
                 seenExternal, single, touched>>
ClaimStaged ==
  /\ claim = "held" /\ claim' = "staged"
  /\ UNCHANGED <<driverVars, seenExternal, stored, single, touched, spent>>
Claimed ==
  /\ claim = "staged" /\ claim' = "no"
  /\ seenExternal' = ownExternal /\ touched' = "device"
  /\ UNCHANGED <<driverVars, stored, single, spent>>

\* Commands that claim nothing: another mode, or off, and in Single a setpoint
Command(cmd) ==
  /\ claim = "no" /\ spent.claims < MaxClaims /\ (cmd.set # NoSet => single)
  /\ Stage(cmd) /\ spent' = [spent EXCEPT !.claims = @ + 1]
  /\ UNCHANGED <<ownUnit, reported, linked, refusal, ownExternal,
                 seenExternal, stored, single, claim, touched>>

\* Mutant: a change that waits for its hand-over does not silence the engine.
DeviceOwnsStored == ~single /\ ~stored.byUnit
DeviceOwns == ~single /\ ~stored.byUnit /\ ownExternal = seenExternal

\* steerAuto() and queueAutoTarget(): the engine follows the room inside the
\* band, coarsely, and finely outside it.
SteerAuto(room) ==
  /\ claim = "no" /\ DeviceOwns /\ linked /\ EffectiveAuto.auto
  /\ LET target == Nearest(Clamp(room, stored.band.heat, stored.band.cool))
         outside == room < stored.band.heat \/ room > stored.band.cool
         away == Greatest(target, EffectiveAuto.set) - Least(target, EffectiveAuto.set)
     IN  /\ 2 * away > IF outside THEN 1 ELSE 4
         /\ ~Delivering(target)
         /\ Stage([auto |-> "keep", set |-> target])
  /\ UNCHANGED <<ownUnit, reported, linked, refusal, ownExternal,
                 seenExternal, stored, single, claim, touched, spent>>

\* updateAutoOwnership(): the wall's setpoint becomes the band, once no
\* correction of it is under way; a change whose Auto has been left by then
\* leaves the owner as he was.
Importing == reported.auto /\ Satisfied
UpdateAutoOwnership ==
  /\ claim = "no" /\ ~single /\ ownExternal # seenExternal /\ linked
  /\ \/ ~reported.auto /\ seenExternal' = ownExternal /\ UNCHANGED <<stored, spent>>
     \/ /\ Importing
        /\ \/ /\ Saved([stored EXCEPT !.byUnit = TRUE, !.band = Around(reported.set)])
              /\ seenExternal' = ownExternal
           \/ SaveFails /\ UNCHANGED seenExternal
  /\ touched' = IF reported.auto \/ stored.byUnit THEN touched ELSE "device"
  /\ UNCHANGED <<driverVars, single, claim>>

\* saveAutoSingle(): Range hands Auto to the unit first; if the choice cannot be
\* stored, the owner and the band are put back, which may fail.
ChooseSingle ==
  /\ claim = "no" /\ ~stored.single
  /\ \/ Saved([stored EXCEPT !.single = TRUE])
     \/ SaveFails
  /\ UNCHANGED <<driverVars, seenExternal, single, claim, touched>>
Handed ==
  [stored EXCEPT !.byUnit = TRUE,
                 !.band = IF linked /\ reported.auto /\ Satisfied THEN Around(reported.set) ELSE @]
ChooseRange ==
  /\ claim = "no" /\ stored.single
  /\ \/ Saved([IF single THEN Handed ELSE stored EXCEPT !.single = FALSE])
     \/ SaveFails
     \/ single /\ stored' = Handed /\ Spend("saves", MaxFailedSaves)
  /\ UNCHANGED <<driverVars, seenExternal, single, claim, touched>>

\* The counts do not outlive the boot: a change still to be handed over is
\* forgotten, and only then does the history follow what is stored.
PowerCycle ==
  /\ Spend("boots", MaxCycles)
  /\ touched' = IF ~single /\ ownExternal # seenExternal /\ ~stored.byUnit THEN "device" ELSE
                IF claim # "no" THEN "device" ELSE touched
  /\ linked' = FALSE /\ command' = NoCommand /\ ownSent' = NoCommand
  /\ refusal' = NoRefusal /\ ownExternal' = 0 /\ seenExternal' = 0
  /\ reported' = [auto |-> FALSE, set |-> AutoRange.min]
  /\ single' = stored.single /\ claim' = "no"
  /\ UNCHANGED <<ownUnit, stored>>

OwnNext ==
  \/ \E auto \in BOOLEAN, set \in WallSets : Wall([auto |-> auto, set |-> set])
  \/ Transmit \/ UnitFound \/ UnitLost \/ Enforce
  \/ \E inGrace \in BOOLEAN : Report(inGrace)
  \/ SubmitClaim(AutoEntry, stored.band)
  \/ \E band \in UserBands : SubmitClaim(NoCommand, band)
  \/ ClaimStaged \/ Claimed
  \/ Command([auto |-> "leave", set |-> NoSet])
  \/ \E set \in WallSets : Command([auto |-> "keep", set |-> set])
  \/ \E room \in RoomTemps : SteerAuto(room)
  \/ UpdateAutoOwnership \/ ChooseSingle \/ ChooseRange \/ PowerCycle

OwnSpec == OwnInit /\ [][OwnNext]_ownVars

---------------------------------------------------------------------------
(***************************************************************************)
(* Properties                                                              *)
(***************************************************************************)
Steering == \E room \in RoomTemps : SteerAuto(room)

\* The last to touch the Auto setpoint wins: the engine never writes it once a
\* change from the wall has been counted, until Auto is claimed here again; not
\* after Single, in which the wall's changes are not taken over, either
\* (auto_band.h; setpoint_control.cpp 280-355).
LastTouchWins == [][Steering => touched = "device"]_ownVars

\* A counted change is taken over, or overtaken by a claim, once the unit stays
\* connected at a setpoint of the owner's range (setpoint_control.cpp 312-321).
HandsOver ==
  <>[](linked /\ Satisfied /\ ~single) => []<>(ownExternal = seenExternal)

OwnTypeOK ==
  /\ ownUnit \in [auto: BOOLEAN, set: Int] /\ reported \in [auto: BOOLEAN, set: Int]
  /\ command \in [auto: {"keep", "enter", "leave"}, set: Int \cup {NoSet}]
  /\ {linked, single} \subseteq BOOLEAN /\ seenExternal <= ownExternal
  /\ stored \in [byUnit: BOOLEAN, band: [heat: Int, cool: Int], single: BOOLEAN]
  /\ touched \in {"device", "wall"}
===============================================================================
