----------------------------- MODULE SetpointRanges -----------------------------
(***************************************************************************)
(* The ranges the coordinator publishes (setpoint_control.cpp), as the     *)
(* owner edits preferences and capabilities, units with different          *)
(* encodings connect, and they tell what they take.  Every reader          *)
(* recomputes them (refresh()), so they are a function of this state.      *)
(***************************************************************************)
EXTENDS SetpointPolicy

CONSTANTS
  ManualRanges,    \* ranges the owner may ask for
  ReportedRanges,  \* ranges a unit may report for a mode
  Masks,           \* capability masks the owner may ask for
  Quarters,        \* commanded temperatures, in quarters of a degree
  Bands            \* bands, in half degrees

\* Ranges of whole numbers of half degrees
Ints == [min: Int, max: Int]

\* Ranges, bands and targets are whole numbers of halves and quarters.
ASSUME RangesAssumption ==
  /\ ManualRanges \subseteq Ints /\ ReportedRanges \subseteq Ints
  /\ Quarters \subseteq Int /\ Bands \subseteq [heat: Int, cool: Int]

VARIABLES
  preferences,  \* of each mode: the selection, and the manual range
  detected,     \* of each mode: the range the unit reported, whether it is known, whether now
  rangeEncoding,     \* of the setpoints on the line
  last,         \* lastEncoding, stored
  modeMask

rangeVars == <<preferences, detected, rangeEncoding, last, modeMask>>

Unmade == CompatibilityRange
Preferences == {[selection |-> s, manual |-> Unmade] : s \in {"compatibility", "automatic"}}
                 \cup {[selection |-> "manual", manual |-> r] : r \in ManualRanges}
Unknown == [valid |-> FALSE, fresh |-> FALSE, range |-> Unmade]

\* A new device, and one from before the ranges
RangesInit ==
  /\ \E selection \in {"automatic", "compatibility"} :
       preferences = [m \in RangeModes |-> [selection |-> selection, manual |-> Unmade]]
  /\ detected = [m \in RangeModes |-> Unknown]
  /\ rangeEncoding = "unknown"
  /\ last = "unknown"
  /\ modeMask = UnitModes

\* resolveSettings()
Published == [m \in RangeModes |-> Resolved(m, preferences[m], detected[m], rangeEncoding, last)]

\* The first settings reply of a connection; the coordinator's loop stores the
\* encoding, which may fail.
Connected ==
  /\ rangeEncoding = "unknown"
  /\ rangeEncoding' \in Encodings \ {"unknown"}
  /\ last' \in {last, rangeEncoding'}
  /\ UNCHANGED <<preferences, detected, modeMask>>

EncodingStored ==
  /\ rangeEncoding # "unknown" /\ last # rangeEncoding
  /\ last' = rangeEncoding
  /\ UNCHANGED <<preferences, detected, rangeEncoding, modeMask>>

\* restartHandshake(): freshness goes with the connection; a range the loop has
\* not stored yet is forgotten by a restart.
Disconnected ==
  /\ rangeEncoding # "unknown"
  /\ rangeEncoding' = "unknown"
  /\ \E lost \in SUBSET RangeModes :
       detected' = [m \in RangeModes |->
                      IF m \in lost /\ detected[m].fresh THEN Unknown ELSE [detected[m] EXCEPT !.fresh = FALSE]]
  /\ UNCHANGED <<preferences, last, modeMask>>

\* handleIdentifyResponse(): what cannot be used on this line is not kept.
Identified(mode, range) ==
  /\ rangeEncoding # "unknown"
  /\ FitsAutomatic(mode, range, rangeEncoding)
  /\ detected' = [detected EXCEPT ![mode] = [valid |-> TRUE, fresh |-> TRUE, range |-> range]]
  /\ UNCHANGED <<preferences, rangeEncoding, last, modeMask>>

\* applySettings(): an edit is checked for the unit that is, or was, connected;
\* what is kept, for its structure.
EditEncoding(edited) == IF ~edited THEN "unknown" ELSE IF rangeEncoding = "unknown" THEN last ELSE rangeEncoding

ApplySettings(next) ==
  /\ \A m \in RangeModes :
       next[m].selection = "manual" =>
         ValidManual(m, next[m].manual, EditEncoding(next[m] # preferences[m]))
  /\ preferences' = next
  /\ UNCHANGED <<detected, rangeEncoding, last, modeMask>>

EditRange(mode, preference) == ApplySettings([preferences EXCEPT ![mode] = preference])

SetModeMask(mask) ==
  /\ modeMask' = Sanitized(mask)
  /\ UNCHANGED <<preferences, detected, rangeEncoding, last>>

RangesNext ==
  \/ Connected \/ EncodingStored \/ Disconnected
  \/ \E mode \in RangeModes, range \in ReportedRanges : Identified(mode, range)
  \/ \E mode \in RangeModes, preference \in Preferences : EditRange(mode, preference)
  \/ \E mask \in Masks : SetModeMask(mask)

RangesSpec == RangesInit /\ [][RangesNext]_rangeVars

---------------------------------------------------------------------------
(***************************************************************************)
(* Properties                                                              *)
(***************************************************************************)
Distance(quarters, half) == IF quarters >= 2 * half THEN quarters - 2 * half ELSE 2 * half - quarters
Accepts(mode, quarters) == TargetResult(quarters, mode) = "ok"

\* Whatever the owner and the unit have said, a target that is accepted becomes
\* one that the range allows, that survives the line (or it would never be
\* confirmed, and be taken for refused), that is not moved when it is checked
\* again, and that no reachable target is nearer to, but for the older units'
\* whole degrees below (setpoint_range.cpp 110-137, cn105_protocol.cpp 109-112).
TargetsReachable ==
  \A m \in RangeModes :
    LET mode == Resolved(m, preferences[m], detected[m], rangeEncoding, last)
        reachable == {half \in mode.range.min .. mode.range.max : OnTheLine(half, rangeEncoding) = half}
    IN  \A q \in {quarters \in Quarters : Accepts(mode, quarters)} :
          LET target == NormalizeTarget(q, mode, rangeEncoding)
          IN  /\ Accepts(mode, 2 * target) /\ target \in reachable
              /\ NormalizeTarget(2 * target, mode, rangeEncoding) = target
              /\ \/ \A other \in reachable : Distance(q, target) <= Distance(q, other)
                 \/ mode.source = "compatibility" /\ rangeEncoding # "enhanced" /\ Distance(q, target) < 4

\* HomeKit drops values outside the constraints it was told: every target of
\* every enabled mode lies inside the one range and on the one grid that are
\* advertised for all of them (setpoint_range.cpp 89-107, homekit_thermostat.cpp 139-178).
HomeKitTakesAll ==
  LET modes == Published
      all == Advertised(modes, modeMask)
  IN  \A m \in EnabledRanges(modeMask) :
        \A q \in {quarters \in Quarters : Accepts(modes[m], quarters)} :
          LET target == NormalizeTarget(q, modes[m], rangeEncoding)
          IN  /\ target \in all.range.min .. all.range.max
              /\ (target - all.range.min) % all.step = 0

\* The band the engine steers in lies in Auto's range and on its grid, two
\* degrees wide at least, is not moved when it is projected again, and where it
\* must be widened keeps its middle as nearly as the range and the grid allow
\* (setpoint_range.cpp 139-165).
BandsKeepApart ==
  LET mode == Resolved("auto", preferences["auto"], detected["auto"], rangeEncoding, last)
      low == GridUp(mode.range.min, mode.step)
      high == GridDown(mode.range.max, mode.step)
      gap == GridUp(4, mode.step)
  IN  \A band \in Bands :
        LET projected == ProjectBand(band, mode)
            heat == Clamp(band.heat, low, high)
            cool == Clamp(band.cool, low, high)
            Off(h) == LET twice == 2 * h + gap - (heat + cool) IN IF twice >= 0 THEN twice ELSE 0 - twice
        IN  /\ low <= projected.heat /\ projected.cool <= high
            /\ projected.cool - projected.heat >= gap
            /\ projected.heat % mode.step = 0 /\ projected.cool % mode.step = 0
            /\ ProjectBand(projected, mode) = projected
            /\ cool - heat < gap =>
                 \A h \in low .. high - gap : h % mode.step = 0 => Off(projected.heat) <= Off(h)

\* What is accepted can be reached, HomeKit is told so, and the band the engine
\* steers in keeps its distance.
TargetsServed == TargetsReachable /\ HomeKitTakesAll /\ BandsKeepApart

RangesTypeOK ==
  /\ preferences \in [RangeModes -> Preferences]
  /\ detected \in [RangeModes -> [valid: BOOLEAN, fresh: BOOLEAN, range: ReportedRanges \cup {Unmade}]]
  /\ rangeEncoding \in Encodings /\ last \in Encodings
  /\ modeMask \in SUBSET UnitModes
===============================================================================
