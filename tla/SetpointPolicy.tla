----------------------------- MODULE SetpointPolicy -----------------------------
(***************************************************************************)
(* Which setpoints a mode takes (setpoint_range.cpp, mode_caps.h): pure    *)
(* functions of the owner's preference, what the unit has told of itself,  *)
(* and the encoding of its setpoints.  Ranges, bands and results are in    *)
(* half degrees, as in the code; a commanded temperature, a float there,   *)
(* is in quarters of a degree, so that ties are cases of their own.        *)
(***************************************************************************)
EXTENDS Integers, FiniteSets

RangeModes == {"heat", "coolDry", "auto"}
Encodings == {"unknown", "legacy", "enhanced"}
UnitModes == {"heat", "cool", "dry", "fan", "auto"}

Span(low, high) == [min |-> low, max |-> high]
CompatibilityRange == Span(32, 61)
Legacy == Span(32, 62)
Enhanced == Span(20, 62)

Least(a, b) == IF a <= b THEN a ELSE b
Greatest(a, b) == IF a >= b THEN a ELSE b
Clamp(x, low, high) == Greatest(low, Least(x, high))

\* The nearest value of the grid, not above and not below
GridDown(x, step) == (x \div step) * step
GridUp(x, step) == GridDown(x + step - 1, step)

---------------------------------------------------------------------------
(***************************************************************************)
(* mode_mask_sanitize(): at least one mode, and Auto with Heat and Cool    *)
(***************************************************************************)
Sanitized(mask) ==
  IF mask \ {"auto"} = {} THEN UnitModes
  ELSE IF {"heat", "cool"} \subseteq mask THEN mask ELSE mask \ {"auto"}

\* rangeIndex(): fan mode has no setpoint.
RangeModeOf(mode) ==
  CASE mode = "heat" -> "heat" [] mode \in {"cool", "dry"} -> "coolDry" [] mode = "auto" -> "auto"
    [] OTHER -> "none"

---------------------------------------------------------------------------
(***************************************************************************)
(* Ranges                                                                  *)
(***************************************************************************)
StepFor(encoding) == IF encoding = "legacy" THEN 2 ELSE 1

EnvelopeFor(encoding) ==
  CASE encoding = "legacy" -> Legacy [] encoding = "enhanced" -> Enhanced [] OTHER -> CompatibilityRange

Usable(mode, range) == range.min < range.max /\ (mode = "auto" => range.max - range.min >= 4)

\* automaticRange(): what the unit says, inside the envelope and on the grid
Aligned(range, encoding) ==
  Span(GridUp(Greatest(range.min, EnvelopeFor(encoding).min), StepFor(encoding)),
       GridDown(Least(range.max, EnvelopeFor(encoding).max), StepFor(encoding)))
FitsAutomatic(mode, range, encoding) ==
  /\ range.min < range.max
  /\ Greatest(range.min, EnvelopeFor(encoding).min) <= Least(range.max, EnvelopeFor(encoding).max)
  /\ Usable(mode, Aligned(range, encoding))

\* validateManual(): the Enhanced envelope while the encoding is unknown
ValidManual(mode, range, encoding) ==
  LET envelope == IF encoding = "legacy" THEN Legacy ELSE Enhanced
  IN  /\ Usable(mode, range) /\ range.min >= envelope.min /\ range.max <= envelope.max
      /\ range.min % StepFor(encoding) = 0 /\ range.max % StepFor(encoding) = 0

\* resolve(), for one mode.  A preference is a selection and the manual range;
\* a detection is a range and whether it is known, and from this boot.
Baseline(current) == IF current = "unknown" THEN "awaitingBaseline" ELSE "ready"
ResolvedManual(mode, manual, current, presented) ==
  [range |-> manual, source |-> "manual",
   step |-> IF ValidManual(mode, manual, presented) THEN StepFor(presented) ELSE 1,
   availability |-> IF current # "unknown" /\ ~ValidManual(mode, manual, current)
                    THEN "incompatible" ELSE Baseline(current)]
ResolvedCompatibility == [range |-> CompatibilityRange, source |-> "compatibility", step |-> 1, availability |-> "ready"]
ResolvedAutomatic(mode, detection, current, presented) ==
  LET known == detection.valid /\ FitsAutomatic(mode, detection.range, presented)
  IN  [range |-> Aligned(IF known THEN detection.range ELSE CompatibilityRange, presented),
       source |-> IF ~known THEN "fallback" ELSE IF detection.fresh THEN "fresh" ELSE "cached",
       step |-> StepFor(presented), availability |-> Baseline(current)]
Resolved(mode, preference, detection, current, last) ==
  LET presented == IF current = "unknown" THEN last ELSE current
  IN  CASE preference.selection = "manual" -> ResolvedManual(mode, preference.manual, current, presented)
        [] preference.selection = "compatibility" -> ResolvedCompatibility
        [] OTHER -> ResolvedAutomatic(mode, detection, current, presented)

---------------------------------------------------------------------------
(***************************************************************************)
(* What is advertised to HomeKit: one range for all the enabled modes      *)
(***************************************************************************)
EnabledRanges(mask) == {RangeModeOf(m) : m \in mask} \ {"none"}
Smallest(numbers) == CHOOSE x \in numbers : \A y \in numbers : x <= y
Largest(numbers) == CHOOSE x \in numbers : \A y \in numbers : x >= y

\* Mutant: the coarser step is advertised.
AdvertisedCoarse(modes, mask) ==
  LET on == EnabledRanges(mask)
  IN  IF on = {} THEN [range |-> CompatibilityRange, step |-> 1]
      ELSE [range |-> Span(Smallest({modes[m].range.min : m \in on}), Largest({modes[m].range.max : m \in on})),
            step |-> Largest({modes[m].step : m \in on})]
Advertised(modes, mask) ==
  LET on == EnabledRanges(mask)
  IN  IF on = {} THEN [range |-> CompatibilityRange, step |-> 1]
      ELSE [range |-> Span(Smallest({modes[m].range.min : m \in on}), Largest({modes[m].range.max : m \in on})),
            step |-> Smallest({modes[m].step : m \in on})]

---------------------------------------------------------------------------
(***************************************************************************)
(* Targets                                                                 *)
(***************************************************************************)
\* validateTarget()
TargetResult(quarters, mode) ==
  CASE mode.availability = "awaitingBaseline" -> "awaitingBaseline"
    [] mode.availability = "incompatible" -> "incompatible"
    [] quarters < 2 * mode.range.min \/ quarters > 2 * mode.range.max -> "outsideRange"
    [] OTHER -> "ok"

\* Mutant: what an older unit cannot be told is forgotten.
NormalizeInHalves(quarters, mode, encoding) ==
  (Clamp(quarters, 2 * mode.range.min, 2 * mode.range.max) + 1) \div 2
\* normalizeTarget(): std::round() takes a tie upwards.
NormalizeTarget(quarters, mode, encoding) ==
  LET step == mode.step
      clamped == Clamp(quarters, 2 * mode.range.min, 2 * mode.range.max)
      half == (clamped + 1) \div 2
      rounded == GridDown(clamped + step, 2 * step) \div 2
  IN  IF mode.source = "compatibility"
      THEN IF encoding = "enhanced" THEN half ELSE GridDown(half, 2)
      ELSE Clamp(rounded, GridUp(mode.range.min, step), GridDown(mode.range.max, step))

\* Mutant: both ends are rounded, and the gap is left to luck.
ProjectEnds(band, mode) ==
  LET low == GridUp(mode.range.min, mode.step) high == GridDown(mode.range.max, mode.step)
      heat == Clamp(GridDown(band.heat, mode.step), low, high)
  IN  [heat |-> heat, cool |-> Greatest(heat, Clamp(GridUp(band.cool, mode.step), low, high))]
\* projectBand(): two degrees apart at least, around the same midpoint.
ProjectBand(band, mode) ==
  LET step == mode.step
      low == GridUp(mode.range.min, step)
      high == GridDown(mode.range.max, step)
      gap == GridUp(4, step)
      NearestLower(twice) == GridDown(twice + step - 1, 2 * step) \div 2
      heat0 == Clamp(band.heat, low, high)
      cool0 == Clamp(band.cool, low, high)
      narrow == cool0 - heat0 < gap
      heat1 == NearestLower(IF narrow THEN heat0 + cool0 - gap ELSE 2 * heat0)
      cool1 == IF narrow THEN heat1 + gap ELSE NearestLower(2 * cool0)
      cool2 == cool1 + Greatest(0, low - heat1)
      heat2 == Greatest(heat1, low)
  IN  [heat |-> heat2 - Greatest(0, cool2 - high), cool |-> Least(cool2, high)]

---------------------------------------------------------------------------
(***************************************************************************)
(* quantizeSetpointFor(): what a target becomes on the line, as the driver *)
(* expects to read it back                                                 *)
(***************************************************************************)
OnTheLine(half, encoding) == IF encoding = "enhanced" THEN half ELSE GridDown(half, 2)
===============================================================================
