----------------------------- MODULE Clients_proofs -----------------------------
(***************************************************************************)
(* Theorems about what the controllers steer and are told: who steers Auto, *)
(* what the published ranges are good for, the accessory database, and the *)
(* mailbox of the browsers.                                                *)
(***************************************************************************)
EXTENDS AutoOwnership, SetpointRanges, HomeKitDb, WebDiscovery,
        FiniteSetTheorems, WellFoundedInduction, TLAPS

---------------------------------------------------------------------------
(***************************************************************************)
(* Who steers Auto                                                         *)
(***************************************************************************)
\* The count that was taken over is one the driver has reached.
Counted == ownExternal \in Nat /\ seenExternal \in Nat /\ seenExternal <= ownExternal

\* What the stored owner and the counts say is what was last touched.
OwnersHold ==
  ~single /\ ~stored.byUnit /\ ownExternal = seenExternal /\ claim = "no" => touched = "device"

\* A boot in Single leads to Range only with Auto handed over.
SingleHands == single /\ ~stored.byUnit => stored.single

OwnTypes ==
  /\ stored = [byUnit |-> stored.byUnit, band |-> stored.band, single |-> stored.single]
  /\ stored.byUnit \in BOOLEAN /\ stored.single \in BOOLEAN /\ single \in BOOLEAN

SteerInv == OwnTypes /\ Counted /\ OwnersHold /\ SingleHands

\* Initially nobody has touched Auto but the unit.
LEMMA OwnInit0 == OwnInit => SteerInv
BY DEF OwnInit, SteerInv, OwnTypes, Counted, OwnersHold, SingleHands

\* Steps of the unit and the line, and commands that claim nothing
Apart == UNCHANGED <<ownExternal, seenExternal, stored, single, claim, touched>>

\* No report, command, claim, save, choice or power cycle breaks it.
LEMMA OwnStep == SteerInv /\ [OwnNext]_ownVars => SteerInv'
<1> SUFFICES ASSUME SteerInv, [OwnNext]_ownVars PROVE SteerInv'
  OBVIOUS
<1> USE DEF SteerInv, OwnTypes, Counted, OwnersHold, SingleHands
<1>1. CASE Apart
  BY <1>1 DEF Apart
<1>2. ASSUME NEW inGrace \in BOOLEAN, Report(inGrace) PROVE SteerInv'
  BY <1>2 DEF Report
<1>3. ASSUME NEW cmd, NEW band, SubmitClaim(cmd, band) PROVE SteerInv'
  BY <1>3 DEF SubmitClaim, SaveFails
<1>4. CASE ClaimStaged
  BY <1>4 DEF ClaimStaged, driverVars
<1>5. CASE Claimed
  BY <1>5 DEF Claimed, driverVars
<1>6. CASE UpdateAutoOwnership
  <2>1. ~single /\ single' = single /\ claim' = claim /\ ownExternal' = ownExternal
    BY <1>6 DEF UpdateAutoOwnership, driverVars
  <2>2. CASE UNCHANGED <<stored, seenExternal>>
    BY <1>6, <2>1, <2>2 DEF UpdateAutoOwnership
  <2>3. CASE stored' = [stored EXCEPT !.byUnit = TRUE, !.band = Around(reported.set)] /\ seenExternal' = ownExternal
    <3>1. stored' = [byUnit |-> TRUE, band |-> Around(reported.set), single |-> stored.single]
      BY <2>3
    <3>2. /\ stored'.byUnit /\ stored'.single = stored.single
          /\ stored' = [byUnit |-> stored'.byUnit, band |-> stored'.band, single |-> stored'.single]
      BY <3>1
    <3> QED BY <2>1, <2>3, <3>2
  <2>4. CASE ~reported.auto /\ seenExternal' = ownExternal /\ UNCHANGED stored
    BY <1>6, <2>1, <2>4 DEF UpdateAutoOwnership
  <2> QED BY <1>6, <2>2, <2>3, <2>4 DEF UpdateAutoOwnership, Saved, SaveFails
<1>7. CASE ChooseSingle
  BY <1>7 DEF ChooseSingle, Saved, SaveFails, driverVars
<1>8. CASE ChooseRange
  BY <1>8 DEF ChooseRange, Handed, Saved, SaveFails, driverVars
<1>9. CASE PowerCycle
  BY <1>9 DEF PowerCycle
<1>10. ASSUME \/ \E auto \in BOOLEAN, set \in WallSets : Wall([auto |-> auto, set |-> set])
              \/ Transmit \/ UnitFound \/ UnitLost \/ Enforce
              \/ Command([auto |-> "leave", set |-> NoSet])
              \/ \E set \in WallSets : Command([auto |-> "keep", set |-> set])
              \/ \E room \in RoomTemps : SteerAuto(room)
              \/ UNCHANGED ownVars
       PROVE  Apart
  BY <1>10 DEF Apart, Wall, Transmit, UnitFound, UnitLost, Enforce, Command, SteerAuto, ownVars
<1> QED BY <1>1, <1>2, <1>3, <1>4, <1>5, <1>6, <1>7, <1>8, <1>9, <1>10 DEF OwnNext

\* Once a change from the wall was counted, the engine does not write the Auto
\* setpoint until it is claimed here again: for any changes, claims, failing
\* saves, choices of Single or Range and power cycles.
THEOREM OwnerSteers == OwnSpec => LastTouchWins
<1>1. SteerInv => (Steering => touched = "device")
  BY DEF SteerInv, OwnersHold, Steering, SteerAuto, DeviceOwns
<1>2. OwnSpec => []SteerInv
  BY OwnInit0, OwnStep, PTL DEF OwnSpec
<1>3. SteerInv /\ [OwnNext]_ownVars => [Steering => touched = "device"]_ownVars
  BY <1>1
<1> QED BY <1>2, <1>3, PTL DEF OwnSpec, LastTouchWins
---------------------------------------------------------------------------
(***************************************************************************)
(* The ranges                                                              *)
(***************************************************************************)
\* What is stored of a mode: a manual range is one that some unit can use.
Preferable(m, p) ==
  /\ p.selection \in {"automatic", "compatibility", "manual"} /\ p.manual \in Ints
  /\ p.selection = "manual" => ValidManual(m, p.manual, "unknown")

\* What is stored and reported can be resolved.
RangesInv ==
  /\ \A m \in RangeModes : Preferable(m, preferences[m]) /\ detected[m].range \in Ints
  /\ preferences \in [RangeModes -> Preferences]
  /\ detected \in [RangeModes -> [valid: BOOLEAN, fresh: BOOLEAN, range: Ints]]
  /\ rangeEncoding \in Encodings /\ last \in Encodings

\* A range on the grid of its step.
OnGrid(r) ==
  /\ r.range \in Ints /\ r.range.min < r.range.max
  /\ r.step \in {1, 2}
  /\ r.step = 2 => r.range.min % 2 = 0 /\ r.range.max % 2 = 0

\* The grid of a step of one and of two.
LEMMA Grid ==
  /\ \A x \in Int : GridDown(x, 1) = x /\ GridUp(x, 1) = x
  /\ \A x \in Int : /\ GridDown(x, 2) \in Int /\ GridUp(x, 2) \in Int
                    /\ GridDown(x, 2) % 2 = 0 /\ GridUp(x, 2) % 2 = 0
                    /\ x - 1 <= GridDown(x, 2) /\ GridDown(x, 2) <= x
                    /\ x <= GridUp(x, 2) /\ GridUp(x, 2) <= x + 1
  /\ \A x \in Int : x % 2 = 0 => GridDown(x, 2) = x /\ GridUp(x, 2) = x
BY DEF GridDown, GridUp

\* What the unit reports is cut to the envelope and put on the encoding's grid.
LEMMA AlignedOnGrid ==
  ASSUME NEW range \in Ints, NEW e \in Encodings
  PROVE  /\ Aligned(range, e) \in Ints
         /\ StepFor(e) = 2 => Aligned(range, e).min % 2 = 0 /\ Aligned(range, e).max % 2 = 0
<1> DEFINE low == Greatest(range.min, EnvelopeFor(e).min)
           high == Least(range.max, EnvelopeFor(e).max)
<1>1. low \in Int /\ high \in Int
  BY DEF Ints, Greatest, Least, EnvelopeFor, Legacy, Enhanced, CompatibilityRange, Span
<1>2. Aligned(range, e) = [min |-> GridUp(low, StepFor(e)), max |-> GridDown(high, StepFor(e))]
  BY DEF Aligned, Span
<1>3. StepFor(e) \in {1, 2}
  BY DEF StepFor
<1> HIDE DEF low, high
<1>4. CASE StepFor(e) = 1
  <2>1. GridUp(low, 1) = low /\ GridDown(high, 1) = high
    BY <1>1, Grid
  <2> QED BY <1>1, <1>2, <1>4, <2>1 DEF Ints
<1>5. CASE StepFor(e) = 2
  BY <1>1, <1>2, <1>5, Grid DEF Ints
<1> QED BY <1>3, <1>4, <1>5

\* Every way to resolve a mode gives a range on the grid of its step, Auto's two
\* degrees wide, and takes targets only in the encoding its step is for.
LEMMA ResolvedIs ==
  ASSUME NEW m \in RangeModes, NEW p, Preferable(m, p), NEW d, d.range \in Ints,
         NEW current \in Encodings, NEW stored0 \in Encodings
  PROVE  LET r == Resolved(m, p, d, current, stored0)
         IN  /\ OnGrid(r) /\ (m = "auto" => r.range.max - r.range.min >= 4)
             /\ r.source = "compatibility" => r.range = CompatibilityRange /\ r.step = 1
             /\ r.source # "compatibility" /\ r.availability \notin {"awaitingBaseline", "incompatible"} =>
                  current \in {"legacy", "enhanced"} /\ r.step = StepFor(current)
<1> DEFINE presented == IF current = "unknown" THEN stored0 ELSE current
<1>1. presented \in Encodings /\ Encodings = {"unknown", "legacy", "enhanced"}
  BY DEF Encodings
<1>2. CASE p.selection = "manual"
  <2>1. Resolved(m, p, d, current, stored0) = ResolvedManual(m, p.manual, current, presented)
    BY <1>2 DEF Resolved
  <2>2. /\ p.manual \in Ints /\ Usable(m, p.manual)
    BY <1>2 DEF Preferable, ValidManual
  <2>3. ValidManual(m, p.manual, presented) /\ StepFor(presented) = 2 =>
          p.manual.min % 2 = 0 /\ p.manual.max % 2 = 0
    BY DEF ValidManual
  <2> QED BY <1>1, <2>1, <2>2, <2>3
          DEF ResolvedManual, OnGrid, Usable, StepFor, Baseline
<1>3. CASE p.selection = "compatibility"
  <2>1. Resolved(m, p, d, current, stored0) = ResolvedCompatibility
    BY <1>3 DEF Resolved
  <2> QED BY <2>1 DEF ResolvedCompatibility, OnGrid, CompatibilityRange, Span, Ints
<1>4. CASE p.selection = "automatic"
  <2> DEFINE known == d.valid /\ FitsAutomatic(m, d.range, presented)
             range == Aligned(IF known THEN d.range ELSE CompatibilityRange, presented)
  <2>1. Resolved(m, p, d, current, stored0) = ResolvedAutomatic(m, d, current, presented)
    BY <1>4 DEF Resolved
  <2>2. range \in Ints /\ (StepFor(presented) = 2 => range.min % 2 = 0 /\ range.max % 2 = 0)
    <3>1. (IF known THEN d.range ELSE CompatibilityRange) \in Ints
      BY DEF CompatibilityRange, Span, Ints
    <3> HIDE DEF known
    <3> QED BY <1>1, <3>1, AlignedOnGrid
  <2>3. range.min < range.max /\ (m = "auto" => range.max - range.min >= 4)
    <3>1. CASE known
      BY <3>1 DEF FitsAutomatic, Usable
    <3>2. CASE ~known
      <4>1. Aligned(CompatibilityRange, "legacy") = [min |-> 32, max |-> 60]
        BY DEF Aligned, CompatibilityRange, EnvelopeFor, Legacy, Span, Greatest, Least, StepFor, GridUp, GridDown
      <4>2. Aligned(CompatibilityRange, "enhanced") = [min |-> 32, max |-> 61]
        BY DEF Aligned, CompatibilityRange, EnvelopeFor, Enhanced, Span, Greatest, Least, StepFor, GridUp, GridDown
      <4>3. Aligned(CompatibilityRange, "unknown") = [min |-> 32, max |-> 61]
        BY DEF Aligned, CompatibilityRange, EnvelopeFor, Span, Greatest, Least, StepFor, GridUp, GridDown
      <4> QED BY <1>1, <3>2, <4>1, <4>2, <4>3
    <3> QED BY <3>1, <3>2
  <2>4. /\ ResolvedAutomatic(m, d, current, presented).range = range
        /\ ResolvedAutomatic(m, d, current, presented).step = StepFor(presented)
        /\ ResolvedAutomatic(m, d, current, presented).source # "compatibility"
        /\ ResolvedAutomatic(m, d, current, presented).availability = Baseline(current)
    BY DEF ResolvedAutomatic
  <2> HIDE DEF range
  <2> QED BY <1>1, <2>1, <2>2, <2>3, <2>4 DEF OnGrid, StepFor, Baseline
<1> QED BY <1>2, <1>3, <1>4 DEF Preferable
\* What a target becomes.
Rounded(q, step) == IF step = 1 THEN (q + 1) \div 2 ELSE 2 * ((q + 2) \div 4)

\* A target within the range is only rounded: no clamping moves it further.
LEMMA TargetIs ==
  ASSUME NEW r, OnGrid(r), NEW q \in Int, 2 * r.range.min <= q, q <= 2 * r.range.max, NEW e
  PROVE  /\ r.source # "compatibility" => NormalizeTarget(q, r, e) = Rounded(q, r.step)
         /\ r.source = "compatibility" =>
              NormalizeTarget(q, r, e) = IF e = "enhanced" THEN (q + 1) \div 2 ELSE GridDown((q + 1) \div 2, 2)
         /\ Rounded(q, r.step) \in Int /\ r.range.min <= Rounded(q, r.step) /\ Rounded(q, r.step) <= r.range.max
         /\ r.step = 2 => Rounded(q, r.step) % 2 = 0
<1>1. r.range.min \in Int /\ r.range.max \in Int /\ r.range.min < r.range.max /\ r.step \in {1, 2}
  BY DEF OnGrid, Ints
<1>2. Clamp(q, 2 * r.range.min, 2 * r.range.max) = q
  BY <1>1 DEF Clamp, Greatest, Least
<1>3. CASE r.step = 1
  <2>1. GridDown(q + 1, 2 * 1) \div 2 = (q + 1) \div 2
    BY DEF GridDown
  <2>2. GridUp(r.range.min, 1) = r.range.min /\ GridDown(r.range.max, 1) = r.range.max
    BY <1>1, Grid
  <2>3. r.range.min <= (q + 1) \div 2 /\ (q + 1) \div 2 <= r.range.max /\ (q + 1) \div 2 \in Int
    BY <1>1
  <2>4. Clamp((q + 1) \div 2, r.range.min, r.range.max) = (q + 1) \div 2
    BY <1>1, <2>3 DEF Clamp, Greatest, Least
  <2> QED BY <1>2, <1>3, <2>1, <2>2, <2>3, <2>4 DEF NormalizeTarget, Rounded
<1>4. CASE r.step = 2
  <2> DEFINE x == (q + 2) \div 4
  <2>1. GridDown(q + 2, 2 * 2) \div 2 = 2 * x /\ x \in Int
    BY DEF GridDown
  <2>2. r.range.min % 2 = 0 /\ r.range.max % 2 = 0
    BY <1>4 DEF OnGrid
  <2>3. GridUp(r.range.min, 2) = r.range.min /\ GridDown(r.range.max, 2) = r.range.max
    BY <1>1, <2>2, Grid
  <2>4. r.range.min <= 2 * x /\ 2 * x <= r.range.max
    <3>1. PICK low \in Int, high \in Int : r.range.min = 2 * low /\ r.range.max = 2 * high
      <4>1. r.range.min = 2 * (r.range.min \div 2) /\ r.range.max = 2 * (r.range.max \div 2)
        BY <1>1, <2>2
      <4> QED BY <1>1, <4>1
    <3> QED BY <3>1
  <2>5. (2 * x) % 2 = 0
    BY <2>1
  <2> HIDE DEF x
  <2>6. Clamp(2 * x, r.range.min, r.range.max) = 2 * x
    BY <1>1, <2>1, <2>4 DEF Clamp, Greatest, Least
  <2>7. Rounded(q, r.step) = 2 * x
    BY <1>4 DEF Rounded, x
  <2> QED BY <1>2, <1>4, <2>1, <2>3, <2>4, <2>5, <2>6, <2>7 DEF NormalizeTarget
<1> QED BY <1>1, <1>3, <1>4

\* A target the range takes goes where the range and the line allow, and stays.
Serves(r, q, e) ==
  LET reachable == {half \in r.range.min .. r.range.max : OnTheLine(half, e) = half}
      target == NormalizeTarget(q, r, e)
  IN  /\ Accepts(r, 2 * target) /\ target \in reachable
      /\ NormalizeTarget(2 * target, r, e) = target
      /\ \/ \A other \in reachable : Distance(q, target) <= Distance(q, other)
         \/ r.source = "compatibility" /\ e # "enhanced" /\ Distance(q, target) < 4

\* What is accepted lies in the range.
LEMMA AcceptedIs ==
  ASSUME NEW r, OnGrid(r), NEW q \in Int
  PROVE  Accepts(r, q) <=> /\ r.availability \notin {"awaitingBaseline", "incompatible"}
                           /\ 2 * r.range.min <= q /\ q <= 2 * r.range.max
<1>1. r.range.min \in Int /\ r.range.max \in Int
  BY DEF OnGrid, Ints
<1>2. CASE r.availability = "awaitingBaseline"
  BY <1>2 DEF Accepts, TargetResult
<1>3. CASE r.availability = "incompatible"
  BY <1>3 DEF Accepts, TargetResult
<1>4. CASE r.availability \notin {"awaitingBaseline", "incompatible"}
  <2>1. CASE q < 2 * r.range.min \/ q > 2 * r.range.max
    BY <1>1, <1>4, <2>1 DEF Accepts, TargetResult
  <2>2. CASE ~(q < 2 * r.range.min) /\ ~(q > 2 * r.range.max)
    BY <1>1, <1>4, <2>2 DEF Accepts, TargetResult
  <2> QED BY <2>1, <2>2
<1> QED BY <1>2, <1>3, <1>4

\* What it takes to serve a target; it holds where no setpoint the line can carry,
\* inside the range or not, is nearer.
LEMMA ServesOf ==
  ASSUME NEW r, OnGrid(r), NEW q \in Int, Accepts(r, q), NEW e \in Encodings, NEW target \in Int,
         target = NormalizeTarget(q, r, e), NormalizeTarget(2 * target, r, e) = target,
         r.range.min <= target, target <= r.range.max, OnTheLine(target, e) = target,
         \/ \A other \in Int : OnTheLine(other, e) = other => Distance(q, target) <= Distance(q, other)
         \/ r.source = "compatibility" /\ e # "enhanced" /\ Distance(q, target) < 4
  PROVE  Serves(r, q, e)
<1>1. r.range.min \in Int /\ r.range.max \in Int
  BY DEF OnGrid, Ints
<1>2. Accepts(r, 2 * target)
  BY <1>1, AcceptedIs
<1> QED BY <1>1, <1>2 DEF Serves

\* Every accepted target is served, in each encoding and from each source.
LEMMA ResolvedServes ==
  ASSUME NEW r, OnGrid(r), NEW e \in Encodings, NEW q \in Int, Accepts(r, q),
         r.source = "compatibility" => r.range = CompatibilityRange /\ r.step = 1,
         r.source # "compatibility" => e \in {"legacy", "enhanced"} /\ r.step = StepFor(e)
  PROVE  Serves(r, q, e)
<1> DEFINE target == NormalizeTarget(q, r, e)
<1>1. /\ r.range.min \in Int /\ r.range.max \in Int /\ 2 * r.range.min <= q /\ q <= 2 * r.range.max
  BY AcceptedIs DEF OnGrid, Ints
<1>2. CASE r.source # "compatibility" /\ r.step = 1
  <2>1. e = "enhanced"
    BY <1>2 DEF StepFor
  <2>2. target = (q + 1) \div 2 /\ target \in Int /\ r.range.min <= target /\ target <= r.range.max
    BY <1>1, <1>2, TargetIs DEF Rounded
  <2> HIDE DEF target
  <2>3. NormalizeTarget(2 * target, r, e) = (2 * target + 1) \div 2
    BY <1>1, <1>2, <2>2, TargetIs DEF Rounded
  <2>4. (2 * target + 1) \div 2 = target
    BY <2>2
  <2>5. \A other \in Int : Distance(q, target) <= Distance(q, other)
    BY <2>2 DEF Distance
  <2>6. OnTheLine(target, e) = target
    BY <2>1 DEF OnTheLine
  <2> QED BY <2>2, <2>3, <2>4, <2>5, <2>6, ServesOf DEF target
<1>3. CASE r.source # "compatibility" /\ r.step = 2
  <2>1. e = "legacy"
    BY <1>3 DEF StepFor
  <2>2. target = 2 * ((q + 2) \div 4) /\ target \in Int /\ r.range.min <= target /\ target <= r.range.max
    BY <1>1, <1>3, TargetIs DEF Rounded
  <2> HIDE DEF target
  <2>3. NormalizeTarget(2 * target, r, e) = 2 * ((2 * target + 2) \div 4)
    BY <1>1, <1>3, <2>2, TargetIs DEF Rounded
  <2>4. 2 * ((2 * target + 2) \div 4) = target
    BY <2>2
  <2>5. \A other \in Int : GridDown(other, 2) = other => Distance(q, target) <= Distance(q, other)
    BY <2>2 DEF Distance, GridDown
  <2>6. GridDown(target, 2) = target
    BY <2>2 DEF GridDown
  <2>7. \A half : OnTheLine(half, e) = GridDown(half, 2)
    BY <2>1 DEF OnTheLine
  <2> QED BY <2>2, <2>3, <2>4, <2>5, <2>6, <2>7, ServesOf DEF target
<1>4. CASE r.source = "compatibility" /\ e = "enhanced"
  <2>2. target = (q + 1) \div 2 /\ target \in Int /\ r.range.min <= target /\ target <= r.range.max
    BY <1>1, <1>4, TargetIs DEF Rounded
  <2> HIDE DEF target
  <2>3. NormalizeTarget(2 * target, r, e) = (2 * target + 1) \div 2
    BY <1>1, <1>4, <2>2, TargetIs
  <2>4. (2 * target + 1) \div 2 = target
    BY <2>2
  <2>5. \A other \in Int : Distance(q, target) <= Distance(q, other)
    BY <2>2 DEF Distance
  <2>6. OnTheLine(target, e) = target
    BY <1>4 DEF OnTheLine
  <2> QED BY <2>2, <2>3, <2>4, <2>5, <2>6, ServesOf DEF target
<1>5. CASE r.source = "compatibility" /\ e # "enhanced"
  <2>1. r.range.min = 32 /\ r.range.max = 61
    BY <1>5 DEF CompatibilityRange, Span
  <2>2. target = (((q + 1) \div 2) \div 2) * 2
    BY <1>1, <1>5, TargetIs DEF GridDown
  <2>3. target \in Int /\ 32 <= target /\ target <= 61 /\ (((2 * target + 1) \div 2) \div 2) * 2 = target
    BY <1>1, <2>1, <2>2
  <2> HIDE DEF target
  <2>4. NormalizeTarget(2 * target, r, e) = (((2 * target + 1) \div 2) \div 2) * 2
    <3>1. 2 * target \in Int /\ 2 * r.range.min <= 2 * target /\ 2 * target <= 2 * r.range.max
      BY <2>1, <2>3
    <3>2. NormalizeTarget(2 * target, r, e) = GridDown((2 * target + 1) \div 2, 2)
      BY <1>5, <3>1, TargetIs
    <3> QED BY <3>2 DEF GridDown
  <2>5. Distance(q, target) < 4
    BY <2>2, <2>3 DEF Distance
  <2>6. OnTheLine(target, e) = target
    BY <1>5, <2>2, <2>3 DEF OnTheLine, GridDown
  <2> QED BY <1>5, <2>1, <2>3, <2>4, <2>5, <2>6, ServesOf DEF target
<1> QED BY <1>2, <1>3, <1>4, <1>5 DEF OnGrid
---------------------------------------------------------------------------
\* A range that Auto may have
Wide(r) == OnGrid(r) /\ r.range.max - r.range.min >= 4
\* The middle of a narrow band, and what is off it.
Off(h, gap, heat, cool) ==
  LET twice == 2 * h + gap - (heat + cool) IN IF twice >= 0 THEN twice ELSE 0 - twice

\* projectBand() with its roundings written out.
Half(twice, step) == IF step = 1 THEN twice \div 2 ELSE 2 * ((twice + 1) \div 4)
Projected(heat0, cool0, low, high, step) ==
  LET narrow == cool0 - heat0 < 4
      heat1 == Half(IF narrow THEN heat0 + cool0 - 4 ELSE 2 * heat0, step)
      cool1 == IF narrow THEN heat1 + 4 ELSE Half(2 * cool0, step)
      cool2 == cool1 + Greatest(0, low - heat1)
      heat2 == Greatest(heat1, low)
  IN  [heat |-> heat2 - Greatest(0, cool2 - high), cool |-> Least(cool2, high)]

\* On a range that is on its grid, projectBand() rounds only the band.
LEMMA ProjectedIs ==
  ASSUME NEW r, Wide(r), NEW b \in [heat: Int, cool: Int]
  PROVE  LET low == r.range.min
             high == r.range.max
         IN  /\ GridUp(low, r.step) = low /\ GridDown(high, r.step) = high /\ GridUp(4, r.step) = 4
             /\ ProjectBand(b, r) = Projected(Clamp(b.heat, low, high), Clamp(b.cool, low, high), low, high, r.step)
<1>1. /\ r.range.min \in Int /\ r.range.max \in Int /\ r.step \in {1, 2}
      /\ r.step = 2 => r.range.min % 2 = 0 /\ r.range.max % 2 = 0
  BY DEF Wide, OnGrid, Ints
<1>2. GridUp(r.range.min, r.step) = r.range.min /\ GridDown(r.range.max, r.step) = r.range.max
      /\ GridUp(4, r.step) = 4
  <2>1. CASE r.step = 1
    <3>1. GridUp(r.range.min, 1) = r.range.min /\ GridDown(r.range.max, 1) = r.range.max
      BY <1>1, Grid
    <3>2. GridUp(4, 1) = 4
      BY DEF GridUp, GridDown
    <3> QED BY <2>1, <3>1, <3>2
  <2>2. CASE r.step = 2
    <3>1. GridUp(r.range.min, 2) = r.range.min /\ GridDown(r.range.max, 2) = r.range.max
      BY <1>1, <2>2, Grid
    <3>2. GridUp(4, 2) = 4
      BY DEF GridUp, GridDown
    <3> QED BY <2>2, <3>1, <3>2
  <2> QED BY <1>1, <2>1, <2>2
<1>3. ASSUME NEW twice \in Int PROVE GridDown(twice + r.step - 1, 2 * r.step) \div 2 = Half(twice, r.step)
  <2>1. CASE r.step = 1
    <3>1. GridDown(twice + 1 - 1, 2 * 1) \div 2 = twice \div 2
      BY DEF GridDown
    <3> QED BY <2>1, <3>1 DEF Half
  <2>2. CASE r.step = 2
    <3>1. GridDown(twice + 2 - 1, 2 * 2) \div 2 = 2 * ((twice + 1) \div 4)
      BY DEF GridDown
    <3> QED BY <2>2, <3>1 DEF Half
  <2> QED BY <1>1, <2>1, <2>2
<1> DEFINE heat0 == Clamp(b.heat, r.range.min, r.range.max)
           cool0 == Clamp(b.cool, r.range.min, r.range.max)
<1>4. heat0 \in Int /\ cool0 \in Int
  BY <1>1 DEF Clamp, Greatest, Least
<1> HIDE DEF heat0, cool0
<1>5. ProjectBand(b, r) = Projected(heat0, cool0, r.range.min, r.range.max, r.step)
  BY <1>2, <1>3, <1>4 DEF ProjectBand, Projected, heat0, cool0
<1> QED BY <1>2, <1>5 DEF heat0, cool0
\* What projecting a band gives, on the grid of either step.
LEMMA ProjectedKeepsApart ==
  ASSUME NEW low \in Int, NEW high \in Int, NEW step \in {1, 2}, high - low >= 4,
         step = 2 => low % 2 = 0 /\ high % 2 = 0,
         NEW heat \in low .. high, NEW cool \in low .. high
  PROVE  LET p == Projected(heat, cool, low, high, step)
         IN  /\ p \in [heat: Int, cool: Int]
             /\ low <= p.heat /\ p.cool <= high /\ p.cool - p.heat >= 4
             /\ p.heat % step = 0 /\ p.cool % step = 0
             /\ cool - heat < 4 =>
                  \A h \in low .. high - 4 : h % step = 0 => Off(p.heat, 4, heat, cool) <= Off(h, 4, heat, cool)
<1> DEFINE p == Projected(heat, cool, low, high, step)
<1>1. CASE step = 1
  <2> DEFINE heat1 == IF cool - heat < 4 THEN (heat + cool - 4) \div 2 ELSE heat
             cool1 == IF cool - heat < 4 THEN heat1 + 4 ELSE cool
             cool2 == IF low > heat1 THEN cool1 + (low - heat1) ELSE cool1
             heat2 == IF heat1 >= low THEN heat1 ELSE low
  <2>1. /\ heat1 = Half(IF cool - heat < 4 THEN heat + cool - 4 ELSE 2 * heat, 1)
        /\ cool1 = IF cool - heat < 4 THEN heat1 + 4 ELSE Half(2 * cool, 1)
    BY DEF Half
  <2>2. /\ heat1 \in Int /\ cool1 \in Int /\ cool2 \in Int /\ heat2 \in Int
    OBVIOUS
  <2>3. p = [heat |-> IF cool2 > high THEN heat2 - (cool2 - high) ELSE heat2,
             cool |-> IF cool2 <= high THEN cool2 ELSE high]
    BY <1>1, <2>1, <2>2 DEF Projected, Greatest, Least
  <2>4. /\ p.heat = IF cool2 > high THEN heat2 - (cool2 - high) ELSE heat2
        /\ p.cool = IF cool2 <= high THEN cool2 ELSE high
        /\ p \in [heat: Int, cool: Int]
    BY <2>2, <2>3
  <2>5. p.cool - p.heat >= 4 /\ low <= p.heat /\ p.cool <= high
    BY <2>4
  <2>6. cool - heat < 4 => \A h \in low .. high - 4 : Off(p.heat, 4, heat, cool) <= Off(h, 4, heat, cool)
    BY <2>4 DEF Off
  <2>7. \A x \in Int : x % 1 = 0
    OBVIOUS
  <2> QED BY <1>1, <2>4, <2>5, <2>6, <2>7
<1>2. CASE step = 2
  <2>0. PICK l \in Int, g \in Int : low = 2 * l /\ high = 2 * g
    <3>1. low = 2 * (low \div 2) /\ high = 2 * (high \div 2)
      BY <1>2
    <3> QED BY <3>1
  <2> DEFINE k == IF cool - heat < 4 THEN (heat + cool - 3) \div 4 ELSE (2 * heat + 1) \div 4
             j == IF cool - heat < 4 THEN k + 2 ELSE (2 * cool + 1) \div 4
             j2 == IF l > k THEN j + (l - k) ELSE j
             k2 == IF k >= l THEN k ELSE l
  <2>1. /\ 2 * k = Half(IF cool - heat < 4 THEN heat + cool - 4 ELSE 2 * heat, 2)
        /\ 2 * j = IF cool - heat < 4 THEN 2 * k + 4 ELSE Half(2 * cool, 2)
    BY DEF Half
  <2>2. k \in Int /\ j \in Int /\ j2 \in Int /\ k2 \in Int
    BY <2>0
  <2>3. /\ 2 * j2 = 2 * j + Greatest(0, low - 2 * k)
        /\ 2 * k2 = Greatest(2 * k, low)
    BY <2>0, <2>2 DEF Greatest
  <2>4. p = [heat |-> 2 * k2 - Greatest(0, 2 * j2 - high), cool |-> Least(2 * j2, high)]
    <3> HIDE DEF k, j, j2, k2
    <3> QED BY <1>2, <2>1, <2>3 DEF Projected
  <2>5. /\ p.heat = 2 * (IF j2 > g THEN k2 - (j2 - g) ELSE k2)
        /\ p.cool = 2 * (IF j2 <= g THEN j2 ELSE g)
        /\ p \in [heat: Int, cool: Int]
    <3> HIDE DEF k, j, j2, k2
    <3> QED BY <2>0, <2>2, <2>4 DEF Greatest, Least
  <2>6. p.cool - p.heat >= 4 /\ low <= p.heat /\ p.cool <= high
    BY <2>0, <2>2, <2>5
  <2>7. p.heat % 2 = 0 /\ p.cool % 2 = 0
    <3> HIDE DEF k, j, j2, k2
    <3> QED BY <2>0, <2>2, <2>5
  <2>8. ASSUME cool - heat < 4, NEW h \in low .. high - 4, h % 2 = 0
        PROVE  Off(p.heat, 4, heat, cool) <= Off(h, 4, heat, cool)
    <3>1. h = 2 * (h \div 2) /\ h \div 2 \in Int
      BY <2>8
    <3> QED BY <2>0, <2>2, <2>5, <2>8, <3>1 DEF Off
  <2> QED BY <1>2, <2>5, <2>6, <2>7, <2>8
<1> QED BY <1>1, <1>2

\* A band that is apart and on the grid is not moved.
LEMMA ProjectedStays ==
  ASSUME NEW low \in Int, NEW high \in Int, NEW step \in {1, 2},
         NEW heat \in low .. high, NEW cool \in low .. high, cool - heat >= 4,
         heat % step = 0, cool % step = 0
  PROVE  Projected(heat, cool, low, high, step) = [heat |-> heat, cool |-> cool]
<1>1. Half(2 * heat, step) = heat /\ Half(2 * cool, step) = cool
  <2>1. CASE step = 1
    BY <2>1 DEF Half
  <2>2. CASE step = 2
    BY <2>2 DEF Half
  <2> QED BY <2>1, <2>2
<1>2. ~(cool - heat < 4)
  OBVIOUS
<1> QED BY <1>1, <1>2 DEF Projected, Greatest, Least
---------------------------------------------------------------------------
\* The ranges' state

\* A range that fits one encoding fits while the encoding is unknown.
LEMMA ManualFits ==
  ASSUME NEW m, NEW range \in Ints, NEW e \in Encodings, ValidManual(m, range, e)
  PROVE  ValidManual(m, range, "unknown")
<1>1. /\ range.min \in Int /\ range.max \in Int
      /\ \A x \in Int : x % 1 = 0
  BY DEF Ints
<1>2. /\ Usable(m, range) /\ range.min >= 20 /\ range.max <= 62
  BY <1>1 DEF ValidManual, Legacy, Enhanced, Span
<1> QED BY <1>1, <1>2 DEF ValidManual, Enhanced, Span, StepFor

\* Initially nothing is manual and nothing reported.
LEMMA RangesInit0 == RangesInit => RangesInv
<1> SUFFICES ASSUME RangesInit PROVE RangesInv
  OBVIOUS
<1>1. Unmade \in Ints
  BY DEF Unmade, CompatibilityRange, Span, Ints
<1>2. PICK selection \in {"automatic", "compatibility"} :
        preferences = [m \in RangeModes |-> [selection |-> selection, manual |-> Unmade]]
  BY DEF RangesInit
<1>3. [selection |-> selection, manual |-> Unmade] \in Preferences
  BY DEF Preferences
<1>4. \A m \in RangeModes : Preferable(m, preferences[m])
  BY <1>1, <1>2 DEF Preferable
<1>5. detected \in [RangeModes -> [valid: BOOLEAN, fresh: BOOLEAN, range: Ints]]
  BY <1>1 DEF RangesInit, Unknown
<1>6. rangeEncoding \in Encodings /\ last \in Encodings
  BY DEF RangesInit, Encodings
<1> QED BY <1>2, <1>3, <1>4, <1>5, <1>6 DEF RangesInv

\* An edit is kept only if it is valid, whatever the unit tells meanwhile.
LEMMA RangesStep == RangesInv /\ [RangesNext]_rangeVars => RangesInv'
<1> SUFFICES ASSUME RangesInv, [RangesNext]_rangeVars PROVE RangesInv'
  OBVIOUS
<1> DEFINE Detections == [valid: BOOLEAN, fresh: BOOLEAN, range: Ints]
<1>1. Unknown \in Detections
  BY DEF Unknown, Unmade, CompatibilityRange, Span, Ints
<1>2. CASE Connected
  BY <1>2 DEF Connected, RangesInv, Encodings
<1>3. CASE EncodingStored
  BY <1>3 DEF EncodingStored, RangesInv
<1>4. CASE Disconnected
  <2>1. PICK lost \in SUBSET RangeModes :
          detected' = [m \in RangeModes |-> IF m \in lost /\ detected[m].fresh THEN Unknown
                                            ELSE [detected[m] EXCEPT !.fresh = FALSE]]
    BY <1>4 DEF Disconnected
  <2>2. \A m \in RangeModes : [detected[m] EXCEPT !.fresh = FALSE] \in Detections
    BY DEF RangesInv
  <2>3. detected' \in [RangeModes -> Detections]
    BY <1>1, <2>1, <2>2
  <2> QED BY <1>4, <2>3 DEF Disconnected, RangesInv, Encodings
<1>5. CASE \E mode \in RangeModes, range \in ReportedRanges : Identified(mode, range)
  <2>1. PICK mode \in RangeModes, range \in ReportedRanges : Identified(mode, range)
    BY <1>5
  <2>2. [valid |-> TRUE, fresh |-> TRUE, range |-> range] \in Detections
    BY RangesAssumption
  <2>3. detected' \in [RangeModes -> Detections]
    BY <2>1, <2>2 DEF Identified, RangesInv
  <2> QED BY <2>1, <2>3 DEF Identified, RangesInv
<1>6. CASE \E mode \in RangeModes, preference \in Preferences : EditRange(mode, preference)
  <2>1. PICK mode \in RangeModes, preference \in Preferences : EditRange(mode, preference)
    BY <1>6
  <2>2. preferences' = [preferences EXCEPT ![mode] = preference] /\ preferences' \in [RangeModes -> Preferences]
    BY <2>1 DEF EditRange, ApplySettings, RangesInv
  <2>3. UNCHANGED <<detected, rangeEncoding, last, modeMask>>
    BY <2>1 DEF EditRange, ApplySettings
  <2>4. Preferable(mode, preference)
    <3>1. preference.selection \in {"automatic", "compatibility", "manual"} /\ preference.manual \in Ints
      BY RangesAssumption DEF Preferences, Unmade, CompatibilityRange, Span, Ints
    <3>2. ASSUME preference.selection = "manual" PROVE ValidManual(mode, preference.manual, "unknown")
      <4>1. PICK e \in Encodings : ValidManual(mode, preference.manual, e)
        <5>1. \A edited \in BOOLEAN : EditEncoding(edited) \in Encodings
          BY DEF EditEncoding, Encodings, RangesInv
        <5>2. [preferences EXCEPT ![mode] = preference][mode] = preference
          BY DEF RangesInv
        <5> QED BY <2>1, <3>2, <5>1, <5>2 DEF EditRange, ApplySettings
      <4> QED BY <3>1, <4>1, ManualFits
    <3> QED BY <3>1, <3>2 DEF Preferable
  <2>5. \A m \in RangeModes : Preferable(m, preferences'[m])
    BY <2>2, <2>4 DEF RangesInv
  <2> QED BY <2>2, <2>3, <2>5 DEF RangesInv
<1>7. CASE \E mask \in Masks : SetModeMask(mask)
  BY <1>7 DEF SetModeMask, RangesInv
<1>8. CASE UNCHANGED rangeVars
  BY <1>8 DEF rangeVars, RangesInv
<1> QED BY <1>2, <1>3, <1>4, <1>5, <1>6, <1>7, <1>8 DEF RangesNext

\* The ranges' invariant
LEMMA RangesHold == RangesSpec => []RangesInv
BY RangesInit0, RangesStep, PTL DEF RangesSpec

\* What is published of a mode.
LEMMA PublishedIs ==
  ASSUME RangesInv, NEW m \in RangeModes, NEW r,
         r = Resolved(m, preferences[m], detected[m], rangeEncoding, last)
  PROVE  /\ OnGrid(r) /\ (m = "auto" => Wide(r))
         /\ r.source = "compatibility" => r.range = CompatibilityRange /\ r.step = 1
         /\ \A q : Accepts(r, q) /\ r.source # "compatibility" =>
              rangeEncoding \in {"legacy", "enhanced"} /\ r.step = StepFor(rangeEncoding)
<1>1. /\ Preferable(m, preferences[m]) /\ detected[m].range \in Ints
      /\ rangeEncoding \in Encodings /\ last \in Encodings
  BY DEF RangesInv
<1>2. /\ OnGrid(r) /\ (m = "auto" => r.range.max - r.range.min >= 4)
      /\ r.source = "compatibility" => r.range = CompatibilityRange /\ r.step = 1
      /\ r.source # "compatibility" /\ r.availability \notin {"awaitingBaseline", "incompatible"} =>
           rangeEncoding \in {"legacy", "enhanced"} /\ r.step = StepFor(rangeEncoding)
  BY <1>1, ResolvedIs
<1>3. \A q : Accepts(r, q) => r.availability \notin {"awaitingBaseline", "incompatible"}
  BY DEF Accepts, TargetResult
<1> QED BY <1>2, <1>3 DEF Wide

\* What is published serves what it accepts.
LEMMA ReachableHolds == RangesInv => TargetsReachable
<1> SUFFICES ASSUME RangesInv, NEW m \in RangeModes, NEW q \in Quarters,
                    NEW r, r = Resolved(m, preferences[m], detected[m], rangeEncoding, last), Accepts(r, q)
             PROVE  Serves(r, q, rangeEncoding)
  BY DEF TargetsReachable, Serves
<1>1. q \in Int /\ rangeEncoding \in Encodings
  BY RangesAssumption DEF RangesInv
<1>2. /\ OnGrid(r) /\ (r.source = "compatibility" => r.range = CompatibilityRange /\ r.step = 1)
      /\ r.source # "compatibility" => rangeEncoding \in {"legacy", "enhanced"} /\ r.step = StepFor(rangeEncoding)
  BY PublishedIs
<1> QED BY <1>1, <1>2, ResolvedServes

\* A projected band is apart, on the grid, stays, and is as near as can be.
LEMMA ApartHolds == RangesInv => BandsKeepApart
<1> SUFFICES ASSUME RangesInv PROVE BandsKeepApart
  OBVIOUS
<1> DEFINE r == Resolved("auto", preferences["auto"], detected["auto"], rangeEncoding, last)
           low == r.range.min
           high == r.range.max
<1>1. Wide(r)
  BY PublishedIs DEF RangeModes
<1> HIDE DEF r
<1>2. /\ low \in Int /\ high \in Int /\ r.step \in {1, 2} /\ high - low >= 4
      /\ r.step = 2 => low % 2 = 0 /\ high % 2 = 0
  BY <1>1 DEF Wide, OnGrid, Ints
<1>3. GridUp(low, r.step) = low /\ GridDown(high, r.step) = high /\ GridUp(4, r.step) = 4
  <2>1. [heat |-> 0, cool |-> 0] \in [heat: Int, cool: Int]
    OBVIOUS
  <2> QED BY <1>1, <2>1, ProjectedIs
<1>4. ASSUME NEW band \in Bands
      PROVE  LET p == ProjectBand(band, r)
                 heat == Clamp(band.heat, low, high)
                 cool == Clamp(band.cool, low, high)
             IN  /\ low <= p.heat /\ p.cool <= high /\ p.cool - p.heat >= 4
                 /\ p.heat % r.step = 0 /\ p.cool % r.step = 0
                 /\ ProjectBand(p, r) = p
                 /\ cool - heat < 4 =>
                      \A h \in low .. high - 4 : h % r.step = 0 => Off(p.heat, 4, heat, cool) <= Off(h, 4, heat, cool)
  <2> DEFINE heat == Clamp(band.heat, low, high)
             cool == Clamp(band.cool, low, high)
             p == Projected(heat, cool, low, high, r.step)
  <2>1. band \in [heat: Int, cool: Int]
    BY RangesAssumption
  <2>2. heat \in low .. high /\ cool \in low .. high
    BY <1>2, <2>1 DEF Clamp, Greatest, Least
  <2>3. ProjectBand(band, r) = p
    BY <1>1, <2>1, ProjectedIs
  <2>4. /\ p \in [heat: Int, cool: Int]
        /\ low <= p.heat /\ p.cool <= high /\ p.cool - p.heat >= 4
        /\ p.heat % r.step = 0 /\ p.cool % r.step = 0
        /\ cool - heat < 4 =>
             \A h \in low .. high - 4 : h % r.step = 0 => Off(p.heat, 4, heat, cool) <= Off(h, 4, heat, cool)
    <3> HIDE DEF heat, cool, low, high
    <3> QED BY <1>2, <2>2, ProjectedKeepsApart
  <2> HIDE DEF p, heat, cool
  <2>5. ProjectBand(p, r) = p
    <3>1. p.heat \in low .. high /\ p.cool \in low .. high
      BY <1>2, <2>4
    <3>2. Clamp(p.heat, low, high) = p.heat /\ Clamp(p.cool, low, high) = p.cool
      BY <1>2, <3>1 DEF Clamp, Greatest, Least
    <3>3. ProjectBand(p, r) = Projected(p.heat, p.cool, low, high, r.step)
      BY <1>1, <2>4, <3>2, ProjectedIs
    <3>4. Projected(p.heat, p.cool, low, high, r.step) = [heat |-> p.heat, cool |-> p.cool]
      <4> HIDE DEF low, high
      <4> QED BY <1>2, <2>4, <3>1, ProjectedStays
    <3> QED BY <2>4, <3>3, <3>4
  <2> QED BY <2>3, <2>4, <2>5 DEF heat, cool
<1>5. ASSUME NEW band \in Bands
      PROVE  LET low0 == GridUp(low, r.step)
                 high0 == GridDown(high, r.step)
                 gap == GridUp(4, r.step)
                 p == ProjectBand(band, r)
                 heat == Clamp(band.heat, low0, high0)
                 cool == Clamp(band.cool, low0, high0)
             IN  /\ low0 <= p.heat /\ p.cool <= high0 /\ p.cool - p.heat >= gap
                 /\ p.heat % r.step = 0 /\ p.cool % r.step = 0
                 /\ ProjectBand(p, r) = p
                 /\ cool - heat < gap =>
                      \A h \in low0 .. high0 - gap :
                        h % r.step = 0 => Off(p.heat, gap, heat, cool) <= Off(h, gap, heat, cool)
  BY <1>3, <1>4
<1> QED BY <1>5 DEF BandsKeepApart, Off, r

---------------------------------------------------------------------------
\* What HomeKit is told

\* Of up to three numbers there is a smallest and a largest.
LEMMA SmallestIs ==
  ASSUME NEW S, NEW a \in Int, NEW b \in Int, NEW c \in Int, S \subseteq {a, b, c}, S # {}
  PROVE  /\ Smallest(S) \in S /\ \A x \in S : Smallest(S) <= x
         /\ Largest(S) \in S /\ \A x \in S : x <= Largest(S)
<1>1. \E x \in S : \A y \in S : x <= y
  <2> SUFFICES ASSUME \A x \in S : \E y \in S : ~(x <= y) PROVE FALSE
    OBVIOUS
  <2>1. a \in S => (b \in S /\ b < a) \/ (c \in S /\ c < a)
    OBVIOUS
  <2>2. b \in S => (a \in S /\ a < b) \/ (c \in S /\ c < b)
    OBVIOUS
  <2>3. c \in S => (a \in S /\ a < c) \/ (b \in S /\ b < c)
    OBVIOUS
  <2>4. a \in S \/ b \in S \/ c \in S
    OBVIOUS
  <2> QED BY <2>1, <2>2, <2>3, <2>4
<1>2. \E x \in S : \A y \in S : x >= y
  <2> SUFFICES ASSUME \A x \in S : \E y \in S : ~(x >= y) PROVE FALSE
    OBVIOUS
  <2>1. a \in S => (b \in S /\ b > a) \/ (c \in S /\ c > a)
    OBVIOUS
  <2>2. b \in S => (a \in S /\ a > b) \/ (c \in S /\ c > b)
    OBVIOUS
  <2>3. c \in S => (a \in S /\ a > c) \/ (b \in S /\ b > c)
    OBVIOUS
  <2>4. a \in S \/ b \in S \/ c \in S
    OBVIOUS
  <2> QED BY <2>1, <2>2, <2>3, <2>4
<1>3. /\ Smallest(S) \in S /\ \A y \in S : Smallest(S) <= y
  BY <1>1 DEF Smallest
<1>4. /\ Largest(S) \in S /\ \A y \in S : Largest(S) >= y
  BY <1>2 DEF Largest
<1>5. S \subseteq Int
  OBVIOUS
<1> QED BY <1>3, <1>4, <1>5

\* What is advertised holds the range of each enabled mode, and its grid holds theirs.
LEMMA AdvertisedIs ==
  ASSUME NEW modes, \A m \in RangeModes : OnGrid(modes[m]), NEW m \in EnabledRanges(modeMask)
  PROVE  LET all == Advertised(modes, modeMask)
         IN  /\ all.range.min \in Int /\ all.range.max \in Int
             /\ all.range.min <= modes[m].range.min /\ modes[m].range.max <= all.range.max
             /\ all.step \in {1, 2}
             /\ all.step = 2 => modes[m].step = 2 /\ all.range.min % 2 = 0
<1> DEFINE on == EnabledRanges(modeMask)
           lows == {modes[k].range.min : k \in on}
           highs == {modes[k].range.max : k \in on}
           steps == {modes[k].step : k \in on}
<1>1. on \subseteq {"heat", "coolDry", "auto"} /\ m \in on
  BY DEF EnabledRanges, RangeModeOf
<1>2. \A k \in {"heat", "coolDry", "auto"} :
        /\ modes[k].range.min \in Int /\ modes[k].range.max \in Int /\ modes[k].step \in {1, 2}
        /\ modes[k].step = 2 => modes[k].range.min % 2 = 0
  BY DEF RangeModes, OnGrid, Ints
<1>3. Advertised(modes, modeMask) = [range |-> Span(Smallest(lows), Largest(highs)), step |-> Smallest(steps)]
  BY <1>1 DEF Advertised
<1> HIDE DEF on
<1>4. /\ lows \subseteq {modes["heat"].range.min, modes["coolDry"].range.min, modes["auto"].range.min}
      /\ highs \subseteq {modes["heat"].range.max, modes["coolDry"].range.max, modes["auto"].range.max}
      /\ steps \subseteq {modes["heat"].step, modes["coolDry"].step, modes["auto"].step}
      /\ modes[m].range.min \in lows /\ modes[m].range.max \in highs /\ modes[m].step \in steps
  BY <1>1
<1>5. /\ Smallest(lows) \in lows /\ Smallest(lows) <= modes[m].range.min
      /\ Largest(highs) \in highs /\ modes[m].range.max <= Largest(highs)
  <2> HIDE DEF lows, highs
  <2>1. \A k \in {"heat", "coolDry", "auto"} : modes[k].range.min \in Int /\ modes[k].range.max \in Int
    BY <1>2
  <2> DEFINE low(k) == modes[k].range.min
             high(k) == modes[k].range.max
  <2>2. /\ low("heat") \in Int /\ low("coolDry") \in Int /\ low("auto") \in Int
         /\ high("heat") \in Int /\ high("coolDry") \in Int /\ high("auto") \in Int
    BY <2>1
  <2>3. /\ lows \subseteq {low("heat"), low("coolDry"), low("auto")} /\ lows # {}
          /\ highs \subseteq {high("heat"), high("coolDry"), high("auto")} /\ highs # {}
    BY <1>4
  <2> HIDE DEF low, high
  <2>4. Smallest(lows) \in lows /\ \A x \in lows : Smallest(lows) <= x
    BY <2>2, <2>3, SmallestIs
  <2>5. Largest(highs) \in highs /\ \A x \in highs : x <= Largest(highs)
    BY <2>2, <2>3, SmallestIs
  <2> QED BY <1>4, <2>4, <2>5
<1>6. /\ Smallest(steps) \in steps /\ \A x \in steps : Smallest(steps) <= x
  <2> HIDE DEF steps
  <2>1. modes["heat"].step \in Int /\ modes["coolDry"].step \in Int /\ modes["auto"].step \in Int
    BY <1>2
  <2> QED BY <1>4, <2>1, SmallestIs
<1>7. \A x \in steps : x \in {1, 2}
  BY <1>1, <1>2
<1>8. ASSUME Smallest(steps) = 2
      PROVE  modes[m].step = 2 /\ \A x \in lows : x % 2 = 0
  <2>1. \A k \in on : modes[k].step \in steps
    OBVIOUS
  <2>2. \A x \in steps : x = 2
    BY <1>6, <1>7, <1>8
  <2>3. \A k \in on : modes[k].step = 2
    BY <2>1, <2>2
  <2> QED BY <1>1, <1>2, <2>3
<1>9. lows \subseteq Int /\ highs \subseteq Int
  BY <1>1, <1>2
<1> HIDE DEF lows, highs, steps
<1>10. Smallest(lows) \in Int /\ Largest(highs) \in Int /\ Smallest(steps) \in {1, 2}
  BY <1>5, <1>6, <1>7, <1>9
<1>11. /\ Advertised(modes, modeMask).range.min = Smallest(lows)
       /\ Advertised(modes, modeMask).range.max = Largest(highs)
       /\ Advertised(modes, modeMask).step = Smallest(steps)
  BY <1>3 DEF Span
<1> QED BY <1>5, <1>8, <1>10, <1>11

\* What a mode accepts is inside what is advertised.
LEMMA TakesHolds == RangesInv => HomeKitTakesAll
<1> SUFFICES ASSUME RangesInv, NEW m \in EnabledRanges(modeMask),
                    NEW q \in Quarters, Accepts(Published[m], q)
             PROVE  LET all == Advertised(Published, modeMask)
                        target == NormalizeTarget(q, Published[m], rangeEncoding)
                    IN  target \in all.range.min .. all.range.max /\ (target - all.range.min) % all.step = 0
  BY DEF HomeKitTakesAll
<1> DEFINE r == Published[m]
           all == Advertised(Published, modeMask)
           target == NormalizeTarget(q, r, rangeEncoding)
<1>1. m \in RangeModes
  BY DEF EnabledRanges, RangeModeOf, RangeModes
<1>2. \A k \in RangeModes : Published[k] = Resolved(k, preferences[k], detected[k], rangeEncoding, last)
  BY DEF Published
<1>3. \A k \in RangeModes : OnGrid(Published[k])
  BY <1>2, PublishedIs
<1>4. /\ all.range.min \in Int /\ all.range.max \in Int
      /\ all.range.min <= r.range.min /\ r.range.max <= all.range.max
      /\ all.step \in {1, 2} /\ (all.step = 2 => r.step = 2 /\ all.range.min % 2 = 0)
  BY <1>3, AdvertisedIs
<1>5. /\ OnGrid(r) /\ (r.source = "compatibility" => r.range = CompatibilityRange /\ r.step = 1)
      /\ r.source # "compatibility" => rangeEncoding \in {"legacy", "enhanced"} /\ r.step = StepFor(rangeEncoding)
  BY <1>1, <1>2, PublishedIs
<1>6. q \in Int /\ rangeEncoding \in Encodings
  BY RangesAssumption DEF RangesInv
<1> HIDE DEF r, all
<1>7. Serves(r, q, rangeEncoding)
  BY <1>5, <1>6, ResolvedServes DEF r
<1>8. r.range.min \in Int /\ r.range.max \in Int
  BY <1>5 DEF OnGrid, Ints
<1>9. target \in Int /\ r.range.min <= target /\ target <= r.range.max /\ OnTheLine(target, rangeEncoding) = target
  BY <1>7, <1>8 DEF Serves
<1> HIDE DEF target
<1>10. target \in all.range.min .. all.range.max
  BY <1>4, <1>8, <1>9
<1>11. CASE all.step = 1
  BY <1>4, <1>9, <1>10, <1>11 DEF r, all, target
<1>12. CASE all.step = 2
  <2>1. rangeEncoding = "legacy"
    BY <1>4, <1>5, <1>12 DEF StepFor
  <2>2. target % 2 = 0
    BY <1>9, <2>1 DEF OnTheLine, GridDown
  <2>3. (target - all.range.min) % 2 = 0
    BY <1>4, <1>9, <1>12, <2>2
  <2> QED BY <1>10, <1>12, <2>3 DEF r, all, target
<1> QED BY <1>4, <1>11, <1>12

\* Whatever preferences, reports, encodings and masks the owner and the units
\* have gone through: an accepted target becomes the nearest one that the range
\* allows and the line carries, HomeKit is told of a range and a grid it is on,
\* and the engine's band is apart, on its grid and about its middle.
THEOREM TargetsAreServed == RangesSpec => []TargetsServed
<1>1. RangesInv => TargetsServed
  BY ReachableHolds, TakesHolds, ApartHolds DEF TargetsServed
<1> QED BY <1>1, RangesHold, PTL

---------------------------------------------------------------------------
(***************************************************************************)
(* The accessory database                                                  *)
(***************************************************************************)
\* What is built, and what a home has a copy of, are optional services.
DbInv == live.services \subseteq Optional /\ home.db.services \subseteq Optional

\* No build and no copy has anything else.
LEMMA DbStep == DbInv /\ [DbNext]_dbVars => DbInv'
<1> SUFFICES ASSUME DbInv, [DbNext]_dbVars PROVE DbInv'
  OBVIOUS
<1>1. \A c : Built(c) \subseteq Optional
  BY DEF Built, Available, Optional
<1>2. CASE \E c \in Settings : Edit(c)
  BY <1>2 DEF Edit, DbInv
<1>3. CASE \E temperature \in Temperatures : InitAttempt(temperature)
  <2>1. PICK temperature \in Temperatures : InitAttempt(temperature)
    BY <1>3
  <2>2. live'.services \in {live.services, Built(Latched)} /\ home' = home
    BY <2>1 DEF InitAttempt, DatabaseFor
  <2> QED BY <1>1, <2>2 DEF DbInv
<1>4. CASE \E temperature \in Temperatures : RangesMove(temperature)
  <2>1. live'.services = live.services /\ home' = home
    BY <1>4 DEF RangesMove
  <2> QED BY <2>1 DEF DbInv
<1>5. CASE Restart
  BY <1>5 DEF Restart, NoDb, DbInv
<1>6. CASE Reconcile
  BY <1>6 DEF Reconcile, DbInv
<1>7. CASE SensorAdded
  <2>1. live'.services = live.services /\ home' = home
    BY <1>7 DEF SensorAdded
  <2> QED BY <2>1 DEF DbInv
<1>8. CASE Fetch
  <2>1. live' = live /\ home'.db = live
    BY <1>8 DEF Fetch
  <2> QED BY <2>1 DEF DbInv
<1>9. CASE PairingEvent
  BY <1>9 DEF PairingEvent, DbInv
<1>10. CASE UNCHANGED dbVars
  BY <1>10 DEF dbVars, DbInv
<1> QED BY <1>2, <1>3, <1>4, <1>5, <1>6, <1>7, <1>8, <1>9, <1>10 DEF DbNext

\* The slots are further apart than a scene reaches and Single's thermostat is
\* shorter, so no two databases confuse two services.
LEMMA SlotsApart ==
  ASSUME NEW one, NEW other, one.services \subseteq Optional, other.services \subseteq Optional
  PROVE  \A old \in Switches(one), new \in Switches(other) :
           old # new => Drives(one, old) \cap Drives(other, new) = {}
<1> DEFINE Served == Optional \cup {"vane"}
           First(fewer, s) == (IF fewer THEN ThermostatLast - 2 ELSE ThermostatLast) + 1 + Slots[s]
<1>1. Switches(one) \subseteq Served /\ Switches(other) \subseteq Served
  BY DEF Switches
<1>2. /\ Slots["fan"] = 0 /\ Slots["fanAuto"] = 6 /\ Slots["fanMode"] = 11
      /\ Slots["dryMode"] = 16 /\ Slots["vane"] = 21
  BY DEF Slots
<1>3. ThermostatLast \in Nat
  BY DbAssumption
<1>4. \A db, s : FirstIid(db, s) \in {First(TRUE, s), First(FALSE, s)}
  BY DEF FirstIid, SlotOf
<1>5. \A s \in Served : Slots[s] \in Nat
  BY <1>2 DEF Optional
<1>6. ASSUME NEW old \in Served, NEW new \in Served, old # new
      PROVE  Slots[old] - Slots[new] >= 5 \/ Slots[new] - Slots[old] >= 5
  BY <1>2, <1>6 DEF Optional
<1>7. ASSUME NEW old \in Served, NEW new \in Served, old # new
      PROVE  Drives(one, old) \cap Drives(other, new) = {}
  <2>1. PICK a \in Int : a = FirstIid(one, old) /\ a - Slots[old] \in {ThermostatLast - 1, ThermostatLast + 1}
    BY <1>3, <1>4, <1>5
  <2>2. PICK b \in Int : b = FirstIid(other, new) /\ b - Slots[new] \in {ThermostatLast - 1, ThermostatLast + 1}
    BY <1>3, <1>4, <1>5
  <2>3. a - b >= 3 \/ b - a >= 3
    BY <1>3, <1>5, <1>6, <1>7, <2>1, <2>2
  <2>4. Drives(one, old) \subseteq {a + 1, a + 2} /\ Drives(other, new) \subseteq {b + 1, b + 2}
    BY <2>1, <2>2 DEF Drives
  <2> QED BY <2>3, <2>4
<1> QED BY <1>1, <1>7

\* Whatever an old copy and the database in service are, a scene of the one
\* never drives another service of the other (hk_service_slots.h 5-12).
THEOREM ScenesAreSafe == DbSpec => []SceneSafe
<1>1. DbInit => DbInv
  BY DEF DbInit, DbInv, NoDb
<1>2. DbInv /\ [DbNext]_dbVars => DbInv'
  BY DbStep
<1>3. DbInv => SceneSafe
  BY SlotsApart DEF DbInv, SceneSafe
<1> QED BY <1>1, <1>2, <1>3, PTL DEF DbSpec

---------------------------------------------------------------------------
(***************************************************************************)
(* The copies of the accessory database                                    *)
(***************************************************************************)
\* What a record says of a database is all there is to it.
RecordOf(db) ==
  [shape |-> [mask |-> db.mask, vane |-> db.vane, single |-> db.single, sensor |-> db.sensor],
   built |-> db.services, temperature |-> db.temperature]

IsDb(db) ==
  db = [services |-> db.services, mask |-> db.mask, vane |-> db.vane, single |-> db.single,
        sensor |-> db.sensor, temperature |-> db.temperature]

\* The latches say what was built.
LatchedBy(boot, db) ==
  /\ IsDb(db) /\ db.services = Built(boot)
  /\ db.mask = boot.mask /\ db.vane = boot.vane /\ db.single = boot.single
AsLatched == IF started THEN LatchedBy(bootCfg, live) ELSE live = NoDb

RecordType ==
  record = [shape |-> record.shape, built |-> record.built, temperature |-> record.temperature]

\* A home knows no later c#; the one it knows now stands for the database of the
\* record, or for the one that is served.
HomeKnows ==
  /\ number \in Nat /\ home.number \in Nat /\ home.number <= number
  /\ home = [number |-> home.number, db |-> home.db] /\ IsDb(home.db)
  /\ ~overtaken /\ home.number = number =>
       (record = RecordOf(home.db) /\ ~Incomplete) \/ (started /\ home.db = live)

CopyInv == AsLatched /\ RecordType /\ HomeKnows

\* A home that sees the c# it knows has nothing to fetch.  So, once what was built
\* is recorded, and unless the database changed again before that, its copy must
\* be the database that is served (store_service_shape()).
HomesCurrent ==
  started /\ ~Unrecorded /\ ~overtaken /\ home.number = number => home.db = live

\* Databases with the same record are the same.
LEMMA SameRecord ==
  ASSUME NEW one, NEW other, IsDb(one), IsDb(other), RecordOf(one) = RecordOf(other)
  PROVE  one = other
BY DEF IsDb, RecordOf

\* No difference from a complete record: it is the record of the database.
LEMMA NothingDiffers ==
  ASSUME NEW boot, NEW db, LatchedBy(boot, db), RecordType, ~Incomplete
  PROVE  ~Differs(boot, db) <=> record = RecordOf(db)
<1>1. /\ record.shape # Missing /\ record.built # Missing /\ record.temperature # Missing
      /\ record["shape"] = record.shape /\ record["built"] = record.built
      /\ record["temperature"] = record.temperature
  BY DEF RecordType, Incomplete
<1>2. Shape(boot, db) = RecordOf(db).shape /\ Built(boot) = RecordOf(db).built
      /\ db.temperature = RecordOf(db).temperature
  BY DEF LatchedBy, Shape, RecordOf
<1>3. RecordOf(db) = [shape |-> RecordOf(db).shape, built |-> RecordOf(db).built,
                      temperature |-> RecordOf(db).temperature]
  BY DEF RecordOf
<1> HIDE DEF RecordOf
<1>4. Differs(boot, db) <=> \/ record.shape # RecordOf(db).shape
                            \/ record.built # RecordOf(db).built
                            \/ record.temperature # RecordOf(db).temperature
  BY <1>1, <1>2 DEF Differs, Read
<1> QED BY <1>3, <1>4 DEF RecordType

\* A complete record changes only together with c#.
LEMMA RecordedIs ==
  ASSUME NEW boot, NEW db, NEW paid, RecordType, number \in Nat, Recorded(boot, db, paid)
  PROVE  /\ RecordType' /\ number' \in {number, number + 1}
         /\ ~Incomplete /\ number' = number => record' = record
         /\ ~Incomplete /\ Differs(boot, db) /\ record' # record => number' = number + 1
<1>1. RecordType'
  BY DEF Recorded, RecordType
<1>2. number' \in {number, number + 1}
  BY DEF Recorded
<1>3. ~Incomplete /\ number' = number => record' = record
  BY DEF Recorded
<1> QED BY <1>1, <1>2, <1>3

\* A home keeps what it knows while the device records what it serves.
LEMMA RecordKeepsCopy ==
  ASSUME CopyInv, NEW boot, NEW paid, Recorded(boot, live', paid),
         started', AsLatched', home' = home, overtaken => overtaken',
         ~overtaken' /\ home.number = number =>
           (record = RecordOf(home.db) /\ ~Incomplete) \/ home.db = live'
  PROVE  CopyInv'
<1>1. /\ RecordType' /\ number' \in {number, number + 1}
      /\ ~Incomplete /\ number' = number => record' = record
  BY RecordedIs DEF CopyInv, HomeKnows
<1>2. HomeKnows'
  <2>1. /\ number' \in Nat /\ home'.number \in Nat /\ home'.number <= number'
        /\ home' = [number |-> home'.number, db |-> home'.db] /\ IsDb(home'.db)
    BY <1>1 DEF CopyInv, HomeKnows
  <2>2. ASSUME ~overtaken', home'.number = number'
        PROVE  (record' = RecordOf(home'.db) /\ ~Incomplete') \/ (started' /\ home'.db = live')
    <3>1. number' = number /\ home.number = number
      BY <1>1, <2>2 DEF CopyInv, HomeKnows
    <3>2. CASE record = RecordOf(home.db) /\ ~Incomplete
      <4>1. record' = record
        BY <1>1, <3>1, <3>2
      <4> QED BY <3>2, <4>1 DEF Incomplete
    <3> QED BY <2>2, <3>1, <3>2
  <2> QED BY <2>1, <2>2 DEF HomeKnows
<1> QED BY <1>1, <1>2 DEF CopyInv

\* A served database that is recorded is the one of the record.
LEMMA ServedIsRecorded ==
  ASSUME CopyInv, ~overtaken, home.number = number, ~Unrecorded
  PROVE  record = RecordOf(home.db) /\ ~Incomplete
<1>1. CASE started /\ home.db = live
  <2>1. ~Differs(bootCfg, live) /\ ~Incomplete
    BY <1>1 DEF Unrecorded
  <2> QED BY <1>1, <2>1, NothingDiffers DEF CopyInv, AsLatched
<1> QED BY <1>1 DEF CopyInv, HomeKnows

\* The bounds are counted.
DbSpentType == dbSpent \in [{"edits", "failures", "starts", "boots"} -> Nat]

LEMMA SpentStep == DbSpentType /\ [DbNext]_dbVars => DbSpentType'
<1> SUFFICES ASSUME DbSpentType, [DbNext]_dbVars PROVE DbSpentType'
  OBVIOUS
<1>1. ASSUME NEW what \in {"edits", "starts", "boots"}, NEW bound, Pay(what, bound)
      PROVE  DbSpentType'
  BY <1>1 DEF Pay, DbSpentType
<1>2. CASE Pay("failures", MaxFailures)
  BY <1>2 DEF Pay, DbSpentType
<1>3. ASSUME NEW boot, NEW db, NEW paid \in [{"edits", "failures", "starts", "boots"} -> Nat],
             Recorded(boot, db, paid)
      PROVE  DbSpentType'
  BY <1>3 DEF Recorded, Fails, DbSpentType
<1>4. CASE UNCHANGED dbSpent
  BY <1>4 DEF DbSpentType
<1>5. CASE Reconcile \/ \E temperature \in Temperatures : InitAttempt(temperature)
  BY <1>1, <1>3, <1>4, <1>5 DEF Reconcile, InitAttempt, DbSpentType
<1>6. ASSUME NEW temperature \in Temperatures, RangesMove(temperature) PROVE DbSpentType'
  <2> DEFINE paid == [dbSpent EXCEPT !.edits = @ + 1]
  <2>1. paid \in [{"edits", "failures", "starts", "boots"} -> Nat]
    BY DEF DbSpentType
  <2>2. Recorded(bootCfg, live', paid) \/ dbSpent' = paid
    BY <1>6 DEF RangesMove
  <2> HIDE DEF paid
  <2> QED BY <1>3, <2>1, <2>2 DEF DbSpentType
<1>7. CASE SensorAdded
  BY <1>2, <1>4, <1>7 DEF SensorAdded
<1>8. CASE Restart \/ \E c \in Settings : Edit(c)
  BY <1>1, <1>8 DEF Restart, Edit
<1>9. CASE Fetch \/ PairingEvent \/ UNCHANGED dbVars
  BY <1>4, <1>9 DEF Fetch, PairingEvent, dbVars
<1> QED BY <1>5, <1>6, <1>7, <1>8, <1>9 DEF DbNext

\* CopyInv is inductive, if the accessories are built once per boot.
LEMMA CopyStep ==
  ASSUME MaxStarts = 0, CopyInv, DbSpentType, [DbNext]_dbVars
  PROVE  CopyInv'
<1>1. ASSUME NEW temperature \in Temperatures, InitAttempt(temperature) PROVE CopyInv'
  <2>1. /\ ~started /\ live = NoDb /\ ~AcBuilt
        /\ bootCfg' = Latched
        /\ live' = [DatabaseFor(Latched, temperature) EXCEPT !.sensor = @ \/ cfg.sensor]
    BY <1>1 DEF InitAttempt, CopyInv, AsLatched, AcBuilt, NoDb
  <2>2. started' /\ Recorded(bootCfg', live', dbSpent) /\ UNCHANGED <<home, overtaken>>
    BY <1>1, MaxStarts = 0 DEF InitAttempt, Pay, DbSpentType
  <2>3. AsLatched'
    BY <2>1, <2>2 DEF AsLatched, LatchedBy, IsDb, DatabaseFor
  <2> QED BY <2>1, <2>2, <2>3, RecordKeepsCopy DEF CopyInv, HomeKnows
<1>2. ASSUME NEW temperature \in Temperatures, RangesMove(temperature) PROVE CopyInv'
  <2>1. /\ started /\ started' = started /\ live' = [live EXCEPT !.temperature = temperature]
        /\ overtaken' = (overtaken \/ Unrecorded) /\ UNCHANGED <<bootCfg, home>>
        /\ \E paid : Recorded(bootCfg, live', paid)
    BY <1>2 DEF RangesMove, CopyInv, AsLatched, AcBuilt, NoDb
  <2>2. AsLatched'
    BY <2>1 DEF CopyInv, AsLatched, LatchedBy, IsDb
  <2>3. ~overtaken' /\ home.number = number => record = RecordOf(home.db) /\ ~Incomplete
    BY <2>1, ServedIsRecorded
  <2> QED BY <2>1, <2>2, <2>3, RecordKeepsCopy
<1>3. CASE Restart
  <2>1. /\ started' = FALSE /\ live' = NoDb /\ overtaken' = (overtaken \/ Unrecorded)
        /\ UNCHANGED <<record, number, home>>
    BY <1>3 DEF Restart
  <2>2. ~overtaken' /\ home.number = number => record = RecordOf(home.db) /\ ~Incomplete
    BY <2>1, ServedIsRecorded
  <2> QED BY <2>1, <2>2 DEF CopyInv, AsLatched, RecordType, HomeKnows, Incomplete
<1>4. CASE Reconcile
  <2>1. /\ started /\ Recorded(bootCfg, live', dbSpent)
        /\ UNCHANGED <<started, bootCfg, live, home, overtaken>>
    BY <1>4 DEF Reconcile
  <2>2. AsLatched'
    BY <2>1 DEF CopyInv, AsLatched
  <2> QED BY <2>1, <2>2, RecordKeepsCopy DEF CopyInv, HomeKnows
<1>5. CASE SensorAdded
  <2>1. /\ started /\ live' = [live EXCEPT !.sensor = TRUE] /\ number' = number + 1
        /\ RecordType' /\ UNCHANGED <<started, bootCfg, home>>
    BY <1>5 DEF SensorAdded, CopyInv, RecordType
  <2>2. AsLatched'
    BY <2>1 DEF CopyInv, AsLatched, LatchedBy, IsDb
  <2>3. HomeKnows'
    BY <2>1 DEF CopyInv, HomeKnows
  <2> QED BY <2>1, <2>2, <2>3 DEF CopyInv
<1>6. CASE Fetch
  <2>1. /\ started /\ home' = [number |-> number, db |-> live]
        /\ UNCHANGED <<started, bootCfg, live, record, number, overtaken>>
    BY <1>6 DEF Fetch
  <2>2. HomeKnows'
    BY <2>1 DEF CopyInv, AsLatched, LatchedBy, HomeKnows
  <2> QED BY <2>1, <2>2 DEF CopyInv, AsLatched, RecordType
<1>7. CASE UNCHANGED <<started, bootCfg, live, record, number, home, overtaken>>
  BY <1>7 DEF CopyInv, AsLatched, RecordType, HomeKnows, Incomplete
<1>8. CASE \E c \in Settings : Edit(c)
  BY <1>7, <1>8 DEF Edit
<1>9. CASE PairingEvent
  BY <1>7, <1>9 DEF PairingEvent
<1>10. CASE UNCHANGED dbVars
  BY <1>7, <1>10 DEF dbVars
<1> QED BY <1>1, <1>2, <1>3, <1>4, <1>5, <1>6, <1>8, <1>9, <1>10 DEF DbNext

\* As long as hap_start() succeeds, so that the accessories are built from the
\* settings that were latched last: a home that sees the c# it knows uses the
\* database that is served, whatever is hidden, masked, added or re-ranged, over
\* restarts, refused requests and failed writes.
THEOREM HomesAreCurrent ==
  ASSUME MaxStarts = 0
  PROVE  DbSpec => []HomesCurrent
<1>1. DbInit => CopyInv /\ DbSpentType
  <2> SUFFICES ASSUME DbInit PROVE CopyInv /\ DbSpentType
    OBVIOUS
  <2>1. AsLatched /\ RecordType
    BY DEF DbInit, AsLatched, RecordType
  <2>2. number = 1 /\ home = [number |-> 0, db |-> NoDb] /\ IsDb(NoDb)
    BY DEF DbInit, IsDb, NoDb
  <2>3. HomeKnows
    BY <2>2 DEF HomeKnows
  <2>4. DbSpentType
    BY DEF DbInit, DbSpentType
  <2> QED BY <2>1, <2>3, <2>4 DEF CopyInv
<1>2. CopyInv => HomesCurrent
  <2> SUFFICES ASSUME CopyInv, started, ~Unrecorded, ~overtaken, home.number = number
               PROVE  home.db = live
    BY DEF HomesCurrent
  <2>1. record = RecordOf(home.db) /\ ~Incomplete
    BY ServedIsRecorded
  <2>2. record = RecordOf(live)
    BY <2>1, NothingDiffers DEF CopyInv, AsLatched, Unrecorded
  <2> QED BY <2>1, <2>2, SameRecord DEF CopyInv, AsLatched, LatchedBy, HomeKnows
<1>3. CopyInv /\ DbSpentType /\ [DbNext]_dbVars => (CopyInv /\ DbSpentType)'
  BY CopyStep, SpentStep
<1> QED BY <1>1, <1>2, <1>3, PTL DEF DbSpec

---------------------------------------------------------------------------
(***************************************************************************)
(* The mailbox of the browsers                                             *)
(***************************************************************************)
\* A set of numbers has a least one.
LEMMA LeastNumber ==
  ASSUME NEW T \in SUBSET Nat, T # {}
  PROVE  \E x \in T : \A y \in T : x <= y
<1>1. PICK x \in T : \A y \in T : ~(<<y, x>> \in OpToRel(<, Nat))
  BY NatLessThanWellFounded, WFMin
<1>2. \A y \in T : ~(y < x)
  BY <1>1 DEF OpToRel
<1> QED BY <1>2

\* A finite set of numbers has a k-th element, with k - 1 below it.
LEMMA Nth ==
  ASSUME NEW S \in SUBSET Nat, IsFiniteSet(S), NEW k \in 1 .. Cardinality(S)
  PROVE  \E i \in S : Cardinality({j \in S : j < i}) = k - 1
<1> DEFINE Below(i) == {j \in S : j < i}
           Missed == {n \in 1 .. Cardinality(S) : ~ \E i \in S : Cardinality(Below(i)) = n - 1}
<1>1. Cardinality(S) \in Nat
  BY FS_CardinalityType
<1>2. \A i \in S : IsFiniteSet(Below(i)) /\ Cardinality(Below(i)) \in Nat
  <2> SUFFICES ASSUME NEW i \in S PROVE IsFiniteSet(Below(i)) /\ Cardinality(Below(i)) \in Nat
    OBVIOUS
  <2>1. Below(i) \in SUBSET S
    OBVIOUS
  <2> HIDE DEF Below
  <2> QED BY <2>1, FS_Subset, FS_CardinalityType
<1>3. ASSUME Missed # {} PROVE FALSE
  <2>1. Missed \in SUBSET Nat
    BY <1>1
  <2>2. PICK n \in Missed : \A m \in Missed : n <= m
    BY <1>3, <2>1, LeastNumber
  <2>3. n \in Nat /\ n >= 1 /\ n <= Cardinality(S)
    BY <1>1
  <2>4. CASE n = 1
    <3>1. S # {}
      BY <2>3, FS_EmptySet
    <3>2. PICK i \in S : \A j \in S : i <= j
      BY <3>1, LeastNumber
    <3>3. Below(i) = {}
      <4>1. ASSUME NEW j \in S, j < i PROVE FALSE
        <5>1. i <= j /\ i \in Nat /\ j \in Nat
          BY <3>2
        <5> QED BY <4>1, <5>1
      <4> QED BY <4>1
    <3>4. Cardinality(Below(i)) = 0
      BY <3>3, FS_EmptySet
    <3> QED BY <2>4, <3>4
  <2>5. CASE n # 1
    <3>1. n - 1 \in 1 .. Cardinality(S) /\ n - 1 \notin Missed
      BY <1>1, <2>2, <2>3, <2>5
    <3>2. PICK i \in S : Cardinality(Below(i)) = n - 2
      BY <2>3, <3>1
    <3> DEFINE Upto == Below(i) \cup {i}
    <3>3. IsFiniteSet(Upto) /\ Cardinality(Upto) = n - 1
      <4>1. i \notin Below(i)
        OBVIOUS
      <4> HIDE DEF Below
      <4>2. IsFiniteSet(Below(i))
        BY <1>2
      <4>3. IsFiniteSet(Upto) /\ Cardinality(Upto) = Cardinality(Below(i)) + 1
        BY <4>1, <4>2, FS_AddElement
      <4> QED BY <2>3, <3>2, <4>3
    <3>4. S \ Upto # {}
      <4>1. Upto \subseteq S
        OBVIOUS
      <4>2. Upto # S
        <5> HIDE DEF Upto
        <5> QED BY <1>1, <2>3, <3>3
      <4> QED BY <4>1, <4>2
    <3>5. PICK next \in S \ Upto : \A j \in S \ Upto : next <= j
      <4>1. S \ Upto \in SUBSET Nat
        OBVIOUS
      <4> HIDE DEF Upto
      <4> QED BY <3>4, <4>1, LeastNumber
    <3>6. Below(next) = Upto
      <4>1. i \in Nat /\ next \in Nat /\ next \in S /\ i < next
        BY <3>5
      <4>2. ASSUME NEW j \in S PROVE j < next <=> j < i \/ j = i
        <5>1. j \in Nat /\ (j \in Upto <=> j < i \/ j = i)
          OBVIOUS
        <5>2. j \in Upto \/ next <= j
          BY <3>5
        <5> HIDE DEF Upto
        <5> QED BY <4>1, <5>1, <5>2
      <4> QED BY <4>1, <4>2, <3>2
    <3>7. Cardinality(Below(next)) = n - 1
      BY <3>3, <3>6
    <3> QED BY <3>5, <3>7
  <2> QED BY <2>4, <2>5
<1> QED BY <1>3

Msgs == [kind: Kinds, body: Nat, to: [Fds -> Nat]]

\* The places of a sequence
LEMMA Domains ==
  ASSUME NEW q \in Seq(Msgs), NEW keep \in SUBSET DOMAIN q
  PROVE  /\ DOMAIN q = 1 .. Len(q) /\ Len(q) \in Nat
         /\ IsFiniteSet(keep) /\ Cardinality(keep) \in Nat /\ Cardinality(keep) <= Len(q)
<1>1. DOMAIN q = 1 .. Len(q) /\ Len(q) \in Nat
  OBVIOUS
<1>2. IsFiniteSet(1 .. Len(q)) /\ Cardinality(1 .. Len(q)) = Len(q)
  <2>1. 1 \in Int /\ Len(q) \in Int
    BY <1>1
  <2>2. IsFiniteSet(1 .. Len(q)) /\ Cardinality(1 .. Len(q)) = IF 1 > Len(q) THEN 0 ELSE Len(q) - 1 + 1
    BY <2>1, FS_Interval
  <2> QED BY <1>1, <2>2
<1> QED BY <1>1, <1>2, FS_Subset, FS_CardinalityType

\* What is kept: messages of q, each from a place of its own.
LEMMA KeptIs ==
  ASSUME NEW q \in Seq(Msgs), NEW keep \in SUBSET DOMAIN q
  PROVE  /\ Kept(q, keep) \in Seq(Msgs)
         /\ Len(Kept(q, keep)) <= Len(q)
         /\ \E Place \in Injection(DOMAIN Kept(q, keep), DOMAIN q) :
              \A k \in DOMAIN Kept(q, keep) : Kept(q, keep)[k] = q[Place[k]]
<1>1. /\ DOMAIN q = 1 .. Len(q) /\ Len(q) \in Nat
      /\ IsFiniteSet(keep) /\ Cardinality(keep) \in Nat /\ Cardinality(keep) <= Len(q)
  BY Domains
<1>2. CASE keep = DOMAIN q
  <2>1. Kept(q, keep) = q
    BY <1>2 DEF Kept
  <2>2. [k \in DOMAIN q |-> k] \in Injection(DOMAIN q, DOMAIN q)
    BY DEF Injection, IsInjective
  <2> QED BY <1>1, <2>1, <2>2
<1>3. CASE keep # DOMAIN q
  <2> DEFINE Before(i) == Cardinality({j \in keep : j < i})
             Place(k) == CHOOSE i \in keep : Before(i) = k - 1
             Where == [k \in 1 .. Cardinality(keep) |-> Place(k)]
  <2>1. Kept(q, keep) = [k \in 1 .. Cardinality(keep) |-> q[Place(k)]]
    BY <1>3 DEF Kept
  <2>2. ASSUME NEW k \in 1 .. Cardinality(keep) PROVE Place(k) \in keep /\ Before(Place(k)) = k - 1
    <3>1. keep \in SUBSET Nat
      BY <1>1
    <3>2. \E i \in keep : Cardinality({j \in keep : j < i}) = k - 1
      BY <1>1, <3>1, Nth
    <3>3. \E i \in keep : Before(i) = k - 1
      BY <3>2
    <3> HIDE DEF Before
    <3> QED BY <3>3
  <2> HIDE DEF Place, Before
  <2>3. Where \in Injection(1 .. Cardinality(keep), DOMAIN q)
    <3>1. Where \in [1 .. Cardinality(keep) -> DOMAIN q]
      BY <2>2
    <3>2. ASSUME NEW k \in 1 .. Cardinality(keep), NEW n \in 1 .. Cardinality(keep), Where[k] = Where[n]
          PROVE  k = n
      <4>1. k - 1 = n - 1
        BY <2>2, <3>2
      <4> QED BY <1>1, <4>1
    <3> HIDE DEF Where
    <3> QED BY <3>1, <3>2 DEF Injection, IsInjective
  <2>4. \A k \in 1 .. Cardinality(keep) : q[Place(k)] \in Msgs
    <3>1. \A i \in DOMAIN q : q[i] \in Msgs
      OBVIOUS
    <3> QED BY <2>2, <3>1
  <2>5. Kept(q, keep) \in Seq(Msgs) /\ Len(Kept(q, keep)) = Cardinality(keep)
        /\ DOMAIN Kept(q, keep) = 1 .. Cardinality(keep)
    BY <1>1, <2>1, <2>4
  <2>6. \A k \in DOMAIN Kept(q, keep) : Kept(q, keep)[k] = q[Where[k]]
    BY <2>1
  <2> HIDE DEF Where
  <2> QED BY <1>1, <2>3, <2>5, <2>6
<1> QED BY <1>2, <1>3

\* r is what is left of q.
Left(r, q) ==
  /\ r \in Seq(Msgs) /\ Weight(r) <= Weight(q)
  /\ \A k \in DOMAIN r : \E i \in DOMAIN q : r[k] = q[i]

Snapshots(q) == {i \in DOMAIN q : q[i].kind # "log"}

\* The weight of a mailbox is a number.
LEMMA WeightIs ==
  ASSUME NEW q \in Seq(Msgs)
  PROVE  /\ Snapshots(q) \in SUBSET DOMAIN q /\ IsFiniteSet(Snapshots(q)) /\ Cardinality(Snapshots(q)) \in Nat
         /\ Weight(q) = Len(q) + Cardinality(Snapshots(q)) /\ Weight(q) \in Nat
<1>1. Snapshots(q) \in SUBSET DOMAIN q
  BY DEF Snapshots
<1>2. IsFiniteSet(Snapshots(q)) /\ Cardinality(Snapshots(q)) \in Nat /\ Len(q) \in Nat
  BY <1>1, Domains
<1>3. Weight(q) = Len(q) + Cardinality(Snapshots(q))
  BY DEF Weight, Snapshots
<1> QED BY <1>1, <1>2, <1>3

\* Discarding messages leaves no more weight than there was.
LEMMA KeptIsLeft ==
  ASSUME NEW q \in Seq(Msgs), NEW keep \in SUBSET DOMAIN q
  PROVE  Left(Kept(q, keep), q)
<1> DEFINE r == Kept(q, keep)
<1>1. r \in Seq(Msgs) /\ Len(r) <= Len(q)
  BY KeptIs
<1>2. PICK Place \in Injection(DOMAIN r, DOMAIN q) : \A k \in DOMAIN r : r[k] = q[Place[k]]
  BY KeptIs
<1> HIDE DEF r
<1>3. /\ Place \in [DOMAIN r -> DOMAIN q]
      /\ \A k, n \in DOMAIN r : Place[k] = Place[n] => k = n
  BY <1>2 DEF Injection, IsInjective
<1> DEFINE Where == [k \in Snapshots(r) |-> Place[k]]
<1>4. Where \in Injection(Snapshots(r), Snapshots(q))
  <2>1. \A k \in Snapshots(r) : k \in DOMAIN r /\ Place[k] \in Snapshots(q)
    BY <1>2, <1>3 DEF Snapshots
  <2>2. Where \in [Snapshots(r) -> Snapshots(q)]
    BY <2>1
  <2>3. \A k, n \in Snapshots(r) : Where[k] = Where[n] => k = n
    BY <1>3, <2>1
  <2> HIDE DEF Where
  <2> QED BY <2>2, <2>3 DEF Injection, IsInjective
<1> HIDE DEF Where
<1>5. Cardinality(Snapshots(r)) <= Cardinality(Snapshots(q))
  BY <1>4, WeightIs, FS_Injection
<1>6. Weight(r) <= Weight(q)
  <2>1. /\ Weight(r) = Len(r) + Cardinality(Snapshots(r)) /\ Cardinality(Snapshots(r)) \in Nat
    BY <1>1, WeightIs
  <2>2. /\ Weight(q) = Len(q) + Cardinality(Snapshots(q)) /\ Cardinality(Snapshots(q)) \in Nat
    BY WeightIs
  <2>3. Len(r) \in Nat /\ Len(q) \in Nat
    BY <1>1
  <2> QED BY <1>1, <1>5, <2>1, <2>2, <2>3
<1>7. \A k \in DOMAIN r : \E i \in DOMAIN q : r[k] = q[i]
  BY <1>2, <1>3
<1> QED BY <1>1, <1>6, <1>7 DEF Left, r

\* What is left of what is left was there at first.
LEMMA LeftOfLeft ==
  ASSUME NEW q \in Seq(Msgs), NEW r, NEW s, Left(r, q), Left(s, r)
  PROVE  Left(s, q)
<1>1. Weight(q) \in Nat /\ Weight(r) \in Nat /\ Weight(s) \in Nat
  BY WeightIs DEF Left
<1> QED BY <1>1 DEF Left

\* A message weighs its size.
LEMMA AppendWeighs ==
  ASSUME NEW q \in Seq(Msgs), NEW m \in Msgs
  PROVE  Append(q, m) \in Seq(Msgs) /\ Weight(Append(q, m)) = Weight(q) + SizeOf(m.kind)
<1> DEFINE r == Append(q, m)
           n == Len(q) + 1
<1>1. /\ r \in Seq(Msgs) /\ Len(r) = n /\ DOMAIN r = 1 .. n /\ DOMAIN q = 1 .. Len(q) /\ Len(q) \in Nat
      /\ r[n] = m /\ \A i \in DOMAIN q : r[i] = q[i]
  OBVIOUS
<1> HIDE DEF r
<1>2. Snapshots(r) = IF m.kind = "log" THEN Snapshots(q) ELSE Snapshots(q) \cup {n}
  <2>1. \A i \in 1 .. n : i \in DOMAIN q \/ i = n
    BY <1>1
  <2>2. \A i \in DOMAIN q : i \in 1 .. n /\ i # n
    BY <1>1
  <2> QED BY <1>1, <2>1, <2>2 DEF Snapshots
<1>3. n \notin Snapshots(q)
  BY <1>1 DEF Snapshots
<1>4. Cardinality(Snapshots(r)) =
        IF m.kind = "log" THEN Cardinality(Snapshots(q)) ELSE Cardinality(Snapshots(q)) + 1
  <2> HIDE DEF n
  <2> QED BY <1>2, <1>3, WeightIs, FS_AddElement
<1>5. SizeOf(m.kind) = IF m.kind = "log" THEN 1 ELSE 2
  BY DEF SizeOf, Msgs, Kinds
<1>6. /\ Weight(r) = Len(r) + Cardinality(Snapshots(r))
      /\ Weight(q) = Len(q) + Cardinality(Snapshots(q)) /\ Cardinality(Snapshots(q)) \in Nat
  BY <1>1, WeightIs
<1> QED BY <1>1, <1>4, <1>5, <1>6 DEF r

\* The oldest message takes its size away.
LEMMA TailWeighs ==
  ASSUME NEW q \in Seq(Msgs), q # << >>
  PROVE  /\ Head(q) \in Msgs /\ Left(Tail(q), q)
         /\ Weight(q) = Weight(Tail(q)) + SizeOf(Head(q).kind)
<1> DEFINE r == Tail(q)
           m == Head(q)
<1>1. /\ r \in Seq(Msgs) /\ m \in Msgs /\ m = q[1]
      /\ Len(q) \in Nat /\ Len(q) >= 1 /\ Len(r) = Len(q) - 1
      /\ DOMAIN r = 1 .. Len(q) - 1 /\ DOMAIN q = 1 .. Len(q)
      /\ \A i \in DOMAIN r : r[i] = q[i + 1]
  OBVIOUS
<1> HIDE DEF r, m
<1> DEFINE Rest == Snapshots(q) \ {1}
           Where == [i \in Snapshots(r) |-> i + 1]
<1>2. Where \in Bijection(Snapshots(r), Rest)
  <2>1. \A i \in Snapshots(r) : i \in Nat /\ i + 1 \in Rest
    BY <1>1 DEF Snapshots
  <2>2. \A i \in Rest : i - 1 \in Snapshots(r) /\ i \in Nat /\ i - 1 \in Nat
    BY <1>1 DEF Snapshots
  <2>3. Where \in [Snapshots(r) -> Rest]
    BY <2>1
  <2>4. \A i, j \in Snapshots(r) : Where[i] = Where[j] => i = j
    BY <2>1
  <2>5. \A i \in Rest : \E j \in Snapshots(r) : Where[j] = i
    <3> SUFFICES ASSUME NEW i \in Rest PROVE Where[i - 1] = i /\ i - 1 \in Snapshots(r)
      OBVIOUS
    <3> QED BY <2>2
  <2> HIDE DEF Where, Rest
  <2> QED BY <2>3, <2>4, <2>5 DEF Bijection, Injection, Surjection, IsInjective
<1>3. Cardinality(Rest) = Cardinality(Snapshots(r))
  <2>1. ExistsBijection(Snapshots(r), Rest)
    <3> HIDE DEF Where, Rest
    <3> QED BY <1>2 DEF ExistsBijection
  <2> HIDE DEF Rest
  <2> QED BY <1>1, <2>1, WeightIs, FS_Bijection
<1>4. Cardinality(Rest) = IF 1 \in Snapshots(q) THEN Cardinality(Snapshots(q)) - 1 ELSE Cardinality(Snapshots(q))
  BY WeightIs, FS_RemoveElement
<1>5. 1 \in Snapshots(q) <=> m.kind # "log"
  BY <1>1 DEF Snapshots
<1>6. SizeOf(m.kind) = IF m.kind = "log" THEN 1 ELSE 2
  BY <1>1 DEF SizeOf, Msgs, Kinds
<1>7. /\ Weight(r) = Len(r) + Cardinality(Snapshots(r)) /\ Cardinality(Snapshots(r)) \in Nat
      /\ Weight(q) = Len(q) + Cardinality(Snapshots(q)) /\ Cardinality(Snapshots(q)) \in Nat
  BY <1>1, WeightIs
<1>8. Weight(q) = Weight(r) + SizeOf(m.kind) /\ Weight(r) <= Weight(q)
  <2> HIDE DEF Rest
  <2>1. CASE m.kind = "log"
    <3>1. Cardinality(Snapshots(r)) = Cardinality(Snapshots(q)) /\ SizeOf(m.kind) = 1
      BY <1>3, <1>4, <1>5, <1>6, <2>1
    <3> QED BY <1>1, <1>7, <3>1
  <2>2. CASE m.kind # "log"
    <3>1. Cardinality(Snapshots(r)) = Cardinality(Snapshots(q)) - 1 /\ SizeOf(m.kind) = 2
      BY <1>3, <1>4, <1>5, <1>6, <2>2
    <3> QED BY <1>1, <1>7, <3>1
  <2> QED BY <2>1, <2>2
<1>9. \A k \in DOMAIN r : \E i \in DOMAIN q : r[k] = q[i]
  <2>1. \A k \in DOMAIN r : k + 1 \in DOMAIN q
    BY <1>1
  <2> QED BY <1>1, <2>1
<1> QED BY <1>1, <1>8, <1>9 DEF Left, r, m

\* Whatever makes room only discards.
LEMMA RoomIsLeft ==
  ASSUME pending \in Seq(Msgs), NEW kind
  PROVE  Left(Room(kind), pending)
<1>1. ASSUME NEW q \in Seq(Msgs), NEW k PROVE Left(NotKind(q, k), q)
  <2>1. {i \in DOMAIN q : q[i].kind # k} \in SUBSET DOMAIN q
    OBVIOUS
  <2> QED BY <2>1, KeptIsLeft DEF NotKind
<1>2. ASSUME NEW q \in Seq(Msgs), NEW k, NEW n PROVE Left(Without(q, k, n), q)
  <2> DEFINE keep == DOMAIN q \ {i \in Places(q, k) : Cardinality({j \in Places(q, k) : j < i}) < n}
  <2>1. keep \in SUBSET DOMAIN q /\ Without(q, k, n) = Kept(q, keep)
    BY DEF Without
  <2> HIDE DEF keep
  <2> QED BY <2>1, KeptIsLeft
<1>3. ASSUME NEW q \in Seq(Msgs) PROVE Left(q, q)
  BY WeightIs DEF Left
<1>4. ASSUME NEW q \in Seq(Msgs) PROVE Left(MakeRoom(q, kind), q)
  <2>1. MakeRoom(q, kind) \in {q, NotKind(q, "log"), NotKind(NotKind(q, "log"), "state")}
        \/ \E n : MakeRoom(q, kind) = Without(q, "log", n)
    BY DEF MakeRoom
  <2>2. Left(NotKind(q, "log"), q) /\ NotKind(q, "log") \in Seq(Msgs)
    BY <1>1 DEF Left
  <2>3. Left(NotKind(NotKind(q, "log"), "state"), q)
    BY <1>1, <2>2, LeftOfLeft
  <2> QED BY <1>2, <1>3, <2>1, <2>2, <2>3
<1> DEFINE q == IF kind = "log" THEN pending ELSE NotKind(pending, kind)
<1>5. Left(q, pending) /\ q \in Seq(Msgs)
  BY <1>1, <1>3 DEF Left
<1>6. Left(MakeRoom(q, kind), q)
  BY <1>4, <1>5
<1> HIDE DEF q
<1>7. Left(MakeRoom(q, kind), pending)
  BY <1>5, <1>6, LeftOfLeft
<1> QED BY <1>7 DEF Room, q
---------------------------------------------------------------------------
(***************************************************************************)
(* What the browsers are told                                              *)
(***************************************************************************)
Flights == [kind: {"taken"}, message: Msgs, left: SUBSET Fds]

\* What is pending and in flight is charged.
BoxInv ==
  /\ pending \in Seq(Msgs) /\ (flight = None \/ flight \in Flights)
  /\ BytesAccounted

\* A client has the connection that is open on its socket, no two sockets have
\* the same one, and a broken one has no client.
ClientsInv ==
  /\ opened \in Nat /\ clients \in [Fds -> Nat] /\ socket \in [Fds -> 0 .. opened]
  /\ broken \subseteq 1 .. opened
  /\ \A f \in Fds : clients[f] # 0 => clients[f] = socket[f] /\ socket[f] \notin broken
  /\ \A f, g \in Fds : socket[f] # 0 /\ socket[f] = socket[g] => f = g
  /\ ~strayed

\* No message is of a later session, and an end is announced of a session that
\* is over.
ScansInv ==
  /\ session \in [scan: Nat, open: BOOLEAN, stop: BOOLEAN, fresh: BOOLEAN]
  /\ DiscoveryTypeOK
  /\ web.donePending => ~session.open
  /\ \A i \in DOMAIN pending : pending[i].body <= session.scan
  /\ DoneIsItsOwn

WebInv == BoxInv /\ ClientsInv /\ ScansInv

\* Initially there is nothing to tell and nobody to tell it.
LEMMA WebInit0 == Init => WebInv
<1> SUFFICES ASSUME Init PROVE WebInv
  OBVIOUS
<1>1. Weight(<< >>) = 0
  <2>1. << >> \in Seq(Msgs) /\ Len(<< >>) = 0 /\ DOMAIN << >> = {}
    OBVIOUS
  <2>2. Snapshots(<< >>) = {}
    BY <2>1 DEF Snapshots
  <2>3. Cardinality(Snapshots(<< >>)) = 0
    BY <2>2, FS_EmptySet
  <2>4. Weight(<< >>) = Len(<< >>) + Cardinality(Snapshots(<< >>))
    <3>1. \A q \in Seq(Msgs) : Weight(q) = Len(q) + Cardinality(Snapshots(q))
      BY WeightIs
    <3> QED BY <2>1, <3>1
  <2> QED BY <2>1, <2>3, <2>4
<1>2. BoxInv
  BY <1>1, MailboxAssumption DEF Init, WsInit, BoxInv, BytesAccounted, InFlight
<1>3. ClientsInv
  BY DEF Init, WsInit, ClientsInv
<1>4. ScansInv
  BY DEF Init, WsInit, ScansInv, DiscoveryTypeOK, NoSession, DoneIsItsOwn
<1> QED BY <1>2, <1>3, <1>4 DEF WebInv

\* A publication keeps the account, and adds one message at most.
LEMMA PublishKeeps ==
  ASSUME BoxInv, clients \in [Fds -> Nat], NEW kind \in Kinds, NEW body \in Nat, NEW busy,
         Publish(kind, body, busy), flight' = flight
  PROVE  /\ BoxInv'
         /\ \A k \in DOMAIN pending' :
              (\E i \in DOMAIN pending : pending'[k] = pending[i]) \/ pending'[k].body = body
<1>1. CASE UNCHANGED <<pending, bytes>>
  <2>1. BoxInv'
    BY <1>1 DEF BoxInv, BytesAccounted, InFlight, Weight
  <2> QED BY <1>1, <2>1
<1>2. CASE ~UNCHANGED <<pending, bytes>>
  <2> DEFINE m == [kind |-> kind, body |-> body, to |-> clients]
  <2>1. PICK room \in {Room(kind)} : \E fits \in {Fits(room, kind)} :
          /\ pending' = IF fits THEN Append(room, [kind |-> kind, body |-> body, to |-> clients]) ELSE room
          /\ bytes' = Charged(room, IF fits THEN SizeOf(kind) ELSE 0)
    BY <1>2 DEF Publish
  <2>2. Left(room, pending) /\ room \in Seq(Msgs) /\ Weight(room) <= Weight(pending)
    BY <2>1, RoomIsLeft DEF BoxInv, Left
  <2>3. m \in Msgs /\ m.kind = kind /\ m.body = body
    BY DEF Msgs
  <2>4. Weight(room) \in Nat /\ Weight(pending) \in Nat
    BY <2>2, WeightIs DEF BoxInv
  <2>5. InFlight \in Int /\ SizeOf(kind) \in {1, 2}
    BY DEF BoxInv, InFlight, SizeOf, Flights, Msgs, Kinds
  <2>6. bytes = Weight(pending) + InFlight /\ bytes <= MaxBytes /\ BytesWith(room) = Weight(room) + InFlight
    BY <2>4, <2>5 DEF BoxInv, BytesAccounted, BytesWith
  <2>7. InFlight' = InFlight
    BY DEF InFlight
  <2>8. CASE Fits(room, kind)
    <3>1. pending' = Append(room, m) /\ bytes' = BytesWith(room) + SizeOf(kind) /\ bytes' <= MaxBytes
      BY <2>1, <2>8 DEF Charged, Fits
    <3> HIDE DEF m
    <3>2. pending' \in Seq(Msgs) /\ Weight(pending') = Weight(room) + SizeOf(kind)
      BY <2>2, <2>3, <3>1, AppendWeighs
    <3>3. bytes' = Weight(pending') + InFlight'
      BY <2>4, <2>5, <2>6, <2>7, <3>1, <3>2
    <3>4. \A k \in DOMAIN pending' : (\E i \in DOMAIN room : pending'[k] = room[i]) \/ pending'[k] = m
      BY <2>2, <2>3, <3>1
    <3>5. \A k \in DOMAIN pending' :
            (\E i \in DOMAIN pending : pending'[k] = pending[i]) \/ pending'[k].body = body
      BY <2>2, <2>3, <3>4 DEF Left
    <3>6. BytesAccounted'
      BY <3>1, <3>3 DEF BytesAccounted, Weight, InFlight
    <3> QED BY <3>2, <3>5, <3>6 DEF BoxInv
  <2>9. CASE ~Fits(room, kind)
    <3>1. pending' = room /\ bytes' = BytesWith(room) + 0
      BY <2>1, <2>9 DEF Charged
    <3>2. bytes' = Weight(pending') + InFlight' /\ bytes' <= MaxBytes
      <4>1. bytes \in Int /\ MaxBytes \in Int
        BY <2>4, <2>5, <2>6, MailboxAssumption
      <4> QED BY <2>2, <2>4, <2>5, <2>6, <2>7, <3>1, <4>1
    <3>3. BytesAccounted'
      BY <3>2 DEF BytesAccounted, Weight, InFlight
    <3> QED BY <2>2, <3>1, <3>3 DEF BoxInv, Left
  <2> QED BY <2>8, <2>9
<1> QED BY <1>1, <1>2
\* What a step leaves alone keeps its part of the invariant.
LEMMA MailSame ==
  ASSUME BoxInv, UNCHANGED <<pending, bytes, flight>>
  PROVE  BoxInv'
BY DEF BoxInv, BytesAccounted, InFlight, Weight

LEMMA ClientsSame ==
  ASSUME ClientsInv, UNCHANGED <<clients, opened, socket, broken, strayed>>
  PROVE  ClientsInv'
BY DEF ClientsInv

\* The scans are disturbed by no message that announces no end.
LEMMA ScansSame ==
  ASSUME ScansInv, UNCHANGED <<session, web>>,
         \A k \in DOMAIN pending' :
           (\E i \in DOMAIN pending : pending'[k] = pending[i]) \/ pending'[k].body = NoBody
  PROVE  ScansInv'
<1>1. session.scan \in Nat
  BY DEF ScansInv
<1>2. \A k \in DOMAIN pending' : pending'[k].body <= session.scan
  BY <1>1 DEF ScansInv, NoBody
<1>3. DoneIsItsOwn'
  <2>1. ASSUME NEW k \in DOMAIN pending', pending'[k].body # NoBody, pending'[k].body = session.scan
        PROVE  ~session.open
    BY <2>1 DEF ScansInv, DoneIsItsOwn
  <2> QED BY <2>1 DEF DoneIsItsOwn
<1> QED BY <1>2, <1>3 DEF ScansInv, DiscoveryTypeOK

\* A frame is sent to the client it is for, or that client is given up.
LEMMA SendKeeps ==
  ASSUME ClientsInv, NEW fd \in Fds, NEW generation, SendTo(fd, generation), UNCHANGED <<opened, socket>>
  PROVE  ClientsInv'
<1>1. CASE ~Current(fd, generation)
  BY <1>1, ClientsSame DEF SendTo
<1>2. CASE Current(fd, generation)
  <2>1. /\ generation = socket[fd] /\ socket[fd] # 0 /\ socket[fd] \notin broken
        /\ socket[fd] \in 1 .. opened
    BY <1>2 DEF Current, ClientsInv
  <2>2. ~strayed'
    BY <1>2, <2>1 DEF SendTo, ClientsInv
  <2>3. CASE UNCHANGED <<clients, broken>>
    BY <2>2, <2>3 DEF ClientsInv
  <2>4. CASE clients' = Retired(fd) /\ broken' = broken \cup {socket[fd]}
    <3>1. clients' \in [Fds -> Nat] /\ broken' \subseteq 1 .. opened
      BY <2>1, <2>4 DEF ClientsInv, Retired
    <3>2. ASSUME NEW f \in Fds, clients'[f] # 0 PROVE clients'[f] = socket[f] /\ socket[f] \notin broken'
      <4>1. f # fd /\ clients'[f] = clients[f]
        BY <2>4, <3>2 DEF ClientsInv, Retired
      <4>2. clients[f] = socket[f] /\ socket[f] # 0 /\ socket[f] \notin broken
        BY <3>2, <4>1 DEF ClientsInv
      <4>3. socket[f] # socket[fd]
        BY <4>1, <4>2 DEF ClientsInv
      <4> QED BY <2>4, <4>1, <4>2, <4>3
    <3> QED BY <2>2, <3>1, <3>2 DEF ClientsInv
  <2> QED BY <1>2, <2>3, <2>4 DEF SendTo
<1> QED BY <1>1, <1>2

\* A connection that opens is a new one.
LEMMA ConnectKeeps ==
  ASSUME ClientsInv, NEW fd \in Fds, Connect(fd)
  PROVE  ClientsInv'
<1>1. opened' = opened + 1 /\ opened \in Nat /\ opened' \in Nat
  BY DEF Connect, ClientsInv
<1>2. /\ clients' = [clients EXCEPT ![fd] = opened'] /\ socket' = [socket EXCEPT ![fd] = opened']
      /\ UNCHANGED <<broken, strayed>>
  BY DEF Connect
<1>3. /\ clients' \in [Fds -> Nat] /\ socket' \in [Fds -> 0 .. opened'] /\ broken' \subseteq 1 .. opened'
      /\ opened' \notin broken' /\ \A f \in Fds : socket[f] # opened'
  BY <1>1, <1>2 DEF ClientsInv
<1>4. \A f \in Fds : clients'[f] # 0 => clients'[f] = socket'[f] /\ socket'[f] \notin broken'
  BY <1>2, <1>3 DEF ClientsInv
<1>5. \A f, g \in Fds : socket'[f] # 0 /\ socket'[f] = socket'[g] => f = g
  BY <1>2, <1>3 DEF ClientsInv
<1> QED BY <1>1, <1>2, <1>3, <1>4, <1>5 DEF ClientsInv

\* A connection that closes takes its client and its mark along.
LEMMA CloseKeeps ==
  ASSUME ClientsInv, NEW fd \in Fds, Close(fd)
  PROVE  ClientsInv'
<1>1. /\ clients' = [clients EXCEPT ![fd] = 0] /\ socket' = [socket EXCEPT ![fd] = 0]
      /\ broken' = broken \ {socket[fd]} /\ UNCHANGED <<opened, strayed>>
  BY DEF Close, Retired
<1>2. clients' \in [Fds -> Nat] /\ socket' \in [Fds -> 0 .. opened'] /\ broken' \subseteq 1 .. opened'
  <2>1. /\ clients \in [Fds -> Nat] /\ socket \in [Fds -> 0 .. opened]
        /\ broken \subseteq 1 .. opened /\ opened \in Nat
    BY DEF ClientsInv
  <2>2. 0 \in 0 .. opened /\ 0 \in Nat
    BY <2>1
  <2>3. broken' \subseteq broken
    BY <1>1
  <2> QED BY <1>1, <2>1, <2>2, <2>3
<1>3. \A f \in Fds : clients'[f] # 0 => clients'[f] = socket'[f] /\ socket'[f] \notin broken'
  BY <1>1 DEF ClientsInv
<1>4. \A f, g \in Fds : socket'[f] # 0 /\ socket'[f] = socket'[g] => f = g
  BY <1>1 DEF ClientsInv
<1> QED BY <1>1, <1>2, <1>3, <1>4 DEF ClientsInv

\* A step of the transport: of the producers, the small task or httpd.
LEMMA TransportKeeps ==
  ASSUME WebInv, Transport(WsNext)
  PROVE  WebInv'
<1>1. /\ BoxInv /\ ClientsInv /\ ScansInv /\ UNCHANGED <<session, web>>
      /\ clients \in [Fds -> Nat] /\ pending \in Seq(Msgs)
  BY DEF WebInv, Transport, BoxInv, ClientsInv
<1>2. ASSUME NEW kind \in {"state", "log"}, Publish(kind, NoBody, FALSE),
             UNCHANGED <<clients, opened, socket, broken, flight, jobs, worker, strayed>>
      PROVE  WebInv'
  <2>1. kind \in Kinds /\ NoBody \in Nat /\ flight' = flight
    BY <1>2 DEF Kinds, NoBody
  <2>2. /\ BoxInv'
        /\ \A k \in DOMAIN pending' :
             (\E i \in DOMAIN pending : pending'[k] = pending[i]) \/ pending'[k].body = NoBody
    BY <1>1, <1>2, <2>1, PublishKeeps
  <2>3. ClientsInv'
    BY <1>1, <1>2, ClientsSame
  <2>4. ScansInv'
    BY <1>1, <2>2, ScansSame
  <2> QED BY <2>2, <2>3, <2>4 DEF WebInv
<1>3. ASSUME pending' = pending PROVE ScansInv'
  BY <1>1, <1>3, ScansSame
<1>4. CASE PublishState \/ PublishLog
  BY <1>2, <1>4 DEF PublishState, PublishLog
<1>5. CASE Scheduler
  <2>1. UNCHANGED <<clients, opened, socket, broken, pending, bytes, flight, strayed>>
    BY <1>5 DEF Scheduler, Wake, QueueWork, Resubmit
  <2> QED BY <1>1, <1>3, <2>1, MailSame, ClientsSame DEF WebInv
<1>6. CASE Take
  <2>1. ClientsInv'
    BY <1>1, <1>6, ClientsSame DEF Take
  <2>2. CASE pending = << >>
    BY <1>1, <1>3, <1>6, <2>1, <2>2, MailSame DEF WebInv, Take
  <2>3. CASE pending # << >>
    <3>1. /\ flight = None /\ bytes' = bytes /\ pending' = Tail(pending)
          /\ flight' = [kind |-> "taken", message |-> Head(pending), left |-> Fds]
      BY <1>6, <2>3 DEF Take
    <3>2. /\ Head(pending) \in Msgs /\ Left(Tail(pending), pending)
          /\ Weight(pending) = Weight(Tail(pending)) + SizeOf(Head(pending).kind)
      BY <1>1, <2>3, TailWeighs
    <3>3. flight' \in Flights /\ flight' # None /\ pending' \in Seq(Msgs)
      BY <3>1, <3>2 DEF Flights, None, Left
    <3>4. /\ bytes = Weight(pending) + 0 /\ bytes <= MaxBytes
      BY <1>1, <3>1 DEF BoxInv, BytesAccounted, InFlight
    <3>5. Weight(pending') \in Nat /\ SizeOf(Head(pending).kind) \in {1, 2}
      BY <3>2, <3>3, WeightIs DEF SizeOf, Msgs, Kinds
    <3>6. InFlight' = SizeOf(Head(pending).kind)
      BY <3>1, <3>3 DEF InFlight, SizeOf
    <3>7. bytes' = Weight(pending') + InFlight' /\ bytes' <= MaxBytes
      BY <3>1, <3>2, <3>4, <3>5, <3>6
    <3>8. BoxInv'
      BY <3>3, <3>7 DEF BoxInv, BytesAccounted, Weight, InFlight
    <3>9. ScansInv'
      BY <1>1, <3>1, <3>2, ScansSame DEF Left
    <3> QED BY <2>1, <3>8, <3>9 DEF WebInv
  <2> QED BY <2>2, <2>3
<1>7. CASE Deliver
  <2>1. PICK fd \in flight.left :
          flight' = [flight EXCEPT !.left = @ \ {fd}] /\ SendTo(fd, flight.message.to[fd])
    BY <1>7 DEF Deliver
  <2>2. flight \in Flights /\ fd \in Fds
    BY <1>1, <1>7, <2>1 DEF Deliver, BoxInv, Flights
  <2>3. /\ flight' \in Flights /\ flight # None /\ flight' # None /\ flight'.message = flight.message
        /\ UNCHANGED <<pending, bytes, opened, socket>>
    BY <1>7, <2>1, <2>2 DEF Deliver, Flights, None
  <2>4. BoxInv'
    BY <1>1, <2>3 DEF BoxInv, BytesAccounted, InFlight, Weight, SizeOf
  <2>5. ClientsInv'
    BY <1>1, <2>1, <2>2, <2>3, SendKeeps
  <2> QED BY <1>3, <2>3, <2>4, <2>5 DEF WebInv
<1>8. CASE Delivered
  <2>1. /\ flight \in Flights /\ flight # None /\ flight' = None
        /\ bytes' = bytes - SizeOf(flight.message.kind) /\ pending' = pending
    BY <1>1, <1>8 DEF Delivered, BoxInv
  <2>2. bytes = Weight(pending) + SizeOf(flight.message.kind) /\ bytes <= MaxBytes
    BY <1>1, <2>1 DEF BoxInv, BytesAccounted, InFlight
  <2>3. Weight(pending) \in Nat /\ SizeOf(flight.message.kind) \in {1, 2} /\ MaxBytes \in Nat
    BY <1>1, <2>1, WeightIs, MailboxAssumption DEF SizeOf, Flights, Msgs, Kinds
  <2>4. bytes' = Weight(pending) + 0 /\ bytes' <= MaxBytes
    BY <2>1, <2>2, <2>3
  <2>5. BoxInv'
    BY <1>1, <2>1, <2>4 DEF BoxInv, BytesAccounted, InFlight, Weight
  <2>6. ClientsInv'
    BY <1>1, <1>8, ClientsSame DEF Delivered
  <2> QED BY <1>3, <2>1, <2>5, <2>6 DEF WebInv
<1>9. ASSUME NEW fd \in Fds, Reply(fd) PROVE WebInv'
  <2>1. ClientsInv'
    BY <1>1, <1>9, SendKeeps DEF Reply
  <2> QED BY <1>1, <1>3, <1>9, <2>1, MailSame DEF WebInv, Reply
<1>10. ASSUME NEW fd \in Fds, Close(fd) PROVE WebInv'
  <2>1. ClientsInv'
    BY <1>1, <1>10, CloseKeeps
  <2> QED BY <1>1, <1>3, <1>10, <2>1, MailSame DEF WebInv, Close
<1> QED BY <1>4, <1>5, <1>6, <1>7, <1>8, <1>9, <1>10 DEF Transport, WsNext, Httpd
\* WebUI::loop(): an end is offered of the session that is over, and a new
\* session is one that no message is about.
LEMMA LoopKeeps ==
  ASSUME WebInv, NEW capped \in BOOLEAN, NEW busy \in BOOLEAN, WebLoop(capped, busy)
  PROVE  WebInv'
<1> DEFINE opened1 == IF web.requested THEN Opened(session, bleOn) ELSE session
           web1 == RequestHeard(web, web.requested)
           completes == Completes(opened1, capped)
           web2 == Heard(web1, opened1, completes)
           body == IF web2.donePending THEN opened1.scan ELSE NoBody
<1>1. /\ BoxInv /\ ClientsInv /\ ScansInv
      /\ clients \in [Fds -> Nat] /\ pending \in Seq(Msgs)
      /\ session \in [scan: Nat, open: BOOLEAN, stop: BOOLEAN, fresh: BOOLEAN]
      /\ web \in [requested: BOOLEAN, resync: BOOLEAN, donePending: BOOLEAN, pushPending: BOOLEAN]
  BY DEF WebInv, BoxInv, ClientsInv, ScansInv, DiscoveryTypeOK
<1>2. /\ session' = IF completes THEN Closed(opened1) ELSE Pushed(opened1)
      /\ \E accepted \in BOOLEAN : web' = [web2 EXCEPT !.pushPending = StillPending(@, accepted)]
      /\ IF web2.pushPending THEN Publish("discovery", body, busy) ELSE UNCHANGED <<pending, bytes, ready>>
      /\ UNCHANGED <<clients, opened, socket, broken, flight, jobs, worker, strayed>>
  <2> HIDE DEF web2, opened1
  <2>1. web2.pushPending \in BOOLEAN
    BY <1>1 DEF web2, web1, opened1, Heard, RequestHeard, HasNews, Completes, Opened
  <2>2. (web2.pushPending /\ Accepted("discovery", busy)) \in BOOLEAN
    BY <2>1
  <2>3. web1 = RequestHeard(web, web.requested) /\ web2 = Heard(web1, opened1, completes)
    BY DEF web2
  <2> HIDE DEF web1
  <2>4. \E o \in {opened1} : \E w1 \in {web1} : \E w2 \in {Heard(w1, o, Completes(o, capped))} :
          /\ session' = IF Completes(o, capped) THEN Closed(o) ELSE Pushed(o)
          /\ \E accepted \in {w2.pushPending /\ Accepted("discovery", busy)} :
               web' = [w2 EXCEPT !.pushPending = StillPending(@, accepted)]
          /\ IF w2.pushPending
             THEN Publish("discovery", IF w2.donePending THEN o.scan ELSE NoBody, busy)
             ELSE UNCHANGED <<pending, bytes, ready>>
          /\ UNCHANGED <<clients, opened, socket, broken, flight, jobs, worker, strayed>>
    BY DEF WebLoop, opened1, web1
  <2>5. /\ session' = IF completes THEN Closed(opened1) ELSE Pushed(opened1)
        /\ \E accepted \in {web2.pushPending /\ Accepted("discovery", busy)} :
             web' = [web2 EXCEPT !.pushPending = StillPending(@, accepted)]
        /\ IF web2.pushPending THEN Publish("discovery", body, busy) ELSE UNCHANGED <<pending, bytes, ready>>
        /\ UNCHANGED <<clients, opened, socket, broken, flight, jobs, worker, strayed>>
    BY <2>3, <2>4
  <2> QED BY <2>2, <2>5
<1>3. /\ opened1 \in [scan: Nat, open: BOOLEAN, stop: BOOLEAN, fresh: BOOLEAN]
      /\ session.scan <= opened1.scan
      /\ opened1 # session => opened1.scan = session.scan + 1 /\ web.requested
  BY <1>1 DEF Opened
<1>4. web1 \in [requested: BOOLEAN, resync: BOOLEAN, donePending: BOOLEAN, pushPending: BOOLEAN]
      /\ (web1.donePending => web.donePending /\ ~web.requested)
  BY <1>1 DEF RequestHeard
<1> HIDE DEF opened1, web1
<1>5. completes \in BOOLEAN
  BY <1>3 DEF Completes
<1>6. web2 \in [requested: BOOLEAN, resync: BOOLEAN, donePending: BOOLEAN, pushPending: BOOLEAN]
      /\ (web2.donePending => web1.donePending \/ completes)
  BY <1>3, <1>4, <1>5 DEF Heard, HasNews, Completes
<1>7. /\ session' \in [scan: Nat, open: BOOLEAN, stop: BOOLEAN, fresh: BOOLEAN]
      /\ session'.scan = opened1.scan
      /\ session'.open = (opened1.open /\ ~completes)
  BY <1>2, <1>3, <1>5 DEF Closed, Pushed
<1>8. web2.donePending => ~session'.open
  <2>1. CASE completes
    BY <1>7, <2>1
  <2>2. CASE ~completes
    BY <1>1, <1>3, <1>4, <1>6, <1>7, <2>2 DEF ScansInv
  <2> QED BY <2>1, <2>2
<1> HIDE DEF web2, completes
<1>9. DiscoveryTypeOK' /\ web'.donePending = web2.donePending
  BY <1>2, <1>6 DEF DiscoveryTypeOK, StillPending
<1>10. body \in Nat /\ body <= session'.scan /\ (body # NoBody => ~session'.open)
  BY <1>3, <1>7, <1>8 DEF NoBody
<1> HIDE DEF body
<1>11. BoxInv' /\ \A k \in DOMAIN pending' :
         (\E i \in DOMAIN pending : pending'[k] = pending[i]) \/ pending'[k].body = body
  <2>1. CASE web2.pushPending
    <3>1. "discovery" \in Kinds /\ Publish("discovery", body, busy) /\ flight' = flight
      BY <1>2, <2>1 DEF Kinds
    <3> QED BY <1>1, <1>10, <3>1, PublishKeeps
  <2>2. CASE ~web2.pushPending
    <3>1. UNCHANGED <<pending, bytes, flight>>
      BY <1>2, <2>2
    <3> QED BY <1>1, <3>1, MailSame
  <2> QED BY <2>1, <2>2
<1>12. ClientsInv'
  BY <1>1, <1>2, ClientsSame
<1>13. \A k \in DOMAIN pending' : pending'[k].body <= session'.scan
  <2>1. \A i \in DOMAIN pending : pending[i].body \in Nat /\ pending[i].body <= session.scan
    <3>1. \A i \in DOMAIN pending : pending[i] \in Msgs
      BY <1>1
    <3> QED BY <1>1, <3>1 DEF ScansInv, Msgs
  <2> QED BY <1>1, <1>3, <1>7, <1>10, <1>11, <2>1
<1>14. DoneIsItsOwn'
  <2> SUFFICES ASSUME NEW k \in DOMAIN pending', pending'[k].body # NoBody, pending'[k].body = session'.scan
               PROVE  ~session'.open
    BY DEF DoneIsItsOwn
  <2>1. CASE pending'[k].body = body
    BY <1>10, <2>1
  <2>2. CASE \E i \in DOMAIN pending : pending'[k] = pending[i]
    <3>1. PICK i \in DOMAIN pending : pending'[k] = pending[i]
      BY <2>2
    <3>2. pending[i].body <= session.scan /\ session.scan \in Nat
      BY <1>1 DEF ScansInv
    <3>3. opened1 = session
      BY <1>3, <1>7, <3>1, <3>2
    <3>4. ~session.open
      BY <1>1, <1>7, <3>1, <3>3 DEF ScansInv, DoneIsItsOwn
    <3> QED BY <1>7, <3>3, <3>4
  <2> QED BY <1>11, <2>1, <2>2
<1> QED BY <1>7, <1>8, <1>9, <1>11, <1>12, <1>13, <1>14 DEF WebInv, ScansInv

\* The steps of the session that offer nothing.
LEMMA SessionKeeps ==
  ASSUME WebInv, DeviceFound \/ SetBleEnabled \/ BleScanCommand \/ BleScanStop
  PROVE  WebInv'
<1>1. /\ BoxInv /\ ClientsInv /\ ScansInv
      /\ session \in [scan: Nat, open: BOOLEAN, stop: BOOLEAN, fresh: BOOLEAN]
      /\ web \in [requested: BOOLEAN, resync: BOOLEAN, donePending: BOOLEAN, pushPending: BOOLEAN]
  BY DEF WebInv, ScansInv, DiscoveryTypeOK
<1>2. UNCHANGED wsVars
  BY DEF DeviceFound, SetBleEnabled, BleScanCommand, BleScanStop
<1>3. BoxInv' /\ ClientsInv'
  BY <1>1, <1>2, MailSame, ClientsSame DEF wsVars
<1>4. /\ session' \in [scan: Nat, open: BOOLEAN, stop: BOOLEAN, fresh: BOOLEAN]
      /\ session'.scan = session.scan /\ session'.open = session.open
  BY <1>1 DEF DeviceFound, SetBleEnabled, BleScanCommand, BleScanStop, Listed, StopRequested
<1>5. /\ web' \in [requested: BOOLEAN, resync: BOOLEAN, donePending: BOOLEAN, pushPending: BOOLEAN]
      /\ web'.donePending = web.donePending
  BY <1>1 DEF DeviceFound, SetBleEnabled, BleScanCommand, BleScanStop
<1>6. ScansInv'
  <2>1. pending' = pending
    BY <1>2 DEF wsVars
  <2> QED BY <1>1, <1>4, <1>5, <2>1 DEF ScansInv, DiscoveryTypeOK, DoneIsItsOwn
<1> QED BY <1>3, <1>6 DEF WebInv

\* Every step keeps the invariant.
LEMMA WebNext == WebInv /\ [Next]_vars => WebInv'
<1> SUFFICES ASSUME WebInv, [Next]_vars PROVE WebInv'
  OBVIOUS
<1>1. CASE Transport(WsNext)
  BY <1>1, TransportKeeps
<1>2. CASE WebTick
  BY <1>2, LoopKeeps DEF WebTick
<1>3. CASE DeviceFound \/ SetBleEnabled \/ BleScanCommand \/ BleScanStop
  BY <1>3, SessionKeeps
<1>4. ASSUME NEW fd \in Fds, Open(fd) PROVE WebInv'
  <2>1. ClientsInv'
    BY <1>4, ConnectKeeps DEF WebInv, Open
  <2>2. BoxInv'
    BY <1>4, MailSame DEF WebInv, Open, Connect
  <2>3. UNCHANGED <<pending, session>> /\ web' = [web EXCEPT !.resync = TRUE]
    BY <1>4 DEF Open, Connect
  <2>4. ScansInv'
    BY <2>3 DEF WebInv, ScansInv, DiscoveryTypeOK, DoneIsItsOwn
  <2> QED BY <2>1, <2>2, <2>4 DEF WebInv
<1>5. CASE UNCHANGED vars
  <2>1. UNCHANGED wsVars /\ UNCHANGED <<session, web>>
    BY <1>5 DEF vars
  <2>2. BoxInv' /\ ClientsInv'
    BY <2>1, MailSame, ClientsSame DEF WebInv, wsVars
  <2>3. ScansInv'
    BY <2>1 DEF WebInv, ScansInv, DiscoveryTypeOK, DoneIsItsOwn, wsVars
  <2> QED BY <2>2, <2>3 DEF WebInv
<1> QED BY <1>1, <1>2, <1>3, <1>4, <1>5 DEF Next

\* The mailbox, the clients and the scans agree at all times.
LEMMA WebIsInvariant == Spec => []WebInv
BY WebInit0, WebNext, PTL DEF Spec

\* What is pending or in flight is charged once and given back once, whatever
\* was discarded, replaced or lost, for every number of sockets, of messages
\* and of bytes (web_ws_transport.cpp 83-141, 175-188).
THEOREM MailIsCharged == Spec => []BytesAccounted
<1>1. WebInv => BytesAccounted
  BY DEF WebInv, BoxInv
<1> QED BY <1>1, WebIsInvariant, PTL

\* No frame reaches another connection than it was published for, nor one that
\* is broken, and no end is announced of a session that is open, for every
\* number of sockets, connections and scans (web_ws_transport.cpp 201-224,
\* web_ws.cpp 1673-1680).
THEOREM BrowsersAreToldRight == Spec => []SaidToTheRight
<1>1. WebInv => SaidToTheRight
  BY DEF WebInv, ClientsInv, ScansInv, SaidToTheRight, SentToItsOwn
<1> QED BY <1>1, WebIsInvariant, PTL
=============================================================================
