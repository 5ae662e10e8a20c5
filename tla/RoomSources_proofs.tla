--------------------------- MODULE RoomSources_proofs ---------------------------
(***************************************************************************)
(* The room temperature, for any number of sensors, dials and slots, and   *)
(* whether or not other tasks act in the middle of a pass: a register this *)
(* device has not written is never cleared, and what is selected has a     *)
(* sensor and a bonded dial behind it.                                     *)
(***************************************************************************)
EXTENDS RoomSources, FiniteSetTheorems, WellFoundedInduction, TLAPS

---------------------------------------------------------------------------
(***************************************************************************)
(* The inductive invariant                                                 *)
(***************************************************************************)
Samples ==
  /\ sample \in [slot: Slots \cup {None}, from: Sensors \cup {None}, age: Ages, on: BOOLEAN]
  /\ sample.age # "never" => sample.from # None

\* A slot with a reading has a sensor.
Readings == \A s \in Slots : heard[s] # "never" => target[s] # None

\* Until the first value is sent, no feeder owns the register or owes a clear.
NothingOwed ==
  asked = Untouched => ~ble.owns /\ ~link.feeding /\ ~link.clear /\ ~avg.feeding /\ ~avg.clear

\* The pass under way has reconciled the selection, unless a command came
\* since then.
PassReconciled ==
  pc # "idle" /\ (calm > 0 \/ ~MidPass) /\ LinkSelected => sel.pin \in bonded

RoomInv ==
  TypeOK /\ Samples /\ Readings /\ NothingOwed /\ SelectionExists /\ PassReconciled /\ PinIsBonded

---------------------------------------------------------------------------
(***************************************************************************)
(* Types                                                                   *)
(***************************************************************************)
Selections ==
  [mode: {"single", "average"}, single: {INTERNAL, LINK} \cup Slots,
   pin: Dials \cup {None}, members: SUBSET ({LINK} \cup Slots)]
BleStates ==
  [prev: Slots \cup {None}, clear: BOOLEAN, newer: BOOLEAN, owns: BOOLEAN,
   reverted: BOOLEAN, sent: BOOLEAN, quiet: 0 .. Keepalive]
LinkStates ==
  [feeding: BOOLEAN, sent: BOOLEAN, clear: BOOLEAN, owner: Dials \cup {None},
   quiet: 0 .. Keepalive]
AvgStates == [feeding: BOOLEAN, sent: BOOLEAN, clear: BOOLEAN, quiet: 0 .. Keepalive]
Orders == {Untouched} \cup (SUBSET (Sensors \cup Dials))

\* TypeOK with its sets named.
LEMMA TypesNamed ==
  TypeOK <=>
    /\ sel \in Selections /\ target \in [Slots -> Sensors \cup {None}]
    /\ heard \in [Slots -> Ages] /\ entry \in [Dials -> Ages \cup {"unused"}]
    /\ bonded \in SUBSET Dials /\ bleOn \in BOOLEAN /\ connected \in BOOLEAN
    /\ ble \in BleStates /\ link \in LinkStates /\ avg \in AvgStates
    /\ pc \in {"idle", "ble", "feed", "link", "avg"} /\ asked \in Orders
    /\ calm \in 0 .. Keepalive + 2 /\ edited \in BOOLEAN /\ strayed \in BOOLEAN
BY DEF TypeOK, Selections, BleStates, LinkStates, AvgStates, Orders

\* The bounds as integers.
LEMMA Bounds ==
  /\ 0 \in 0 .. Keepalive /\ Keepalive \in 0 .. Keepalive /\ 0 \in 0 .. Keepalive + 2
  /\ 2 \in Slots /\ Slots \subseteq Nat /\ INTERNAL \notin Slots /\ LINK \notin Slots
BY KeepaliveAssumption, NSlotsAssumption DEF Slots, INTERNAL, LINK

\* A value made of sensors is neither the thermistor nor "not written".
LEMMA OrderIs ==
  ASSUME NEW S \in SUBSET (Sensors \cup Dials), S # {}
  PROVE  S \in Orders /\ S # Internal /\ S # Untouched
BY SourcesAssumption DEF Orders, Internal, Untouched

\* The thermistor is not "not written".
LEMMA InternalIs == Internal \in Orders /\ Internal # Untouched
BY DEF Orders, Internal, Untouched

---------------------------------------------------------------------------
(***************************************************************************)
(* The selection                                                           *)
(***************************************************************************)
\* Saving a selection keeps its mode, its source and its members.
LEMMA SavedIs ==
  ASSUME NEW s \in Selections
  PROVE  Saved(s) \in Selections /\ Saved(s).single = s.single
BY DEF Saved, Selections

\* The first slot with a sensor.
LEMMA FirstSlotIs ==
  ASSUME \E s \in Slots : target[s] # None
  PROVE  \E s \in Slots : target[s] # None /\ \A t \in Slots : t < s => target[t] = None
<1> DEFINE T == {s \in Slots : target[s] # None}
<1>1. T \subseteq Nat /\ T # {}
  BY Bounds
<1>2. PICK x \in T : \A y \in T : ~(<<y, x>> \in OpToRel(<, Nat))
  BY <1>1, NatLessThanWellFounded, WFMin
<1>3. \A y \in T : ~(y < x)
  BY <1>1, <1>2 DEF OpToRel
<1> QED BY <1>2, <1>3

\* The source an older page or dial names by its kind.
LEMMA LegacySingleIs ==
  ASSUME NEW src
  PROVE  /\ LegacySingle(src) \in {INTERNAL, LINK} \cup Slots
         /\ LegacySingle(src) \in Slots => target[LegacySingle(src)] # None
<1>1. CASE src = "ble" /\ \E s \in Slots : target[s] # None
  <2> DEFINE m == CHOOSE s \in Slots : target[s] # None /\ \A t \in Slots : t < s => target[t] = None
  <2>1. m \in Slots /\ target[m] # None
    BY <1>1, FirstSlotIs
  <2> QED BY <1>1, <2>1 DEF LegacySingle
<1>2. CASE ~(src = "ble" /\ \E s \in Slots : target[s] # None)
  BY <1>2, Bounds DEF LegacySingle
<1> QED BY <1>1, <1>2

\* A catalog that lost the selected dial leaves a bonded one, or none.
LEMMA ReconciledIs ==
  ASSUME TypeOK
  PROVE  /\ Reconciled \in Selections
         /\ Reconciled.single \in Slots => Reconciled.single = sel.single
         /\ Reconciled.mode = "single" /\ Reconciled.single = LINK => Reconciled.pin \in bonded
<1>1. Cardinality(bonded) = 1 => (CHOOSE d \in bonded : TRUE) \in bonded
  BY FS_EmptySet
<1> HIDE DEF LINK, INTERNAL
<1>2. LINK # INTERNAL
  BY DEF LINK, INTERNAL
<1> DEFINE d0 == CHOOSE d \in bonded : TRUE
<1>3. Reconciled = IF ~LinkSelected \/ sel.pin \in bonded THEN sel
                   ELSE IF Cardinality(bonded) = 1 THEN [sel EXCEPT !.pin = d0]
                   ELSE [sel EXCEPT !.single = INTERNAL, !.pin = None]
  BY DEF Reconciled
<1>4. sel \in Selections /\ bonded \subseteq Dials
  BY TypesNamed
<1>5. LinkSelected <=> sel.mode = "single" /\ sel.single = LINK
  BY DEF LinkSelected
<1> HIDE DEF d0
<1> QED BY <1>1, <1>2, <1>3, <1>4, <1>5, Bounds DEF Selections, d0
\* The record of a selection with a new source.
LEMMA ChoiceIs ==
  ASSUME TypeOK, NEW single \in {INTERNAL, LINK} \cup Slots, NEW pin \in Dials \cup {None},
         NEW mode \in {"single", "average"}
  PROVE  LET s == [sel EXCEPT !.mode = mode, !.single = single, !.pin = pin]
         IN  s \in Selections /\ s.single = single
BY DEF TypeOK, Selections

---------------------------------------------------------------------------
(***************************************************************************)
(* The Bluetooth feeder                                                    *)
(***************************************************************************)
\* A sampled reading that is live came from a sensor.
LEMMA SampledIs ==
  ASSUME Samples, Live(sample.age)
  PROVE  {sample.from} \in SUBSET (Sensors \cup Dials) /\ {sample.from} # {}
BY DEF Samples, Live

\* A clear is owed only by an owner: asking for one makes nobody an owner.
LEMMA RequestClearIs ==
  ASSUME NEW b \in BleStates
  PROVE  RequestClear(b) \in BleStates /\ RequestClear(b).owns = b.owns
BY DEF RequestClear, BleStates

\* A moved slot starts a new episode.
LEMMA SlotMovedIs ==
  ASSUME Samples, NEW b \in BleStates
  PROVE  SlotMoved(b) \in BleStates /\ SlotMoved(b).owns = b.owns
<1> DEFINE reset == [b EXCEPT !.prev = sample.slot, !.quiet = Keepalive, !.sent = FALSE,
                              !.reverted = FALSE]
<1>1. reset \in BleStates /\ reset.owns = b.owns
  BY Bounds DEF Samples, BleStates
<1>2. SlotMoved(b) = IF sample.slot = b.prev THEN b
                     ELSE IF Live(sample.age) THEN reset ELSE RequestClear(reset)
  BY DEF SlotMoved
<1> HIDE DEF reset
<1> QED BY <1>1, <1>2, RequestClearIs

\* A value sent makes Bluetooth the owner and drops its clear.
LEMMA BleSentIs ==
  ASSUME NEW b \in BleStates
  PROVE  BleSent(b) \in BleStates /\ BleSent(b).owns /\ ~BleSent(b).clear
BY Bounds DEF BleSent, BleStates

\* The watchdog bites on a stale reading only.
LEMMA WatchedIs ==
  ASSUME Samples, NEW b \in BleStates
  PROVE  /\ Watched(b) \in BleStates /\ Watched(b).owns = b.owns
         /\ Live(sample.age) => Watched(b) = b
<1> DEFINE bitten == [b EXCEPT !.reverted = TRUE]
<1>1. bitten \in BleStates /\ bitten.owns = b.owns
  BY DEF BleStates
<1>2. Watched(b) = IF sample.slot # None /\ sample.age = "stale" /\ ~b.reverted
                   THEN RequestClear(bitten) ELSE b
  BY DEF Watched
<1>3. Live(sample.age) => sample.age # "stale"
  BY DEF Live
<1> HIDE DEF bitten
<1> QED BY <1>1, <1>2, <1>3, RequestClearIs

\* Only the owner clears the register.
LEMMA DrainedIs ==
  ASSUME NEW b \in BleStates
  PROVE  /\ Drained(b) \in BleStates
         /\ ~b.owns => ~Drains(b) /\ ~Drained(b).owns
         /\ ~b.clear => ~Drains(b)
<1>1. Drains(b) => b.clear /\ b.owns
  BY DEF Drains
<1>2. Drained(b) = IF ~b.clear THEN b
                   ELSE IF ~b.owns THEN [b EXCEPT !.clear = FALSE]
                   ELSE IF ~connected THEN b
                   ELSE [b EXCEPT !.clear = FALSE, !.owns = FALSE,
                                  !.sent = b.sent /\ ~Drains(b)]
  BY DEF Drained
<1>3. (b.sent /\ ~Drains(b)) \in BOOLEAN
  OBVIOUS
<1> HIDE DEF Drains
<1> QED BY <1>1, <1>2, <1>3 DEF BleStates

\* What the Bluetooth feeder orders.
LEMMA BleFeedIs ==
  ASSUME TypeOK, Samples, NEW early \in BOOLEAN, BleFeed(early)
  PROVE  /\ ble' \in BleStates /\ asked' \in Orders
         /\ asked' = Untouched => asked = Untouched
         /\ ~ble.owns => \/ asked' = asked /\ ~ble'.owns
                         \/ asked' # Internal /\ asked' # Untouched
<1> DEFINE moved == IF sample.on THEN SlotMoved(ble) ELSE ble
           sends == /\ sample.on /\ BleMaySend(moved)
                    /\ moved.clear \/ ~moved.sent \/ moved.quiet = Keepalive \/ early
           fed == IF sends THEN BleSent(moved) ELSE moved
           seen == IF sample.on THEN Watched(fed) ELSE fed
<1>1. moved \in BleStates /\ moved.owns = ble.owns
  BY SlotMovedIs, TypesNamed
<1>2. sends => Live(sample.age)
  BY DEF BleMaySend
<1>3. ble' = Drained(seen)
      /\ asked' = IF Drains(seen) THEN Internal ELSE IF sends THEN {sample.from} ELSE asked
  BY DEF BleFeed
<1> HIDE DEF moved, sends
<1>4. fed \in BleStates /\ (sends => fed.owns /\ ~fed.clear) /\ (~sends => fed.owns = ble.owns)
  BY <1>1, BleSentIs
<1> HIDE DEF fed
<1>5. seen \in BleStates /\ seen.owns = fed.owns /\ (sends => seen = fed)
  BY <1>2, <1>4, WatchedIs
<1> HIDE DEF seen
<1>6. Drained(seen) \in BleStates
      /\ (~seen.owns => ~Drains(seen) /\ ~Drained(seen).owns) /\ (~seen.clear => ~Drains(seen))
  BY <1>5, DrainedIs
<1>7. sends => {sample.from} \in Orders /\ {sample.from} # Internal /\ {sample.from} # Untouched
  BY <1>2, SampledIs, OrderIs
<1>8. asked \in Orders
  BY TypesNamed
<1>9. CASE sends
  BY <1>3, <1>4, <1>5, <1>6, <1>7, <1>9
<1>10. CASE ~sends
  BY <1>3, <1>4, <1>5, <1>6, <1>8, <1>10, InternalIs
<1> QED BY <1>9, <1>10

---------------------------------------------------------------------------
(***************************************************************************)
(* The two feeders of room_feed.h                                          *)
(***************************************************************************)
FeedActions == {"none", "clear", "send"}

\* What a feeder decides: a value needs a live source, a clear an episode.
LEMMA FeedActionIs ==
  ASSUME NEW f, NEW live \in BOOLEAN, NEW early \in BOOLEAN
  PROVE  /\ FeedAction(f, live, early) \in FeedActions
         /\ FeedAction(f, live, early) = "send" => live
         /\ FeedAction(f, live, early) = "clear" => f.feeding
BY DEF FeedAction, FeedActions

\* The dials behind a live selection are live dials.
LEMMA LinkViewIs == LinkView \in SUBSET (Sensors \cup Dials) /\ (LinkActive <=> LinkView # {})
BY DEF LinkView, LinkActive, LiveDials

\* The contributors to an average are sensors and dials.
LEMMA ContributorsAre ==
  ASSUME TypeOK, Readings
  PROVE  Contributors \in SUBSET (Sensors \cup Dials)
<1>1. \A s \in Slots : BleActive(s) => target[s] \in Sensors
  BY DEF BleActive, Live, Readings, TypeOK
<1> QED BY <1>1 DEF Contributors, LiveDials

\* What the feeder of the dials orders.
LEMMA LinkPassIs ==
  ASSUME TypeOK, NEW early \in BOOLEAN, LinkPass(early)
  PROVE  /\ link' \in LinkStates /\ asked' \in Orders
         /\ asked' = Untouched => asked = Untouched
         /\ ~link.feeding /\ ~link.clear =>
              \/ asked' = asked /\ ~link'.feeding /\ ~link'.clear
              \/ asked' # Internal /\ asked' # Untouched
<1> DEFINE drains == link.clear /\ connected
           clears == drains /\ ~BleActive(FeedSlot) /\ ~avg.feeding
           kept == [link EXCEPT !.clear = link.clear /\ ~drains]
           before == NewOwner(kept)
           action == FeedAction(before, LinkSelected /\ LinkActive, early)
<1>1. link \in LinkStates /\ connected \in BOOLEAN /\ asked \in Orders /\ sel.pin \in Dials \cup {None}
  BY TypesNamed DEF Selections
<1>2. (link.clear /\ ~drains) \in BOOLEAN
  OBVIOUS
<1>3. kept \in LinkStates /\ kept.feeding = link.feeding /\ (~link.clear => ~kept.clear)
  BY <1>1, <1>2 DEF LinkStates
<1>4. before = NewOwner(kept) /\ link' = FeedStep(before, action)
      /\ asked' = CASE action = "send" -> LinkView
                    [] OTHER -> IF clears THEN Internal ELSE asked
  BY DEF LinkPass
<1>5. clears => link.clear
  OBVIOUS
<1> HIDE DEF kept, clears
<1>6. before \in LinkStates /\ before.feeding = link.feeding /\ (~link.clear => ~before.clear)
  BY <1>1, <1>3 DEF NewOwner, LinkStates
<1>7. /\ action \in FeedActions
      /\ action = "send" => LinkSelected /\ LinkActive
      /\ action = "clear" => before.feeding
  BY FeedActionIs
<1> HIDE DEF before, action
<1>8. /\ FeedStep(before, action) \in LinkStates
      /\ action = "none" => FeedStep(before, action) = before
  BY <1>6, <1>7, Bounds DEF FeedStep, LinkStates, FeedActions
<1>9. CASE action = "send"
  BY <1>4, <1>7, <1>8, <1>9, LinkViewIs, OrderIs
<1>10. CASE action # "send"
  <2>1. asked' = IF clears THEN Internal ELSE asked
    BY <1>4, <1>10
  <2> QED BY <1>1, <1>4, <1>5, <1>6, <1>7, <1>8, <1>10, <2>1, InternalIs DEF FeedActions
<1> QED BY <1>9, <1>10

\* What the feeder of the average orders.
LEMMA AvgPassIs ==
  ASSUME TypeOK, Readings, NEW early \in BOOLEAN, AvgPass(early)
  PROVE  /\ avg' \in AvgStates /\ asked' \in Orders
         /\ asked' = Untouched => asked = Untouched
         /\ ~avg.feeding /\ ~avg.clear =>
              \/ asked' = asked /\ ~avg'.feeding /\ ~avg'.clear
              \/ asked' # Internal /\ asked' # Untouched
<1> DEFINE drains == avg.clear /\ connected
           clears == drains /\ ~HandedToSingle
           before == [avg EXCEPT !.clear = avg.clear /\ ~drains]
           action == FeedAction(before, Contributors # {}, early)
           after == FeedStep(before, action)
<1>1. avg \in AvgStates /\ connected \in BOOLEAN /\ asked \in Orders
  BY TypesNamed
<1>2. (avg.clear /\ ~drains) \in BOOLEAN
  OBVIOUS
<1>3. before \in AvgStates /\ before.feeding = avg.feeding /\ (~avg.clear => ~before.clear)
  BY <1>1, <1>2 DEF AvgStates
<1>4. avg' = [after EXCEPT !.quiet = Passed(after.quiet)]
      /\ asked' = CASE action = "send" -> Contributors
                    [] OTHER -> IF clears THEN Internal ELSE asked
  BY DEF AvgPass
<1>5. clears => avg.clear
  OBVIOUS
<1> HIDE DEF before, clears
<1>6. /\ action \in FeedActions
      /\ action = "send" => Contributors # {}
      /\ action = "clear" => before.feeding
  BY FeedActionIs
<1> HIDE DEF action
<1>7. after \in AvgStates /\ (action = "none" => after = before)
  BY <1>3, <1>6, Bounds DEF FeedStep, AvgStates, FeedActions
<1> HIDE DEF after
<1>8. avg' \in AvgStates /\ avg'.feeding = after.feeding /\ avg'.clear = after.clear
  BY <1>4, <1>7, KeepaliveAssumption DEF AvgStates, Passed
<1>9. CASE action = "send"
  BY <1>4, <1>6, <1>8, <1>9, ContributorsAre, OrderIs
<1>10. CASE action # "send"
  <2>1. asked' = IF clears THEN Internal ELSE asked
    BY <1>4, <1>10
  <2> QED BY <1>1, <1>3, <1>5, <1>6, <1>7, <1>8, <1>10, <2>1, InternalIs DEF FeedActions
<1> QED BY <1>9, <1>10
---------------------------------------------------------------------------
(***************************************************************************)
(* The steps of one pass                                                   *)
(***************************************************************************)
\* Where a pass reconciles the selection, it keeps the invariant.
LEMMA ReconcileKeeps == RoomInv /\ Reconcile => RoomInv'
<1> SUFFICES ASSUME RoomInv, Reconcile PROVE RoomInv'
  OBVIOUS
<1> USE DEF RoomInv
<1>1. sel' = Reconciled /\ pc' = "ble" /\ calm' \in {calm, 0}
      /\ UNCHANGED <<target, heard, entry, bonded, bleOn, connected, ble, link, avg, sample,
                     asked, strayed, edited, events>>
  BY DEF Reconcile
<1>2. TypeOK'
  BY <1>1, ReconciledIs, TypesNamed, Bounds DEF TypeOK, Selections
<1>3. SelectionExists'
  BY <1>1, ReconciledIs DEF SelectionExists
<1>4. LinkSelected' => sel'.pin \in bonded'
  BY <1>1, ReconciledIs DEF LinkSelected
<1>5. Samples' /\ Readings' /\ NothingOwed'
  BY <1>1 DEF Samples, Readings, NothingOwed
<1> QED BY <1>2, <1>3, <1>4, <1>5 DEF PassReconciled, PinIsBonded

\* The rest of a pass leaves the selection as it found it.
LEMMA PassKeeps ==
  ASSUME RoomInv, pc # "idle", calm' = calm,
         UNCHANGED <<sel, target, heard, bonded>>, TypeOK', Samples', NothingOwed'
  PROVE  RoomInv'
<1>1. LinkSelected' = LinkSelected
  BY DEF LinkSelected
<1> QED BY <1>1 DEF RoomInv, Readings, SelectionExists, PassReconciled, PinIsBonded, Settled

\* The sample is taken of one slot, under one lock.
LEMMA BleSampleKeeps == RoomInv /\ BleSample => RoomInv'
<1> SUFFICES ASSUME RoomInv, BleSample PROVE RoomInv'
  OBVIOUS
<1> USE DEF RoomInv
<1>1. pc = "ble" /\ pc' = "feed" /\ ble' = [ble EXCEPT !.newer = FALSE]
      /\ UNCHANGED <<sel, target, heard, entry, bonded, bleOn, connected, link, avg, asked, strayed,
                     calm, edited, events>>
  BY DEF BleSample
<1>2. ble' \in BleStates /\ ble'.owns = ble.owns
  BY <1>1, TypesNamed DEF BleStates
<1>3. TypeOK'
  BY <1>1, <1>2, TypesNamed DEF TypeOK, BleStates
<1>4. FeedSlot = None \/ FeedSlot \in Slots
  BY DEF FeedSlot
<1>5. Samples'
  <2>1. CASE FeedSlot = None
    BY <2>1, TypesNamed DEF BleSample, Samples, Ages
  <2>2. CASE FeedSlot # None
    BY <2>2, <1>4, TypesNamed DEF BleSample, Samples, Readings
  <2> QED BY <2>1, <2>2
<1>6. NothingOwed'
  BY <1>1, <1>2 DEF NothingOwed
<1> QED BY <1>1, <1>3, <1>5, <1>6, PassKeeps

\* The Bluetooth feeder.
LEMMA BleFeedKeeps ==
  ASSUME RoomInv, NEW early \in BOOLEAN, BleFeed(early)
  PROVE  RoomInv' /\ (asked = Untouched => asked' # Internal)
<1> USE DEF RoomInv
<1>1. pc = "feed" /\ pc' = "link"
      /\ UNCHANGED <<sel, target, heard, entry, bonded, bleOn, connected, link, avg, sample,
                     calm, edited, events>>
      /\ strayed' \in BOOLEAN
  BY DEF BleFeed
<1>2. TypeOK'
  BY <1>1, BleFeedIs, TypesNamed DEF TypeOK, BleStates, Orders
<1>3. NothingOwed' /\ (asked = Untouched => asked' # Internal)
  BY <1>1, BleFeedIs, InternalIs DEF NothingOwed
<1>4. Samples'
  BY <1>1 DEF Samples
<1> QED BY <1>1, <1>2, <1>3, <1>4, PassKeeps

\* The feeder of the dials.
LEMMA LinkPassKeeps ==
  ASSUME RoomInv, NEW early \in BOOLEAN, LinkPass(early)
  PROVE  RoomInv' /\ (asked = Untouched => asked' # Internal)
<1> USE DEF RoomInv
<1>1. pc = "link" /\ pc' = "avg"
      /\ UNCHANGED <<sel, target, heard, entry, bonded, bleOn, connected, ble, avg, sample,
                     strayed, calm, edited, events>>
  BY DEF LinkPass
<1>2. TypeOK'
  BY <1>1, LinkPassIs, TypesNamed DEF TypeOK, LinkStates, Orders
<1>3. NothingOwed' /\ (asked = Untouched => asked' # Internal)
  BY <1>1, LinkPassIs, InternalIs DEF NothingOwed
<1>4. Samples'
  BY <1>1 DEF Samples
<1> QED BY <1>1, <1>2, <1>3, <1>4, PassKeeps

\* The feeder of the average, which ends the pass.
LEMMA AvgPassKeeps ==
  ASSUME RoomInv, NEW early \in BOOLEAN, AvgPass(early)
  PROVE  RoomInv' /\ (asked = Untouched => asked' # Internal)
<1> USE DEF RoomInv
<1>1. pc = "avg" /\ pc' = "idle" /\ edited' = FALSE
      /\ ble' = [ble EXCEPT !.quiet = Passed(ble.quiet)]
      /\ link' = [link EXCEPT !.quiet = Passed(link.quiet)]
      /\ heard' = [s \in Slots |-> Ripened(heard[s])]
      /\ entry' = [d \in Dials |-> Ripened(entry[d])]
      /\ calm' = (IF calm < Keepalive + 2 THEN calm + 1 ELSE calm)
      /\ UNCHANGED <<sel, target, bonded, bleOn, connected, sample, strayed, events>>
  BY DEF AvgPass
<1>2. ble' \in BleStates /\ ble'.owns = ble.owns
  BY <1>1, KeepaliveAssumption, TypesNamed DEF BleStates, Passed
<1>3. link' \in LinkStates /\ link'.feeding = link.feeding /\ link'.clear = link.clear
  BY <1>1, KeepaliveAssumption, TypesNamed DEF LinkStates, Passed
<1>4. /\ heard' \in [Slots -> Ages] /\ entry' \in [Dials -> Ages \cup {"unused"}]
      /\ \A s \in Slots : heard'[s] # "never" => heard[s] # "never"
  BY <1>1, TypesNamed DEF Ripened, Ages
<1>5. calm' \in 0 .. Keepalive + 2 /\ (calm' > 0 => calm' \in {calm, calm + 1})
  BY <1>1, KeepaliveAssumption, TypesNamed
<1>6. TypeOK'
  BY <1>1, <1>2, <1>3, <1>4, <1>5, AvgPassIs, TypesNamed
     DEF TypeOK, BleStates, LinkStates, AvgStates, Orders
<1>7. NothingOwed' /\ (asked = Untouched => asked' # Internal)
  BY <1>2, <1>3, AvgPassIs, InternalIs DEF NothingOwed
<1>8. Samples' /\ Readings' /\ SelectionExists'
  BY <1>1, <1>4 DEF Samples, Readings, SelectionExists
<1>9. LinkSelected' = LinkSelected
  BY <1>1 DEF LinkSelected
<1>10. PinIsBonded'
  <2>1. ASSUME calm' > Settled PROVE calm > 0 \/ ~MidPass
    BY <2>1, <1>1, KeepaliveAssumption, TypesNamed DEF Settled
  <2> QED BY <1>1, <1>9, <2>1 DEF PinIsBonded, PassReconciled, Settled
<1>11. PassReconciled'
  BY <1>1 DEF PassReconciled
<1> QED BY <1>6, <1>7, <1>8, <1>10, <1>11
---------------------------------------------------------------------------
(***************************************************************************)
(* The steps of the other tasks                                            *)
(***************************************************************************)
\* The state that stays in its sets.
Fits ==
  /\ sel' \in Selections /\ target' \in [Slots -> Sensors \cup {None}]
  /\ heard' \in [Slots -> Ages] /\ entry' \in [Dials -> Ages \cup {"unused"}]
  /\ bonded' \in SUBSET Dials /\ bleOn' \in BOOLEAN /\ connected' \in BOOLEAN
  /\ ble' \in BleStates /\ ble'.owns = ble.owns /\ strayed' \in BOOLEAN

\* A step from outside restarts the count of calm passes, which gives the next
\* pass the time to reconcile; what it selects must be there.
LEMMA OutsideKeeps ==
  ASSUME RoomInv, Outside, Disturbs, edited' \in BOOLEAN, Fits,
         UNCHANGED <<link, avg, pc, sample, asked>>,
         Readings', SelectionExists'
  PROVE  RoomInv' /\ asked' = asked
<1>1. calm' = 0
  BY DEF Disturbs
<1>2. TypeOK'
  BY <1>1, Bounds, TypesNamed
     DEF RoomInv, Fits, TypeOK, Selections, BleStates, LinkStates, AvgStates, Orders
<1>3. Samples' /\ NothingOwed'
  BY DEF RoomInv, Samples, NothingOwed, Fits
<1>4. PassReconciled' /\ PinIsBonded'
  BY <1>1 DEF PassReconciled, PinIsBonded, Settled, Outside
<1> QED BY <1>2, <1>3, <1>4 DEF RoomInv

\* The ways a step may come from outside.
LEMMA OutsideIs ==
  ASSUME TypeOK
  PROVE  /\ Changes => Outside /\ Disturbs /\ edited' \in BOOLEAN
         /\ ChangesOnMain => Outside /\ Disturbs /\ edited' \in BOOLEAN
         /\ Edits => Disturbs /\ edited' \in BOOLEAN
         /\ pc = "idle" => Outside
BY DEF Changes, ChangesOnMain, Edits, Outside, TypeOK

\* The types the next state starts from.
LEMMA FitsNow ==
  ASSUME RoomInv
  PROVE  /\ sel \in Selections /\ target \in [Slots -> Sensors \cup {None}]
         /\ heard \in [Slots -> Ages] /\ entry \in [Dials -> Ages \cup {"unused"}]
         /\ bonded \in SUBSET Dials /\ bleOn \in BOOLEAN /\ connected \in BOOLEAN
         /\ ble \in BleStates /\ strayed \in BOOLEAN
BY TypesNamed DEF RoomInv

\* A step that only selects.
LEMMA SelectingKeeps ==
  ASSUME RoomInv, Outside, Disturbs, edited' \in BOOLEAN,
         UNCHANGED <<target, heard, bonded, bleOn, connected, feeders, pc, sample, asked, strayed>>,
         entry' \in [Dials -> Ages \cup {"unused"}],
         sel' \in Selections, sel'.single \in Slots => target[sel'.single] # None
  PROVE  RoomInv' /\ asked' = asked
<1>1. Readings' /\ SelectionExists'
  BY DEF RoomInv, Readings, SelectionExists
<1>2. Fits
  BY FitsNow DEF Fits, feeders
<1> QED BY <1>1, <1>2, OutsideKeeps DEF feeders

\* A temperature from a sensor in a slot.
LEMMA AdvertiseKeeps ==
  ASSUME RoomInv, NEW s \in Slots, Advertise(s)
  PROVE  RoomInv' /\ asked' = asked
<1>1. /\ Changes /\ target[s] # None
      /\ heard' = [heard EXCEPT ![s] = "new"]
      /\ ble' = IF s = FeedSlot THEN [ble EXCEPT !.reverted = FALSE] ELSE ble
      /\ UNCHANGED <<sel, target, entry, bonded, bleOn, connected, link, avg, pc, sample, asked, strayed>>
  BY DEF Advertise
<1>2. Fits
  BY <1>1, FitsNow DEF Fits, Ages, BleStates
<1>3. Readings'
  BY <1>1, FitsNow DEF RoomInv, Readings
<1>4. SelectionExists'
  BY <1>1 DEF RoomInv, SelectionExists
<1>5. Outside /\ Disturbs /\ edited' \in BOOLEAN
  BY <1>1, OutsideIs DEF RoomInv
<1> QED BY <1>1, <1>2, <1>3, <1>4, <1>5, OutsideKeeps

\* A reading that goes stale, in a slot or of a dial.
LEMMA AgeingKeeps ==
  ASSUME RoomInv,
         \/ \E s \in Slots : GoesStale(s)
         \/ \E d \in Dials : DialGoesStale(d)
  PROVE  RoomInv' /\ asked' = asked
<1>1. Outside /\ Disturbs /\ edited' \in BOOLEAN
  BY OutsideIs DEF RoomInv, GoesStale, DialGoesStale
<1>2. CASE \E s \in Slots : GoesStale(s)
  <2>1. PICK s \in Slots : GoesStale(s)
    BY <1>2
  <2>2. heard[s] = "fresh" /\ heard' = [heard EXCEPT ![s] = "stale"]
        /\ UNCHANGED <<sel, target, entry, bonded, bleOn, connected, ble, link, avg, pc, sample, asked, strayed>>
    BY <2>1 DEF GoesStale, feeders
  <2>3. Fits /\ Readings' /\ SelectionExists'
    BY <2>2, FitsNow DEF Fits, Ages, RoomInv, Readings, SelectionExists
  <2> QED BY <1>1, <2>2, <2>3, OutsideKeeps
<1>3. CASE \E d \in Dials : DialGoesStale(d)
  <2>1. PICK d \in Dials : DialGoesStale(d)
    BY <1>3
  <2>2. entry' = [entry EXCEPT ![d] = "stale"]
        /\ UNCHANGED <<sel, target, heard, bonded, bleOn, connected, ble, link, avg, pc, sample, asked, strayed>>
    BY <2>1 DEF DialGoesStale, feeders
  <2>3. Fits /\ Readings' /\ SelectionExists'
    BY <2>2, FitsNow DEF Fits, Ages, RoomInv, Readings, SelectionExists
  <2> QED BY <1>1, <2>2, <2>3, OutsideKeeps
<1> QED BY <1>2, <1>3

\* The table of the dials takes a reading.
LEMMA FedIs ==
  ASSUME RoomInv, NEW d \in Dials, NEW hasTemp \in BOOLEAN, Fed(d, hasTemp)
  PROVE  entry' \in [Dials -> Ages \cup {"unused"}]
BY FitsNow DEF Fed, Ages

\* A dial's report, with the source it may choose.
LEMMA RoomSensorKeeps ==
  ASSUME RoomInv, NEW d \in Dials, NEW hasTemp \in BOOLEAN, NEW want \in Wants,
         RoomSensor(d, hasTemp, want)
  PROVE  RoomInv' /\ asked' = asked
<1> DEFINE toLink == [sel EXCEPT !.mode = "single", !.single = LINK, !.pin = d]
           toLegacy == [sel EXCEPT !.mode = "single", !.single = LegacySingle(want)]
<1>1. /\ sel' = CASE want = "link" -> Saved(toLink)
                  [] want \in {"internal", "ble"} /\ LegacySelectable(want) -> Saved(toLegacy)
                  [] OTHER -> sel
      /\ UNCHANGED <<target, heard, bonded, bleOn, connected, feeders, pc, sample, asked, strayed>>
      /\ Fed(d, hasTemp)
  BY DEF RoomSensor
<1>2. Outside /\ Disturbs /\ edited' \in BOOLEAN
  BY OutsideIs DEF RoomInv, RoomSensor, ChangesOnMain
<1>3. toLink \in Selections /\ toLink.single = LINK
  BY FitsNow DEF Selections
<1>4. toLegacy \in Selections /\ toLegacy.single = LegacySingle(want)
  BY FitsNow, LegacySingleIs DEF Selections
<1> HIDE DEF toLink, toLegacy
<1>5. sel' \in Selections /\ (sel'.single \in Slots => target[sel'.single] # None)
  <2>1. CASE sel' = sel
    BY <2>1, FitsNow DEF RoomInv, SelectionExists
  <2>2. CASE sel' = Saved(toLink)
    BY <2>2, <1>3, SavedIs, Bounds
  <2>3. CASE sel' = Saved(toLegacy)
    BY <2>3, <1>4, SavedIs, LegacySingleIs
  <2> QED BY <1>1, <2>1, <2>2, <2>3
<1> QED BY <1>1, <1>2, <1>5, FedIs, SelectingKeeps
\* A dial's choice from the catalog.
LEMMA RoomSourceSetKeeps ==
  ASSUME RoomInv, NEW id \in {INTERNAL, AVERAGE} \cup Slots \cup Dials, RoomSourceSet(id)
  PROVE  RoomInv' /\ asked' = asked
<1> DEFINE toAverage == [sel EXCEPT !.mode = "average"]
           toDial == [sel EXCEPT !.mode = "single", !.single = LINK, !.pin = id]
           toSingle == [sel EXCEPT !.mode = "single", !.single = id]
<1>1. /\ sel' = CASE id = AVERAGE -> Saved(toAverage)
                  [] id \in Dials -> Saved(toDial)
                  [] OTHER -> Saved(toSingle)
      /\ UNCHANGED <<target, heard, entry, bonded, bleOn, connected, feeders, pc, sample, asked, strayed>>
      /\ id \in Selectable
  BY DEF RoomSourceSet
<1>2. Outside /\ Disturbs /\ edited' \in BOOLEAN
  BY OutsideIs DEF RoomInv, RoomSourceSet
<1>3. toAverage \in Selections /\ toAverage.single = sel.single
  BY FitsNow DEF Selections
<1>4. id \in Dials => toDial \in Selections /\ toDial.single = LINK
  BY FitsNow DEF Selections
<1>5. id # AVERAGE /\ id \notin Dials =>
        toSingle \in Selections /\ toSingle.single = id /\ (id \in Slots => target[id] # None)
  <2> SUFFICES ASSUME id # AVERAGE, id \notin Dials
               PROVE toSingle \in Selections /\ toSingle.single = id
                     /\ (id \in Slots => target[id] # None)
    OBVIOUS
  <2>1. id \in {INTERNAL} \cup Slots
    OBVIOUS
  <2>2. id \in Slots => target[id] # None
    BY <1>1, <2>1, Bounds, FitsNow DEF Selectable
  <2> QED BY <2>1, <2>2, FitsNow DEF Selections
<1> HIDE DEF toAverage, toDial, toSingle
<1>6. sel' \in Selections /\ (sel'.single \in Slots => target[sel'.single] # None)
  <2>1. \/ id = AVERAGE /\ sel' = Saved(toAverage)
        \/ id \in Dials /\ sel' = Saved(toDial)
        \/ id # AVERAGE /\ id \notin Dials /\ sel' = Saved(toSingle)
    BY <1>1
  <2>2. CASE id = AVERAGE /\ sel' = Saved(toAverage)
    BY <2>2, <1>3, SavedIs DEF RoomInv, SelectionExists
  <2>3. CASE id \in Dials /\ sel' = Saved(toDial)
    BY <2>3, <1>4, SavedIs, Bounds
  <2>4. CASE id # AVERAGE /\ id \notin Dials /\ sel' = Saved(toSingle)
    BY <2>4, <1>5, SavedIs
  <2> QED BY <2>1, <2>2, <2>3, <2>4
<1> QED BY <1>1, <1>2, <1>6, FitsNow, SelectingKeeps

\* Bonds that come and go, and the link to the heat pump.
LEMMA BondsKeep ==
  ASSUME RoomInv,
         \/ \E d \in Dials : Bond(d) \/ ForgetDial(d)
         \/ ForgetAll
         \/ \E up \in BOOLEAN : Link(up)
  PROVE  RoomInv' /\ asked' = asked
<1>1. Outside /\ Disturbs /\ edited' \in BOOLEAN
  BY OutsideIs DEF RoomInv, Bond, ForgetDial, ForgetAll, Forget, Link
<1>2. /\ UNCHANGED <<target, heard, bleOn, ble, link, avg, pc, sample, asked, strayed>>
      /\ bonded' \in SUBSET Dials /\ connected' \in BOOLEAN
      /\ entry' \in [Dials -> Ages \cup {"unused"}]
  <2>1. CASE \E d \in Dials : Bond(d)
    BY <2>1, FitsNow DEF Bond, feeders
  <2>2. ASSUME NEW gone, Forget(gone)
        PROVE  /\ UNCHANGED <<target, heard, bleOn, ble, link, avg, pc, sample, asked, strayed>>
               /\ bonded' \in SUBSET Dials /\ connected' \in BOOLEAN
               /\ entry' \in [Dials -> Ages \cup {"unused"}]
    BY <2>2, FitsNow DEF Forget, feeders
  <2>3. CASE \E up \in BOOLEAN : Link(up)
    BY <2>3, FitsNow DEF Link, feeders
  <2> QED BY <2>1, <2>2, <2>3 DEF ForgetDial, ForgetAll
<1>3. sel' \in Selections /\ (sel'.single \in Slots => sel'.single = sel.single)
  <2>1. CASE ForgetAll
    <3> DEFINE dropped == [sel EXCEPT !.single = INTERNAL]
    <3>1. dropped \in Selections /\ dropped.single = INTERNAL
      BY FitsNow DEF Selections
    <3>2. sel' = IF LinkSelected THEN Saved(dropped) ELSE sel
      BY <2>1 DEF ForgetAll
    <3> HIDE DEF dropped
    <3> QED BY <3>1, <3>2, SavedIs, FitsNow, Bounds
  <2>2. CASE ~ForgetAll
    BY <2>2, FitsNow DEF Bond, ForgetDial, Link
  <2> QED BY <2>1, <2>2
<1>4. Fits
  BY <1>2, <1>3, FitsNow DEF Fits
<1>5. Readings' /\ SelectionExists'
  BY <1>2, <1>3 DEF RoomInv, Readings, SelectionExists
<1> QED BY <1>1, <1>2, <1>4, <1>5, OutsideKeeps

\* The choices of the web server's pages, old and new.
LEMMA WebRoomSourceKeeps ==
  ASSUME RoomInv, NEW src \in {"internal", "link", "ble"}, WebRoomSource(src)
  PROVE  RoomInv' /\ asked' = asked
<1>1. Outside /\ Disturbs /\ edited' \in BOOLEAN
  BY OutsideIs DEF RoomInv, WebRoomSource
<1>2. PICK single \in {INTERNAL, LINK} \cup Slots, pin \in Dials \cup {None} :
        /\ sel' = Saved([sel EXCEPT !.mode = "single", !.single = single, !.pin = pin])
        /\ single \in Slots => target[single] # None
  <2>1. CASE src = "link"
    BY <2>1, Bounds DEF WebRoomSource
  <2>2. CASE src # "link"
    <3>1. sel' = Saved([sel EXCEPT !.mode = "single", !.single = LegacySingle(src)])
      BY <2>2 DEF WebRoomSource
    <3>2. [sel EXCEPT !.mode = "single", !.single = LegacySingle(src)]
            = [sel EXCEPT !.mode = "single", !.single = LegacySingle(src), !.pin = sel.pin]
      BY FitsNow DEF Selections
    <3>3. sel.pin \in Dials \cup {None}
      BY FitsNow DEF Selections
    <3> QED BY <3>1, <3>2, <3>3, LegacySingleIs
  <2> QED BY <2>1, <2>2
<1> DEFINE chosen == [sel EXCEPT !.mode = "single", !.single = single, !.pin = pin]
<1>3. chosen \in Selections /\ chosen.single = single
  BY FitsNow DEF Selections
<1>4. sel' = Saved(chosen)
  BY <1>2
<1> HIDE DEF chosen
<1>5. sel' \in Selections /\ (sel'.single \in Slots => target[sel'.single] # None)
  BY <1>2, <1>3, <1>4, SavedIs
<1>6. UNCHANGED <<target, heard, entry, bonded, bleOn, connected, feeders, pc, sample, asked, strayed>>
  BY DEF WebRoomSource
<1> QED BY <1>1, <1>5, <1>6, FitsNow, SelectingKeeps

\* A mode, a source, or both in one command.
LEMMA WebRoomKeeps ==
  ASSUME RoomInv, NEW mode \in {"single", "average"} \cup {Keep},
         NEW single \in {INTERNAL, LINK, Keep} \cup Slots, WebRoom(mode, single)
  PROVE  RoomInv' /\ asked' = asked
<1> DEFINE accepted == /\ single # Keep
                       /\ MemberAvailable(single)
                       /\ single = LINK => \E d \in Dials : Sole(d)
           pinned == IF accepted /\ single = LINK THEN CHOOSE d \in Dials : Sole(d) ELSE sel.pin
           newMode == IF mode = Keep THEN sel.mode ELSE mode
           newSingle == IF accepted THEN single ELSE sel.single
           chosen == [sel EXCEPT !.mode = newMode, !.single = newSingle, !.pin = pinned]
<1>1. Outside /\ Disturbs /\ edited' \in BOOLEAN
  BY OutsideIs DEF RoomInv, WebRoom
<1>2. sel' = Saved(chosen)
      /\ UNCHANGED <<target, heard, entry, bonded, bleOn, connected, feeders, pc, sample, asked, strayed>>
  BY DEF WebRoom
<1>3. /\ sel.mode \in {"single", "average"} /\ sel.single \in {INTERNAL, LINK} \cup Slots
      /\ sel.pin \in Dials \cup {None}
  BY FitsNow DEF Selections
<1>4. pinned \in Dials \cup {None}
  BY <1>3
<1>5. newMode \in {"single", "average"}
  BY <1>3
<1>6. newSingle \in {INTERNAL, LINK} \cup Slots /\ (newSingle \in Slots => target[newSingle] # None)
  <2>1. accepted => single \in {INTERNAL, LINK} \cup Slots
                    /\ (single \in Slots => target[single] # None)
    BY Bounds DEF MemberAvailable
  <2> HIDE DEF accepted
  <2> QED BY <1>3, <2>1 DEF RoomInv, SelectionExists
<1> HIDE DEF pinned, newMode, newSingle
<1>7. chosen \in Selections /\ chosen.single = newSingle
  BY <1>4, <1>5, <1>6, FitsNow DEF Selections
<1> HIDE DEF chosen
<1>8. sel' \in Selections /\ (sel'.single \in Slots => target[sel'.single] # None)
  BY <1>2, <1>6, <1>7, SavedIs
<1> QED BY <1>1, <1>2, <1>8, FitsNow, SelectingKeeps

\* The members of the average.
LEMMA WebRoomMembersKeeps ==
  ASSUME RoomInv, NEW members \in SUBSET ({LINK} \cup Slots), WebRoomMembers(members)
  PROVE  RoomInv' /\ asked' = asked
<1> DEFINE listed == [sel EXCEPT !.members = {m \in members : MemberAvailable(m)}]
<1>1. Outside /\ Disturbs /\ edited' \in BOOLEAN
  BY OutsideIs DEF RoomInv, WebRoomMembers
<1>2. sel' = Saved(listed)
      /\ UNCHANGED <<target, heard, entry, bonded, bleOn, connected, feeders, pc, sample, asked, strayed>>
  BY DEF WebRoomMembers
<1>3. {m \in members : MemberAvailable(m)} \in SUBSET ({LINK} \cup Slots)
  OBVIOUS
<1>4. listed \in Selections /\ listed.single = sel.single
  BY <1>3, FitsNow DEF Selections
<1> HIDE DEF listed
<1>5. sel' \in Selections /\ (sel'.single \in Slots => target[sel'.single] # None)
  BY <1>2, <1>4, SavedIs DEF RoomInv, SelectionExists
<1> QED BY <1>1, <1>2, <1>5, FitsNow, SelectingKeeps

\* A sensor that takes a slot, replaces another or leaves: the slot forgets
\* its reading, and one left empty is not selected any more.
LEMMA SetSensorKeeps ==
  ASSUME RoomInv, NEW s \in Slots, NEW address \in Sensors \cup {None}, SetSensor(s, address)
  PROVE  RoomInv' /\ asked' = asked
<1> DEFINE left == [sel EXCEPT !.members = sel.members \ {s}, !.single = SingleAfter(s, address)]
           cleared == IF heard[s] # "never" /\ s = FeedSlot THEN RequestClear(ble) ELSE ble
<1>1. Outside /\ Disturbs /\ edited' \in BOOLEAN
  BY OutsideIs DEF RoomInv, SetSensor
<1>2. /\ target' = [target EXCEPT ![s] = address]
      /\ heard' = [heard EXCEPT ![s] = "never"]
      /\ ble' = IF s = FeedSlot THEN [cleared EXCEPT !.reverted = FALSE] ELSE cleared
      /\ sel' = Saved(left)
      /\ UNCHANGED <<entry, bonded, bleOn, connected, link, avg, pc, sample, asked>>
      /\ strayed' \in BOOLEAN
  BY DEF SetSensor
<1>3. cleared \in BleStates /\ cleared.owns = ble.owns
  BY FitsNow, RequestClearIs
<1> HIDE DEF cleared
<1>4. ble' \in BleStates /\ ble'.owns = ble.owns
  BY <1>2, <1>3 DEF BleStates
<1>5. /\ SingleAfter(s, address) \in {INTERNAL, LINK} \cup Slots
      /\ SingleAfter(s, address) \in Slots => target'[SingleAfter(s, address)] # None
  <2>1. sel.single \in {INTERNAL, LINK} \cup Slots
    BY FitsNow DEF Selections
  <2>2. \A t \in Slots : target'[t] = IF t = s THEN address ELSE target[t]
    BY <1>2, FitsNow
  <2> QED BY <2>1, <2>2, Bounds DEF SingleAfter, RoomInv, SelectionExists
<1>6. left \in Selections /\ left.single = SingleAfter(s, address)
  BY <1>5, FitsNow DEF Selections
<1> HIDE DEF left
<1>7. sel' \in Selections /\ SelectionExists'
  BY <1>2, <1>5, <1>6, SavedIs DEF SelectionExists
<1>8. Readings'
  BY <1>2, FitsNow DEF RoomInv, Readings
<1>9. Fits
  BY <1>2, <1>4, <1>7, FitsNow DEF Fits, Ages
<1> QED BY <1>1, <1>2, <1>7, <1>8, <1>9, OutsideKeeps

\* The three commands that change a slot.
LEMMA SensorsKeep ==
  ASSUME RoomInv,
         \/ \E address \in Sensors : AddSensor(address)
         \/ \E address \in Sensors \cup {None} : SetAddr(address)
         \/ \E s \in Slots : DelSensor(s)
  PROVE  RoomInv' /\ asked' = asked
<1>1. PICK s \in Slots, address \in Sensors \cup {None} : SetSensor(s, address)
  <2>1. CASE \E address \in Sensors : AddSensor(address)
    BY <2>1 DEF AddSensor
  <2>2. CASE \E address \in Sensors \cup {None} : SetAddr(address)
    <3>1. FeedSlot # None => FeedSlot \in Slots
      BY DEF FeedSlot
    <3> QED BY <2>2, <3>1, Bounds DEF SetAddr
  <2>3. CASE \E s \in Slots : DelSensor(s)
    BY <2>3 DEF DelSensor
  <2> QED BY <2>1, <2>2, <2>3
<1> QED BY <1>1, SetSensorKeeps

\* Bluetooth switched on or off.
LEMMA SetBleEnabledKeeps ==
  ASSUME RoomInv, NEW on \in BOOLEAN, SetBleEnabled(on)
  PROVE  RoomInv' /\ asked' = asked
<1> DEFINE cleared == RequestClear(ble)
<1>1. Outside /\ Disturbs /\ edited' \in BOOLEAN
  BY OutsideIs DEF RoomInv, SetBleEnabled
<1>2. /\ bleOn' = on
      /\ ble' = IF on THEN ble ELSE [cleared EXCEPT !.reverted = FALSE]
      /\ UNCHANGED <<sel, target, heard, entry, bonded, connected, link, avg, pc, sample, asked, strayed>>
  BY DEF SetBleEnabled
<1>3. cleared \in BleStates /\ cleared.owns = ble.owns
  BY FitsNow, RequestClearIs
<1> HIDE DEF cleared
<1>4. ble' \in BleStates /\ ble'.owns = ble.owns
  BY <1>2, <1>3, FitsNow DEF BleStates
<1>5. Fits
  BY <1>2, <1>4, FitsNow DEF Fits
<1>6. Readings' /\ SelectionExists'
  BY <1>2 DEF RoomInv, Readings, SelectionExists
<1> QED BY <1>1, <1>2, <1>5, <1>6, OutsideKeeps

---------------------------------------------------------------------------
(***************************************************************************)
(* The theorems                                                            *)
(***************************************************************************)
\* Nothing is owed at the start, and a stored selection has its sensor.
LEMMA InvInit == Init => RoomInv
<1> SUFFICES ASSUME Init PROVE RoomInv
  OBVIOUS
<1>1. sel.members \in SUBSET ({LINK} \cup Slots) /\ sel \in Selections
  BY DEF Init, Selections
<1>2. FeedSlot \in Slots \cup {None}
  BY DEF FeedSlot
<1>3. TypeOK
  <2>1. ble \in BleStates /\ link \in LinkStates /\ avg \in AvgStates
    BY <1>2, Bounds DEF Init, BleStates, LinkStates, AvgStates
  <2>2. heard \in [Slots -> Ages] /\ entry \in [Dials -> Ages \cup {"unused"}]
    BY DEF Init, Ages
  <2>3. calm \in 0 .. Keepalive + 2 /\ edited \in BOOLEAN /\ strayed \in BOOLEAN
        /\ pc \in {"idle", "ble", "feed", "link", "avg"}
    BY Bounds DEF Init
  <2>5. asked \in Orders
    <3>1. asked = Untouched
      BY DEF Init
    <3>2. Untouched \in Orders
      BY Zenon DEF Orders
    <3> QED BY <3>1, <3>2
  <2>4. target \in [Slots -> Sensors \cup {None}] /\ bonded \in SUBSET Dials
        /\ bleOn \in BOOLEAN /\ connected \in BOOLEAN
    BY DEF Init
  <2> QED BY <1>1, <2>1, <2>2, <2>3, <2>4, <2>5, TypesNamed
<1>4. Samples /\ Readings /\ NothingOwed /\ SelectionExists /\ PassReconciled /\ PinIsBonded
  BY DEF Init, Samples, Readings, NothingOwed, SelectionExists, PassReconciled, PinIsBonded,
         Settled, Ages
<1> QED BY <1>3, <1>4 DEF RoomInv

\* A step keeps the invariant, and never clears a register that this device
\* has not written.
LEMMA StepKeeps ==
  ASSUME RoomInv, Next
  PROVE  RoomInv' /\ (asked = Untouched => asked' # Internal)
<1>1. CASE Pass
  <2>1. CASE Reconcile \/ BleSample
    BY <2>1, ReconcileKeeps, BleSampleKeeps, InternalIs DEF Reconcile, BleSample
  <2>2. CASE \E early \in BOOLEAN : BleFeed(early) \/ LinkPass(early) \/ AvgPass(early)
    BY <2>2, BleFeedKeeps, LinkPassKeeps, AvgPassKeeps
  <2> QED BY <1>1, <2>1, <2>2 DEF Pass
<1>2. CASE FromSensors
  BY <1>2, AdvertiseKeeps, AgeingKeeps, RoomSensorKeeps, RoomSourceSetKeeps, BondsKeep, InternalIs
     DEF FromSensors
<1>3. CASE FromWeb
  BY <1>3, WebRoomSourceKeeps, WebRoomKeeps, WebRoomMembersKeeps, SensorsKeep,
     SetBleEnabledKeeps, InternalIs DEF FromWeb
<1> QED BY <1>1, <1>2, <1>3 DEF Next

\* Stuttering keeps the invariant.
LEMMA StutterKeeps == RoomInv /\ UNCHANGED vars => RoomInv'
BY DEF RoomInv, vars, TypeOK, Samples, Readings, NothingOwed, SelectionExists, PassReconciled,
       PinIsBonded, LinkSelected, Settled

\* The invariant of the specification.
LEMMA RoomInvHolds == Spec => []RoomInv
<1>1. RoomInv /\ [Next]_vars => RoomInv'
  BY StepKeeps, StutterKeeps
<1> QED BY InvInit, <1>1, PTL DEF Spec

\* The three feeders, the selection and the tables stay within their types.
THEOREM RoomTypeCorrect == Spec => []TypeOK
<1>1. RoomInv => TypeOK
  BY DEF RoomInv
<1> QED BY RoomInvHolds, <1>1, PTL

\* A register the device has not written since it started is never cleared,
\* whichever feeder takes over from which (ble_sensor.cpp 556-561,
\* room_feed.h 9-12).
THEOREM ForeignIsKept == Spec => ForeignKept
<1>1. RoomInv /\ [Next]_vars => [asked = Untouched => asked' # Internal]_vars
  BY StepKeeps
<1> QED BY RoomInvHolds, <1>1, PTL DEF Spec, ForeignKept

\* A selected slot has a sensor at all times, and a selected dial is bonded
\* once a pass has reconciled the selection (settings.cpp 806-823,
\* espnow_link.cpp 746-786).
THEOREM SelectionIsHeld == Spec => []SelectionHolds
<1>1. RoomInv => SelectionHolds
  BY DEF RoomInv, SelectionHolds
<1> QED BY RoomInvHolds, <1>1, PTL
---------------------------------------------------------------------------
(***************************************************************************)
(* The register follows the live sensors                                   *)
(***************************************************************************)
\* A feeder that owes a clear has no value out; one that counts a value as
\* sent is feeding.
FeederShapes ==
  /\ link.clear => ~link.sent
  /\ link.sent => link.feeding
  /\ avg.clear => ~avg.feeding
  /\ avg.sent => avg.feeding

\* In a calm pass the Bluetooth feeder works on the present state.
SampleCurrent ==
  pc = "feed" /\ calm > 0 =>
    /\ sample.slot = FeedSlot /\ sample.on = bleOn /\ ~ble.newer
    /\ FeedSlot # None => sample.from = target[FeedSlot] /\ sample.age = heard[FeedSlot]

\* Without a slot there is no reading.
NoSlotNoAge == sample.slot = None => sample.age = "never"

\* A feeder whose keepalive is due before the calm is Keepalive + 2 long
Overdue(quiet) == calm <= Keepalive + 1 /\ quiet >= calm - 1

AverageServed ==
  calm > 0 /\ Contributors # {} =>
    avg.feeding /\ (asked = Contributors \/ Overdue(avg.quiet))
LinkServed ==
  calm > 0 /\ LinkSelected /\ LinkActive =>
    \/ asked = LinkView
    \/ Overdue(link.quiet) /\ (pc = "avg" => link.quiet < Keepalive)
BleServed ==
  calm > 0 /\ connected /\ BleActive(FeedSlot) =>
    \/ asked = {target[FeedSlot]}
    \/ Overdue(ble.quiet) /\ (pc \in {"link", "avg"} => ble.quiet < Keepalive)

ServeInv ==
  RoomInv /\ FeederShapes /\ SampleCurrent /\ NoSlotNoAge /\ AverageServed /\ LinkServed /\ BleServed

\* At most one feeder has a live source.
LEMMA OneServes ==
  /\ Contributors # {} => sel.mode = "average"
  /\ LinkSelected => sel.mode = "single" /\ FeedSlot = None
  /\ BleActive(FeedSlot) => sel.mode = "single" /\ ~LinkSelected /\ FeedSlot \in Slots /\ FeedSlot # None
  /\ sel.mode = "average" => ~LinkSelected /\ FeedSlot = None
  /\ ~BleActive(None)
<1>1. None \notin Slots /\ LINK \notin Slots
  BY SourcesAssumption, NSlotsAssumption, Bounds DEF Slots
<1>2. "single" # "average"
  OBVIOUS
<1> HIDE DEF LINK, Slots
<1> QED BY <1>1, <1>2 DEF Contributors, LinkSelected, BleActive, FeedSlot

\* Readings that stay live keep the same sensors behind every source.
LEMMA ViewsKept ==
  ASSUME UNCHANGED <<sel, target, bleOn>>,
         \A s \in Slots : Live(heard'[s]) <=> Live(heard[s]),
         \A d \in Dials : Live(entry'[d]) <=> Live(entry[d])
  PROVE  /\ Contributors' = Contributors /\ LinkView' = LinkView
         /\ LinkSelected' = LinkSelected /\ LinkActive' = LinkActive
         /\ FeedSlot' = FeedSlot /\ BleActive(FeedSlot)' = BleActive(FeedSlot)
<1>1. LiveDials' = LiveDials
  BY DEF LiveDials
<1>2. \A s : (bleOn' /\ s \in Slots /\ Live(heard'[s])) = (bleOn /\ s \in Slots /\ Live(heard[s]))
  OBVIOUS
<1>3. FeedSlot' = FeedSlot /\ LinkSelected' = LinkSelected
  BY DEF FeedSlot, LinkSelected
<1>4. Contributors' = Contributors
  BY <1>1, <1>2 DEF Contributors, BleActive
<1>5. LinkView' = LinkView /\ LinkActive' = LinkActive
  BY <1>1 DEF LinkView, LinkActive
<1>6. BleActive(FeedSlot)' = BleActive(FeedSlot)
  BY <1>2, <1>3 DEF BleActive
<1> QED BY <1>3, <1>4, <1>5, <1>6

\* The Bluetooth feeder leaves the register to a live dial or average, and
\* serves its own slot when it is due.
LEMMA BleServes ==
  ASSUME ServeInv, NEW early \in BOOLEAN, BleFeed(early), calm > 0
  PROVE  /\ Contributors # {} => asked' = asked
         /\ LinkSelected /\ LinkActive => asked' = asked
         /\ connected /\ BleActive(FeedSlot) =>
              \/ asked' = {target[FeedSlot]}
              \/ asked' = asked /\ ble' = ble /\ ble.quiet # Keepalive
<1> DEFINE moved == IF sample.on THEN SlotMoved(ble) ELSE ble
           sends == /\ sample.on /\ BleMaySend(moved)
                    /\ moved.clear \/ ~moved.sent \/ moved.quiet = Keepalive \/ early
           fed == IF sends THEN BleSent(moved) ELSE moved
           seen == IF sample.on THEN Watched(fed) ELSE fed
<1>1. pc = "feed" /\ ble' = Drained(seen)
      /\ asked' = IF Drains(seen) THEN Internal ELSE IF sends THEN {sample.from} ELSE asked
  BY DEF BleFeed
<1>2. sends => Live(sample.age) /\ sample.slot = FeedSlot
  BY DEF BleMaySend
<1>3. ASSUME FeedSlot = None PROVE ~sends
  BY <1>2, <1>3 DEF ServeInv, NoSlotNoAge, Live
<1>4. moved \in BleStates
  BY SlotMovedIs, TypesNamed DEF ServeInv, RoomInv
<1>5. CASE Contributors # {}
  <2>1. ~Drains(seen)
    BY <1>5 DEF Drains, ServeInv, AverageServed
  <2>2. ~sends
    BY <1>3, <1>5, OneServes
  <2>3. ~LinkSelected /\ ~BleActive(FeedSlot)
    BY <1>5, OneServes
  <2> HIDE DEF sends, seen
  <2> QED BY <1>1, <2>1, <2>2, <2>3
<1>6. CASE LinkSelected /\ LinkActive
  <2>1. ~Drains(seen)
    BY <1>6 DEF Drains
  <2>2. ~sends
    BY <1>3, <1>6, OneServes
  <2>3. ~BleActive(FeedSlot)
    BY <1>6, OneServes
  <2> HIDE DEF sends, seen
  <2> QED BY <1>1, <2>1, <2>2, <2>3
<1>7. CASE connected /\ BleActive(FeedSlot)
  <2>1. FeedSlot # None /\ FeedSlot \in Slots /\ bleOn /\ Live(heard[FeedSlot])
    BY <1>7, OneServes DEF BleActive
  <2>2. /\ sample.slot = FeedSlot /\ sample.on /\ ~ble.newer
        /\ sample.from = target[FeedSlot] /\ Live(sample.age)
    BY <1>1, <2>1 DEF ServeInv, SampleCurrent
  <2>3. moved = ble \/ ~moved.sent
    BY <2>2, TypesNamed DEF SlotMoved, ServeInv, RoomInv, BleStates
  <2>4. ~moved.newer
    BY <2>2, TypesNamed DEF SlotMoved, ServeInv, RoomInv, BleStates
  <2>5. BleMaySend(moved)
    BY <1>7, <2>1, <2>2, <2>4 DEF BleMaySend
  <2>6. CASE sends
    <3>1. BleSent(moved) \in BleStates /\ ~BleSent(moved).clear
      BY <1>4, BleSentIs
    <3>2. fed = BleSent(moved)
      BY <2>6
    <3>3. seen = fed
      BY <2>2, <3>1, <3>2, WatchedIs DEF ServeInv, RoomInv
    <3>4. ~Drains(seen)
      BY <3>1, <3>2, <3>3 DEF Drains
    <3> HIDE DEF sends, seen
    <3>5. asked' = {target[FeedSlot]}
      BY <1>1, <2>2, <2>6, <3>4
    <3> QED BY <3>5, <1>7, OneServes
  <2>7. CASE ~sends
    <3>1. ~moved.clear /\ moved.sent /\ moved.quiet # Keepalive
      BY <2>2, <2>5, <2>7
    <3>2. moved = ble
      BY <2>3, <3>1
    <3>3. fed = ble
      BY <2>7, <3>2
    <3>4. ble \in BleStates
      BY TypesNamed DEF ServeInv, RoomInv
    <3>5. seen = ble
      BY <2>2, <3>3, <3>4, WatchedIs DEF ServeInv, RoomInv
    <3>6. ~ble.clear /\ ble.quiet # Keepalive
      BY <3>1, <3>2
    <3>7. ~Drains(ble) /\ Drained(ble) = ble
      BY <3>6 DEF Drains, Drained
    <3> HIDE DEF sends, seen
    <3>8. asked' = asked /\ ble' = ble
      BY <1>1, <2>7, <3>5, <3>7
    <3> QED BY <3>6, <3>8, <1>7, OneServes
  <2> QED BY <2>6, <2>7
<1> QED BY <1>5, <1>6, <1>7

\* The feeder of the dials leaves the register to a live slot or average, and
\* serves the selected dials when it is due.
LEMMA LinkServes ==
  ASSUME ServeInv, NEW early \in BOOLEAN, LinkPass(early)
  PROVE  /\ calm > 0 /\ Contributors # {} => asked' = asked
         /\ BleActive(FeedSlot) => asked' = asked
         /\ LinkSelected /\ LinkActive =>
              \/ asked' = LinkView
              \/ asked' = asked /\ link'.quiet = link.quiet /\ link.quiet # Keepalive
         /\ link'.clear => ~link'.sent
         /\ link'.sent => link'.feeding
<1> DEFINE drains == link.clear /\ connected
           clears == drains /\ ~BleActive(FeedSlot) /\ ~avg.feeding
           kept == [link EXCEPT !.clear = link.clear /\ ~drains]
           before == NewOwner(kept)
           live == LinkSelected /\ LinkActive
           action == FeedAction(before, live, early)
<1>1. link \in LinkStates /\ connected \in BOOLEAN /\ sel.pin \in Dials \cup {None}
      /\ avg \in AvgStates
  BY TypesNamed DEF Selections, ServeInv, RoomInv
<1>2. (link.clear /\ ~drains) \in BOOLEAN
  OBVIOUS
<1>3. kept \in LinkStates /\ kept.feeding = link.feeding /\ kept.sent = link.sent
      /\ kept.quiet = link.quiet /\ (kept.clear => link.clear)
  BY <1>1, <1>2 DEF LinkStates
<1>4. link' = FeedStep(before, action)
      /\ asked' = CASE action = "send" -> LinkView
                    [] OTHER -> IF clears THEN Internal ELSE asked
  BY DEF LinkPass
<1> HIDE DEF kept
<1>5. before \in LinkStates /\ before.feeding = link.feeding /\ (before.sent => link.sent)
      /\ before.quiet = link.quiet /\ (before.clear => link.clear)
  BY <1>1, <1>3 DEF NewOwner, LinkStates
<1>6. /\ before.clear => ~before.sent
      /\ before.sent => before.feeding
  BY <1>5 DEF ServeInv, FeederShapes
<1> HIDE DEF before
<1>7. /\ action \in FeedActions
      /\ action = "send" => live
      /\ live => action # "clear"
      /\ live /\ action = "none" => before.sent /\ before.quiet # Keepalive
  BY DEF FeedAction, FeedActions
<1> HIDE DEF action
<1>8. /\ link' \in LinkStates
      /\ action = "none" => link' = before
      /\ action = "clear" => ~link'.sent
      /\ action = "send" => link'.feeding /\ ~link'.clear
  BY <1>4, <1>5, <1>7, Bounds DEF FeedStep, LinkStates, FeedActions
<1>9. (link'.clear => ~link'.sent) /\ (link'.sent => link'.feeding)
  BY <1>6, <1>7, <1>8 DEF FeedActions
<1>10. ~live => asked' = IF clears THEN Internal ELSE asked
  BY <1>4, <1>7
<1>11. calm > 0 /\ Contributors # {} => ~live /\ ~clears
  BY OneServes DEF ServeInv, AverageServed
<1>12. BleActive(FeedSlot) => ~live /\ ~clears
  BY OneServes
<1>13. live => \/ asked' = LinkView
               \/ asked' = asked /\ link'.quiet = link.quiet /\ link.quiet # Keepalive
  <2> SUFFICES ASSUME live, action = "none"
               PROVE asked' = asked /\ link'.quiet = link.quiet /\ link.quiet # Keepalive
    BY <1>4, <1>7 DEF FeedActions
  <2>1. ~link.clear
    BY <1>5, <1>7 DEF ServeInv, FeederShapes
  <2>2. asked' = IF clears THEN Internal ELSE asked
    BY <1>4
  <2> QED BY <1>5, <1>7, <1>8, <2>1, <2>2
<1> HIDE DEF clears
<1> QED BY <1>9, <1>10, <1>11, <1>12, <1>13

\* The feeder of the average leaves the register to a live slot or dial, and
\* serves the average when it is due.
LEMMA AverageServes ==
  ASSUME ServeInv, NEW early \in BOOLEAN, AvgPass(early)
  PROVE  /\ Contributors # {} =>
              /\ avg'.feeding
              /\ \/ asked' = Contributors
                 \/ asked' = asked /\ avg'.quiet = avg.quiet + 1 /\ avg.quiet < Keepalive
         /\ (LinkSelected /\ LinkActive) \/ BleActive(FeedSlot) => asked' = asked
         /\ avg'.clear => ~avg'.feeding
         /\ avg'.sent => avg'.feeding
<1> DEFINE drains == avg.clear /\ connected
           clears == drains /\ ~HandedToSingle
           before == [avg EXCEPT !.clear = avg.clear /\ ~drains]
           live == Contributors # {}
           action == FeedAction(before, live, early)
           after == FeedStep(before, action)
<1>1. avg \in AvgStates /\ connected \in BOOLEAN
  BY TypesNamed DEF ServeInv, RoomInv
<1>2. (avg.clear /\ ~drains) \in BOOLEAN
  OBVIOUS
<1>3. before \in AvgStates /\ before.feeding = avg.feeding /\ before.sent = avg.sent
      /\ before.quiet = avg.quiet /\ (before.clear => avg.clear)
  BY <1>1, <1>2 DEF AvgStates
<1>4. avg' = [after EXCEPT !.quiet = Passed(after.quiet)]
      /\ asked' = CASE action = "send" -> Contributors
                    [] OTHER -> IF clears THEN Internal ELSE asked
  BY DEF AvgPass
<1>5. (before.clear => ~before.feeding) /\ (before.sent => before.feeding)
  BY <1>3 DEF ServeInv, FeederShapes
<1> HIDE DEF before
<1>6. /\ action \in FeedActions
      /\ action = "send" => live
      /\ live => action # "clear"
      /\ live /\ action = "none" => before.sent /\ before.quiet # Keepalive
  BY DEF FeedAction, FeedActions
<1> HIDE DEF action
<1>7. /\ after \in AvgStates
      /\ action = "none" => after = before
      /\ action = "clear" => ~after.sent /\ ~after.feeding
      /\ action = "send" => after.feeding /\ ~after.clear
  BY <1>3, <1>6, Bounds DEF FeedStep, AvgStates, FeedActions
<1> HIDE DEF after
<1>8. /\ avg'.feeding = after.feeding /\ avg'.clear = after.clear /\ avg'.sent = after.sent
      /\ avg'.quiet = Passed(after.quiet)
  BY <1>4, <1>7 DEF AvgStates
<1>9. (avg'.clear => ~avg'.feeding) /\ (avg'.sent => avg'.feeding)
  BY <1>5, <1>6, <1>7, <1>8 DEF FeedActions
<1>10. ASSUME (LinkSelected /\ LinkActive) \/ BleActive(FeedSlot) PROVE asked' = asked
  <2>1. ~live /\ HandedToSingle
    BY <1>10, OneServes DEF HandedToSingle
  <2> QED BY <1>4, <1>6, <2>1
<1>11. ASSUME live, action = "none"
       PROVE avg'.feeding /\ asked' = asked /\ avg'.quiet = avg.quiet + 1 /\ avg.quiet < Keepalive
  <2>1. avg.feeding /\ ~avg.clear /\ avg.quiet # Keepalive
    BY <1>3, <1>5, <1>6, <1>11 DEF ServeInv, FeederShapes
  <2>2. avg.quiet < Keepalive
    BY <1>1, <2>1, KeepaliveAssumption DEF AvgStates
  <2>3. asked' = IF clears THEN Internal ELSE asked
    BY <1>4, <1>11
  <2> QED BY <1>3, <1>7, <1>8, <1>11, <2>1, <2>2, <2>3 DEF Passed
<1>12. ASSUME live, action = "send" PROVE avg'.feeding /\ asked' = Contributors
  BY <1>4, <1>7, <1>8, <1>12
<1> QED BY <1>6, <1>9, <1>10, <1>11, <1>12 DEF FeedActions
\* Where a step from outside restarts the calm, nothing is promised.
LEMMA OutsideServes ==
  ASSUME ServeInv, FromSensors \/ FromWeb, RoomInv'
  PROVE  ServeInv'
<1>1. calm' = 0 /\ link' = link /\ avg' = avg /\ sample' = sample
  <2>1. CASE FromSensors
    BY <2>1 DEF FromSensors, Advertise, GoesStale, DialGoesStale, Bond, ForgetDial, ForgetAll,
         Forget, RoomSensor, RoomSourceSet, Link, Changes, ChangesOnMain, Edits, Disturbs, feeders
  <2>2. CASE FromWeb
    BY <2>2 DEF FromWeb, WebRoomSource, WebRoom, WebRoomMembers, AddSensor, SetAddr, DelSensor,
         SetSensor, SetBleEnabled, Edits, Disturbs, feeders
  <2> QED BY <2>1, <2>2
<1> QED BY <1>1 DEF ServeInv, FeederShapes, SampleCurrent, NoSlotNoAge, AverageServed, LinkServed,
                    BleServed

\* The steps of a pass before the feeders.
LEMMA PreparationServes ==
  ASSUME ServeInv, Reconcile \/ BleSample, RoomInv'
  PROVE  ServeInv'
<1>1. CASE Reconcile
  <2>1. pc' = "ble" /\ UNCHANGED <<target, heard, entry, bleOn, connected, ble, link, avg, sample, asked>>
        /\ (calm' > 0 => sel' = sel /\ calm' = calm)
    BY <1>1 DEF Reconcile
  <2>2. calm' > 0 =>
          /\ Contributors' = Contributors /\ LinkView' = LinkView
          /\ LinkSelected' = LinkSelected /\ LinkActive' = LinkActive
          /\ FeedSlot' = FeedSlot /\ BleActive(FeedSlot)' = BleActive(FeedSlot)
    BY <2>1, ViewsKept
  <2> QED BY <2>1, <2>2 DEF ServeInv, FeederShapes, SampleCurrent, NoSlotNoAge, AverageServed,
                            LinkServed, BleServed, Overdue
<1>2. CASE BleSample
  <2>1. pc' = "feed" /\ ble' = [ble EXCEPT !.newer = FALSE]
        /\ UNCHANGED <<sel, target, heard, entry, bonded, bleOn, connected, link, avg, asked, calm>>
        /\ sample' = IF FeedSlot = None
                     THEN [slot |-> None, from |-> None, age |-> "never", on |-> bleOn]
                     ELSE [slot |-> FeedSlot, from |-> target[FeedSlot], age |-> heard[FeedSlot],
                           on |-> bleOn]
    BY <1>2 DEF BleSample
  <2>2. /\ Contributors' = Contributors /\ LinkView' = LinkView
        /\ LinkSelected' = LinkSelected /\ LinkActive' = LinkActive
        /\ FeedSlot' = FeedSlot /\ BleActive(FeedSlot)' = BleActive(FeedSlot)
    BY <2>1, ViewsKept
  <2>3. ble'.quiet = ble.quiet /\ ~ble'.newer
    BY <2>1, TypesNamed DEF ServeInv, RoomInv, BleStates
  <2>4. FeedSlot = None => sample'.slot = None /\ sample'.age = "never" /\ sample'.on = bleOn
    BY <2>1
  <2>5. FeedSlot # None => sample'.slot = FeedSlot /\ sample'.from = target[FeedSlot]
                          /\ sample'.age = heard[FeedSlot] /\ sample'.on = bleOn
    BY <2>1
  <2>6. SampleCurrent' /\ NoSlotNoAge'
    BY <2>1, <2>2, <2>3, <2>4, <2>5 DEF SampleCurrent, NoSlotNoAge
  <2> QED BY <2>1, <2>2, <2>3, <2>6
          DEF ServeInv, FeederShapes, AverageServed, LinkServed, BleServed, Overdue
<1> QED BY <1>1, <1>2

\* A feeder that ran leaves everybody served.
LEMMA FeedersServe ==
  ASSUME ServeInv, NEW early \in BOOLEAN, BleFeed(early) \/ LinkPass(early), RoomInv'
  PROVE  ServeInv'
<1>1. /\ UNCHANGED <<sel, target, heard, entry, bleOn, connected, avg, sample, calm>>
      /\ calm \in 0 .. Keepalive + 2 /\ ble \in BleStates /\ link \in LinkStates
  BY TypesNamed DEF BleFeed, LinkPass, ServeInv, RoomInv
<1>2. /\ Contributors' = Contributors /\ LinkView' = LinkView
      /\ LinkSelected' = LinkSelected /\ LinkActive' = LinkActive
      /\ FeedSlot' = FeedSlot /\ BleActive(FeedSlot)' = BleActive(FeedSlot)
  BY <1>1, ViewsKept
<1>3. NoSlotNoAge'
  BY <1>1 DEF ServeInv, NoSlotNoAge
<1>4. CASE BleFeed(early)
  <2>1. pc = "feed" /\ pc' = "link" /\ link' = link
    BY <1>4 DEF BleFeed
  <2>2. FeederShapes' /\ SampleCurrent'
    BY <1>1, <2>1 DEF ServeInv, FeederShapes, SampleCurrent
  <2>3. AverageServed'
    BY <1>1, <1>2, <1>4, BleServes DEF ServeInv, AverageServed, Overdue
  <2>4. LinkServed'
    BY <1>1, <1>2, <1>4, <2>1, BleServes DEF ServeInv, LinkServed, Overdue
  <2>5. BleServed'
    <3> SUFFICES ASSUME calm > 0, connected, BleActive(FeedSlot)
                 PROVE  \/ asked' = {target[FeedSlot]}
                        \/ Overdue(ble'.quiet) /\ ble'.quiet < Keepalive
      BY <1>1, <1>2 DEF BleServed, Overdue
    <3>1. CASE asked' = {target[FeedSlot]}
      BY <3>1
    <3>2. CASE asked' = asked /\ ble' = ble /\ ble.quiet # Keepalive
      <4>1. ble.quiet < Keepalive
        BY <1>1, <3>2, KeepaliveAssumption DEF BleStates
      <4> QED BY <3>2, <4>1 DEF ServeInv, BleServed
    <3> QED BY <1>4, <3>1, <3>2, BleServes
  <2> QED BY <1>3, <2>2, <2>3, <2>4, <2>5 DEF ServeInv
<1>5. CASE LinkPass(early)
  <2>1. pc = "link" /\ pc' = "avg" /\ ble' = ble
    BY <1>5 DEF LinkPass
  <2>2. FeederShapes' /\ SampleCurrent'
    BY <1>1, <1>5, <2>1, LinkServes DEF ServeInv, FeederShapes, SampleCurrent
  <2>3. AverageServed'
    BY <1>1, <1>2, <1>5, LinkServes DEF ServeInv, AverageServed, Overdue
  <2>4. BleServed'
    BY <1>1, <1>2, <1>5, <2>1, LinkServes DEF ServeInv, BleServed, Overdue
  <2>5. LinkServed'
    <3> SUFFICES ASSUME calm > 0, LinkSelected, LinkActive
                 PROVE  \/ asked' = LinkView
                        \/ Overdue(link'.quiet) /\ link'.quiet < Keepalive
      BY <1>1, <1>2 DEF LinkServed, Overdue
    <3>1. CASE asked' = LinkView
      BY <3>1
    <3>2. CASE asked' = asked /\ link'.quiet = link.quiet /\ link.quiet # Keepalive
      <4>1. link.quiet < Keepalive
        BY <1>1, <3>2, KeepaliveAssumption DEF LinkStates
      <4> QED BY <3>2, <4>1 DEF ServeInv, LinkServed
    <3> QED BY <1>5, <3>1, <3>2, LinkServes
  <2> QED BY <1>3, <2>2, <2>3, <2>4, <2>5 DEF ServeInv
<1> QED BY <1>4, <1>5

\* The end of a pass: one more calm pass, one more tick of every keepalive.
LEMMA PassEndServes ==
  ASSUME ServeInv, NEW early \in BOOLEAN, AvgPass(early), RoomInv'
  PROVE  ServeInv'
<1>1. /\ pc = "avg" /\ pc' = "idle"
      /\ ble' = [ble EXCEPT !.quiet = Passed(ble.quiet)]
      /\ link' = [link EXCEPT !.quiet = Passed(link.quiet)]
      /\ heard' = [s \in Slots |-> Ripened(heard[s])]
      /\ entry' = [d \in Dials |-> Ripened(entry[d])]
      /\ calm' = (IF calm < Keepalive + 2 THEN calm + 1 ELSE calm)
      /\ UNCHANGED <<sel, target, bonded, bleOn, connected, sample>>
  BY DEF AvgPass
<1>2. /\ calm \in 0 .. Keepalive + 2 /\ ble \in BleStates /\ link \in LinkStates /\ avg \in AvgStates
  BY TypesNamed DEF ServeInv, RoomInv
<1>3. /\ Contributors' = Contributors /\ LinkView' = LinkView
      /\ LinkSelected' = LinkSelected /\ LinkActive' = LinkActive
      /\ FeedSlot' = FeedSlot /\ BleActive(FeedSlot)' = BleActive(FeedSlot)
  <2>1. \A age : Live(Ripened(age)) <=> Live(age)
    BY DEF Live, Ripened
  <2> QED BY <1>1, <2>1, ViewsKept
<1>4. /\ ble'.quiet = Passed(ble.quiet) /\ link'.quiet = Passed(link.quiet)
      /\ link'.clear = link.clear /\ link'.sent = link.sent /\ link'.feeding = link.feeding
  BY <1>1, <1>2 DEF BleStates, LinkStates
<1>5. FeederShapes'
  BY <1>4, AverageServes DEF ServeInv, FeederShapes
<1>6. SampleCurrent' /\ NoSlotNoAge'
  BY <1>1 DEF ServeInv, SampleCurrent, NoSlotNoAge
<1>7. ASSUME NEW quiet \in 0 .. Keepalive, quiet < Keepalive,
             calm = 0 \/ (calm <= Keepalive + 1 /\ quiet >= calm - 1)
      PROVE  calm' <= Keepalive + 1 /\ quiet + 1 >= calm' - 1 /\ Passed(quiet) = quiet + 1
  BY <1>1, <1>2, <1>7, KeepaliveAssumption DEF Passed
<1>8. AverageServed'
  <2> SUFFICES ASSUME Contributors # {}
               PROVE  avg'.feeding /\ (asked' = Contributors \/ Overdue(avg.quiet)')
    BY <1>3, AverageServes DEF AverageServed, Overdue
  <2>1. avg'.feeding
    BY AverageServes
  <2>2. CASE asked' = Contributors
    BY <2>1, <2>2
  <2>3. CASE asked' = asked /\ avg'.quiet = avg.quiet + 1 /\ avg.quiet < Keepalive
    <3>1. avg.quiet \in 0 .. Keepalive
      BY <1>2 DEF AvgStates
    <3>2. CASE calm > 0 /\ asked = Contributors
      BY <2>1, <2>3, <3>2
    <3>3. CASE calm = 0 \/ Overdue(avg.quiet)
      BY <1>7, <2>1, <2>3, <3>1, <3>3 DEF Overdue
    <3> QED BY <1>2, <3>2, <3>3 DEF ServeInv, AverageServed
  <2> QED BY <2>1, <2>2, <2>3, AverageServes
<1>9. ASSUME calm = 0 PROVE calm' = 1 /\ calm' <= Keepalive + 1
  BY <1>1, <1>9, KeepaliveAssumption
<1>10. LinkServed'
  <2> SUFFICES ASSUME LinkSelected, LinkActive
               PROVE  asked' = LinkView \/ Overdue(link.quiet)'
    BY <1>1, <1>3 DEF LinkServed, Overdue
  <2>1. asked' = asked /\ link.quiet \in 0 .. Keepalive /\ link'.quiet \in 0 .. Keepalive
    BY <1>2, <1>4, AverageServes, KeepaliveAssumption DEF LinkStates, Passed
  <2>2. CASE calm = 0
    BY <1>9, <2>1, <2>2 DEF Overdue
  <2>3. CASE calm > 0 /\ asked = LinkView
    BY <2>1, <2>3
  <2>4. CASE Overdue(link.quiet) /\ link.quiet < Keepalive
    BY <1>4, <1>7, <2>1, <2>4 DEF Overdue
  <2> QED BY <1>1, <1>2, <2>2, <2>3, <2>4 DEF ServeInv, LinkServed
<1>11. BleServed'
  <2> SUFFICES ASSUME connected, BleActive(FeedSlot)
               PROVE  asked' = {target[FeedSlot]} \/ Overdue(ble.quiet)'
    BY <1>1, <1>3 DEF BleServed, Overdue
  <2>1. asked' = asked /\ ble.quiet \in 0 .. Keepalive /\ ble'.quiet \in 0 .. Keepalive
    BY <1>2, <1>4, AverageServes, KeepaliveAssumption DEF BleStates, Passed
  <2>2. CASE calm = 0
    BY <1>9, <2>1, <2>2 DEF Overdue
  <2>3. CASE calm > 0 /\ asked = {target[FeedSlot]}
    BY <2>1, <2>3
  <2>4. CASE Overdue(ble.quiet) /\ ble.quiet < Keepalive
    BY <1>4, <1>7, <2>1, <2>4 DEF Overdue
  <2> QED BY <1>1, <1>2, <2>2, <2>3, <2>4 DEF ServeInv, BleServed
<1> QED BY <1>5, <1>6, <1>8, <1>10, <1>11 DEF ServeInv

\* Everybody is served in every reachable state.
LEMMA ServeInvHolds == Spec => []ServeInv
<1>1. Init => ServeInv
  BY InvInit DEF Init, ServeInv, FeederShapes, SampleCurrent, NoSlotNoAge, AverageServed, LinkServed,
                 BleServed
<1>2. ServeInv /\ [Next]_vars => ServeInv'
  <2>1. ASSUME ServeInv, Next PROVE ServeInv'
    <3>1. RoomInv'
      BY <2>1, StepKeeps DEF ServeInv
    <3> QED BY <2>1, <3>1, OutsideServes, PreparationServes, FeedersServe, PassEndServes
            DEF Next, Pass
  <2>2. ASSUME ServeInv, UNCHANGED vars PROVE ServeInv'
    <3>1. RoomInv'
      BY <2>2, StutterKeeps DEF ServeInv
    <3>2. UNCHANGED <<sel, target, heard, entry, bleOn, connected, ble, link, avg, pc, sample,
                      asked, calm>>
      BY <2>2 DEF vars
    <3>3. /\ Contributors' = Contributors /\ LinkView' = LinkView
          /\ LinkSelected' = LinkSelected /\ LinkActive' = LinkActive
          /\ FeedSlot' = FeedSlot /\ BleActive(FeedSlot)' = BleActive(FeedSlot)
      BY <3>2, ViewsKept
    <3> QED BY <2>2, <3>1, <3>2, <3>3
            DEF ServeInv, FeederShapes, SampleCurrent, NoSlotNoAge, AverageServed, LinkServed,
                BleServed, Overdue
  <2> QED BY <2>1, <2>2
<1> QED BY <1>1, <1>2, PTL DEF Spec

\* Whatever came before, and wherever in a pass it came: a pass more than the
\* keepalive after the last change, the heat pump has the value of the live
\* sensors that are selected (ble_sensor.cpp 546-682, link_sensor.cpp 178-247,
\* room_avg.cpp 32-137).
THEOREM LiveSensorsAreFollowed == Spec => []ValueFollows
<1>1. ServeInv => ValueFollows
  <2> SUFFICES ASSUME ServeInv, calm = Keepalive + 2, connected, Wanted # {}
               PROVE  asked = Wanted
    BY DEF ValueFollows
  <2>1. calm > 0 /\ ~(calm <= Keepalive + 1)
    BY KeepaliveAssumption
  <2>2. CASE sel.mode = "average"
    <3>1. Wanted = Contributors
      BY <2>2, OneServes DEF Wanted
    <3> QED BY <2>1, <3>1 DEF ServeInv, AverageServed, Overdue
  <2>3. CASE LinkSelected
    <3>1. Wanted = LinkView
      BY <2>3, OneServes DEF Wanted
    <3>2. LinkActive
      BY <3>1, LinkViewIs
    <3> QED BY <2>1, <2>3, <3>1, <3>2 DEF ServeInv, LinkServed, Overdue
  <2>4. CASE sel.mode # "average" /\ ~LinkSelected
    <3>1. Wanted = IF BleActive(FeedSlot) THEN {target[FeedSlot]} ELSE {}
      BY <2>4 DEF Wanted
    <3> QED BY <2>1, <3>1 DEF ServeInv, BleServed, Overdue
  <2> QED BY <2>2, <2>3, <2>4
<1> QED BY ServeInvHolds, <1>1, PTL
---------------------------------------------------------------------------
(***************************************************************************)
(* The register follows the selection                                      *)
(***************************************************************************)
\* In a pass that nobody interrupts the Bluetooth feeder works on the present
\* state, calm or not.
SampleNow ==
  pc = "feed" =>
    /\ sample.slot = FeedSlot /\ sample.on = bleOn /\ ~ble.newer
    /\ FeedSlot # None => sample.from = target[FeedSlot] /\ sample.age = heard[FeedSlot]

LinkLive == LinkSelected /\ LinkActive

\* Whoever wrote the value in the register still feeds it or owes its clear, or
\* the dials are about to write theirs.
ValueIsOwned ==
  \/ asked \in {Internal, Untouched}
  \/ ble.owns \/ strayed
  \/ link.feeding \/ link.clear
  \/ avg.feeding \/ avg.clear
  \/ pc = "link" /\ LinkLive

SentIsOwned == ble.sent => ble.owns \/ strayed

\* An owner that owes no clear has a slot that will tell it when to.
OwnerListens ==
  ble.owns /\ ~ble.clear =>
    /\ bleOn /\ ble.prev # None /\ ~ble.reverted
    /\ heard[ble.prev] # "never" \/ strayed

\* Behind its feeder in the pass, a live source is being fed.
LiveAreFed ==
  /\ pc \in {"link", "avg"} /\ connected /\ BleActive(FeedSlot) => ble.owns \/ strayed
  /\ pc = "avg" /\ LinkLive => link.feeding

\* Without a live source the feeders let go of the register one after the
\* other, and have all let go after one pass.
FeedersLetGo ==
  Wanted = {} /\ connected =>
    /\ pc \in {"link", "avg"} \/ calm >= 1 => ~ble.owns \/ strayed
    /\ pc = "avg" \/ calm >= 1 => ~link.feeding
    /\ calm >= 1 => ~avg.feeding

\* After another pass their clears are done too.
ClearsAreDone ==
  Wanted = {} /\ connected =>
    /\ calm >= 2 \/ (pc = "avg" /\ calm >= 1) => ~link.clear
    /\ calm >= 2 => ~avg.clear

HandInv ==
  /\ ServeInv /\ SampleNow /\ ValueIsOwned /\ SentIsOwned /\ OwnerListens
  /\ LiveAreFed /\ FeedersLetGo /\ ClearsAreDone

\* Nobody is wanted when none of the three sources has a live sensor.
LEMMA NobodyIs ==
  Wanted = {} => Contributors = {} /\ ~LinkLive /\ ~BleActive(FeedSlot)
<1>1. CASE sel.mode = "average"
  BY <1>1, OneServes DEF Wanted, LinkLive
<1>2. CASE LinkSelected
  BY <1>2, OneServes, LinkViewIs DEF Wanted, LinkLive
<1>3. CASE sel.mode # "average" /\ ~LinkSelected
  BY <1>3, OneServes DEF Wanted, LinkLive
<1> QED BY <1>1, <1>2, <1>3

\* Readings that stay live keep who is wanted.
LEMMA WantedKept ==
  ASSUME UNCHANGED <<sel, target, bleOn>>,
         \A s \in Slots : Live(heard'[s]) <=> Live(heard[s]),
         \A d \in Dials : Live(entry'[d]) <=> Live(entry[d])
  PROVE  Wanted' = Wanted /\ LinkLive' = LinkLive
<1>1. /\ Contributors' = Contributors /\ LinkView' = LinkView
      /\ LinkSelected' = LinkSelected /\ LinkActive' = LinkActive
      /\ FeedSlot' = FeedSlot /\ BleActive(FeedSlot)' = BleActive(FeedSlot)
  BY ViewsKept
<1> QED BY <1>1 DEF Wanted, LinkLive

\* A step from outside that leaves Bluetooth alone
LeavesBle == UNCHANGED <<ble, bleOn, heard, strayed>>

\* What such a step keeps of the feeder's bookkeeping.
LEMMA LeavingHands ==
  ASSUME HandInv, LeavesBle
  PROVE  /\ ble'.owns = ble.owns /\ ble'.sent = ble.sent /\ (strayed => strayed')
         /\ OwnerListens'
BY DEF LeavesBle, HandInv, OwnerListens

\* A reading that arrives or goes stale is still a reading.
LEMMA ReadingHands ==
  ASSUME HandInv, NEW s \in Slots, Advertise(s) \/ GoesStale(s)
  PROVE  /\ ble'.owns = ble.owns /\ ble'.sent = ble.sent /\ (strayed => strayed')
         /\ OwnerListens'
<1>1. ble \in BleStates /\ heard \in [Slots -> Ages] /\ UNCHANGED <<bleOn, strayed>>
  BY FitsNow DEF HandInv, ServeInv, Advertise, GoesStale
<1>2. ble' = ble \/ ble' = [ble EXCEPT !.reverted = FALSE]
  BY DEF Advertise, GoesStale, feeders
<1>3. /\ ble'.owns = ble.owns /\ ble'.sent = ble.sent /\ ble'.clear = ble.clear
      /\ ble'.prev = ble.prev /\ (~ble.reverted => ~ble'.reverted)
  BY <1>1, <1>2 DEF BleStates
<1>4. \A t \in Slots : heard[t] # "never" => heard'[t] # "never"
  BY <1>1 DEF Advertise, GoesStale
<1>5. ble.prev # None => ble.prev \in Slots
  BY <1>1 DEF BleStates
<1> QED BY <1>1, <1>3, <1>4, <1>5 DEF HandInv, OwnerListens

\* A slot that changes its sensor owes a clear, is the one the feeder has
\* already left, or leaves the value to stray.
LEMMA SetSensorHands ==
  ASSUME HandInv, NEW s \in Slots, NEW address, SetSensor(s, address)
  PROVE  /\ ble'.owns = ble.owns /\ ble'.sent = ble.sent /\ (strayed => strayed')
         /\ OwnerListens'
<1> DEFINE cleared == IF heard[s] # "never" /\ s = FeedSlot THEN RequestClear(ble) ELSE ble
<1>1. ble \in BleStates /\ heard \in [Slots -> Ages]
  BY FitsNow DEF HandInv, ServeInv
<1>2. /\ bleOn' = bleOn /\ heard' = [heard EXCEPT ![s] = "never"]
      /\ ble' = IF s = FeedSlot THEN [cleared EXCEPT !.reverted = FALSE] ELSE cleared
      /\ strayed' = (strayed \/ InheritsAfter(s))
  BY DEF SetSensor
<1>3. /\ cleared \in BleStates
      /\ cleared.owns = ble.owns /\ cleared.sent = ble.sent /\ cleared.prev = ble.prev
      /\ cleared.reverted = ble.reverted
      /\ cleared.clear = (ble.clear \/ (heard[s] # "never" /\ s = FeedSlot))
  BY <1>1 DEF RequestClear, BleStates
<1> HIDE DEF cleared
<1>4. /\ ble'.owns = ble.owns /\ ble'.sent = ble.sent /\ ble'.prev = ble.prev
      /\ (~ble.reverted => ~ble'.reverted) /\ ble'.clear = cleared.clear
  BY <1>2, <1>3 DEF BleStates
<1>5. OwnerListens'
  <2> SUFFICES ASSUME ble.owns, ~ble.clear, ~(heard[s] # "never" /\ s = FeedSlot)
               PROVE  /\ bleOn /\ ble.prev # None /\ ~ble'.reverted
                      /\ heard'[ble.prev] # "never" \/ strayed'
    BY <1>2, <1>3, <1>4 DEF OwnerListens
  <2>1. /\ bleOn /\ ble.prev # None /\ ~ble.reverted /\ ble.prev \in Slots
        /\ heard[ble.prev] # "never" \/ strayed
    BY <1>1 DEF HandInv, OwnerListens, BleStates
  <2>2. CASE ble.prev # s
    BY <1>1, <1>2, <1>4, <2>1, <2>2
  <2>3. CASE ble.prev = s
    BY <1>2, <1>4, <2>1, <2>3 DEF InheritsAfter
  <2> QED BY <2>2, <2>3
<1> QED BY <1>2, <1>4, <1>5

\* Switched off, Bluetooth owes a clear.
LEMMA SetBleEnabledHands ==
  ASSUME HandInv, NEW on \in BOOLEAN, SetBleEnabled(on)
  PROVE  /\ ble'.owns = ble.owns /\ ble'.sent = ble.sent /\ (strayed => strayed')
         /\ OwnerListens'
<1>1. ble \in BleStates
  BY FitsNow DEF HandInv, ServeInv
<1>2. /\ bleOn' = on /\ UNCHANGED <<heard, strayed>>
      /\ ble' = IF on THEN ble ELSE [RequestClear(ble) EXCEPT !.reverted = FALSE]
  BY DEF SetBleEnabled
<1>3. CASE on
  BY <1>2, <1>3 DEF HandInv, OwnerListens
<1>4. CASE ~on
  BY <1>1, <1>2, <1>4 DEF RequestClear, BleStates, OwnerListens
<1> QED BY <1>3, <1>4

\* A step from outside, between two passes: calm starts again, and the value
\* keeps its owner.
LEMMA OutsideHands ==
  ASSUME ~MidPass, HandInv, FromSensors \/ FromWeb, ServeInv'
  PROVE  HandInv'
<1>1. pc = "idle" /\ calm' = 0 /\ UNCHANGED <<link, avg, pc, asked>>
  <2>1. CASE FromSensors
    BY <2>1 DEF FromSensors, Advertise, GoesStale, DialGoesStale, Bond, ForgetDial, ForgetAll,
         Forget, RoomSensor, RoomSourceSet, Link, Changes, ChangesOnMain, Edits, Disturbs, feeders,
         Outside
  <2>2. CASE FromWeb
    BY <2>2 DEF FromWeb, WebRoomSource, WebRoom, WebRoomMembers, AddSensor, SetAddr, DelSensor,
         SetSensor, SetBleEnabled, Edits, Disturbs, feeders, Outside
  <2> QED BY <2>1, <2>2
<1>2. \/ LeavesBle
      \/ \E s \in Slots : Advertise(s) \/ GoesStale(s)
      \/ \E s \in Slots, address \in Sensors \cup {None} : SetSensor(s, address)
      \/ \E on \in BOOLEAN : SetBleEnabled(on)
  <2>1. CASE FromSensors
    BY <2>1 DEF FromSensors, DialGoesStale, Bond, ForgetDial, ForgetAll, Forget, RoomSensor,
         RoomSourceSet, Link, feeders, LeavesBle
  <2>2. CASE FromWeb
    <3>1. ASSUME NEW address \in Sensors \cup {None}, SetAddr(address)
          PROVE  \E s \in Slots : SetSensor(s, address)
      <4>1. FeedSlot # None => FeedSlot \in Slots
        BY DEF FeedSlot
      <4> QED BY <3>1, <4>1, Bounds DEF SetAddr
    <3>2. CASE \/ \E address \in Sensors : AddSensor(address)
               \/ \E address \in Sensors \cup {None} : SetAddr(address)
               \/ \E s \in Slots : DelSensor(s)
      BY <3>1, <3>2 DEF AddSensor, DelSensor
    <3>3. CASE \/ \E src \in {"internal", "link", "ble"} : WebRoomSource(src)
               \/ \E mode \in {"single", "average"} \cup {Keep},
                     single \in {INTERNAL, LINK, Keep} \cup Slots : WebRoom(mode, single)
               \/ \E members \in SUBSET ({LINK} \cup Slots) : WebRoomMembers(members)
      BY <3>3 DEF WebRoomSource, WebRoom, WebRoomMembers, feeders, LeavesBle
    <3> QED BY <2>2, <3>2, <3>3 DEF FromWeb
  <2> QED BY <2>1, <2>2
<1>3. ble'.owns = ble.owns /\ ble'.sent = ble.sent /\ (strayed => strayed') /\ OwnerListens'
  BY <1>2, LeavingHands, ReadingHands, SetSensorHands, SetBleEnabledHands
<1>4. ValueIsOwned' /\ SentIsOwned'
  BY <1>1, <1>3 DEF HandInv, ValueIsOwned, SentIsOwned
<1>5. SampleNow' /\ LiveAreFed' /\ FeedersLetGo' /\ ClearsAreDone'
  BY <1>1 DEF SampleNow, LiveAreFed, FeedersLetGo, ClearsAreDone
<1> QED BY <1>3, <1>4, <1>5 DEF HandInv

\* The steps of a pass before the feeders.
LEMMA PreparationHands ==
  ASSUME ~MidPass, HandInv, Reconcile \/ BleSample, ServeInv'
  PROVE  HandInv'
<1>1. CASE Reconcile
  <2>1. /\ pc = "idle" /\ pc' = "ble"
        /\ UNCHANGED <<target, heard, entry, bleOn, connected, ble, link, avg, asked, strayed>>
        /\ (sel' = sel /\ calm' = calm) \/ calm' = 0
    BY <1>1 DEF Reconcile
  <2>2. calm' = 0 \/ Wanted' = Wanted
    BY <2>1, WantedKept
  <2>3. ValueIsOwned' /\ SentIsOwned' /\ OwnerListens'
    BY <2>1 DEF HandInv, ValueIsOwned, SentIsOwned, OwnerListens
  <2>4. SampleNow' /\ LiveAreFed' /\ FeedersLetGo' /\ ClearsAreDone'
    BY <2>1, <2>2 DEF HandInv, SampleNow, LiveAreFed, FeedersLetGo, ClearsAreDone
  <2> QED BY <2>3, <2>4 DEF HandInv
<1>2. CASE BleSample
  <2>1. /\ pc = "ble" /\ pc' = "feed" /\ ble' = [ble EXCEPT !.newer = FALSE]
        /\ UNCHANGED <<sel, target, heard, entry, bleOn, connected, link, avg, asked, strayed, calm>>
        /\ sample' = IF FeedSlot = None
                     THEN [slot |-> None, from |-> None, age |-> "never", on |-> bleOn]
                     ELSE [slot |-> FeedSlot, from |-> target[FeedSlot], age |-> heard[FeedSlot],
                           on |-> bleOn]
    BY <1>2 DEF BleSample
  <2>2. ble \in BleStates
    BY FitsNow DEF HandInv, ServeInv
  <2>3. /\ ble'.owns = ble.owns /\ ble'.sent = ble.sent /\ ble'.clear = ble.clear
        /\ ble'.prev = ble.prev /\ ble'.reverted = ble.reverted /\ ~ble'.newer
    BY <2>1, <2>2 DEF BleStates
  <2>4. Wanted' = Wanted /\ FeedSlot' = FeedSlot
    BY <2>1, WantedKept, ViewsKept
  <2>5. ValueIsOwned' /\ SentIsOwned' /\ OwnerListens'
    BY <2>1, <2>3 DEF HandInv, ValueIsOwned, SentIsOwned, OwnerListens
  <2>6. SampleNow'
    <3>1. CASE FeedSlot = None
      BY <2>1, <2>3, <2>4, <3>1 DEF SampleNow
    <3>2. CASE FeedSlot # None
      BY <2>1, <2>3, <2>4, <3>2 DEF SampleNow
    <3> QED BY <3>1, <3>2
  <2>7. LiveAreFed' /\ FeedersLetGo' /\ ClearsAreDone'
    BY <2>1, <2>3, <2>4 DEF HandInv, LiveAreFed, FeedersLetGo, ClearsAreDone
  <2> QED BY <2>5, <2>6, <2>7 DEF HandInv
<1> QED BY <1>1, <1>2

\* What is left of a slot the feeder has moved from.
LEMMA SlotMovedHow ==
  ASSUME Samples, NEW b \in BleStates
  PROVE  /\ SlotMoved(b).prev = sample.slot
         /\ SlotMoved(b).sent => b.sent
         /\ b.clear => SlotMoved(b).clear
         /\ sample.slot = b.prev => SlotMoved(b) = b
         /\ sample.slot # b.prev => ~SlotMoved(b).sent /\ ~SlotMoved(b).reverted
         /\ Live(sample.age) => SlotMoved(b).newer = b.newer
         /\ sample.slot # b.prev /\ ~Live(sample.age) => SlotMoved(b).clear
<1> DEFINE reset == [b EXCEPT !.prev = sample.slot, !.quiet = Keepalive, !.sent = FALSE,
                              !.reverted = FALSE]
<1>1. /\ reset \in BleStates /\ reset.prev = sample.slot /\ ~reset.sent /\ ~reset.reverted
      /\ reset.clear = b.clear /\ reset.newer = b.newer
  BY Bounds DEF Samples, BleStates
<1>2. SlotMoved(b) = IF sample.slot = b.prev THEN b
                     ELSE IF Live(sample.age) THEN reset ELSE RequestClear(reset)
  BY DEF SlotMoved
<1> HIDE DEF reset
<1>3. /\ RequestClear(reset).prev = sample.slot /\ ~RequestClear(reset).sent
      /\ ~RequestClear(reset).reverted /\ RequestClear(reset).clear /\ RequestClear(reset).newer
  BY <1>1 DEF RequestClear, BleStates
<1>4. b.newer \in BOOLEAN /\ b.clear \in BOOLEAN
  BY DEF BleStates
<1> QED BY <1>1, <1>2, <1>3, <1>4

\* The watchdog asks for a clear, and changes nothing else that counts.
LEMMA WatchedHow ==
  ASSUME Samples, NEW b \in BleStates
  PROVE  /\ Watched(b).sent = b.sent /\ Watched(b).prev = b.prev
         /\ ~Watched(b).clear => Watched(b) = b
         /\ sample.slot # None /\ sample.age = "stale" /\ ~b.reverted => Watched(b).clear
<1> DEFINE bitten == [b EXCEPT !.reverted = TRUE]
<1>1. bitten \in BleStates /\ bitten.sent = b.sent /\ bitten.prev = b.prev
  BY DEF BleStates
<1>2. Watched(b) = IF sample.slot # None /\ sample.age = "stale" /\ ~b.reverted
                   THEN RequestClear(bitten) ELSE b
  BY DEF Watched
<1> HIDE DEF bitten
<1>3. /\ RequestClear(bitten).sent = b.sent /\ RequestClear(bitten).prev = b.prev
      /\ RequestClear(bitten).clear
  BY <1>1 DEF RequestClear, BleStates
<1> QED BY <1>2, <1>3

\* An owner drained of its clear gives the register up, to the dials or the
\* average when it does not clear it.
LEMMA DrainedHow ==
  ASSUME NEW b \in BleStates
  PROVE  /\ ~b.clear => Drained(b) = b /\ ~Drains(b)
         /\ Drains(b) => ~Drained(b).sent /\ ~Drained(b).owns
         /\ Drained(b).sent => b.sent
         /\ Drained(b).owns => b.owns
         /\ Drained(b).owns /\ (connected \/ ~Drained(b).clear) => ~b.clear
         /\ b.owns /\ ~Drained(b).owns => b.clear /\ connected
         /\ b.owns /\ ~Drained(b).owns /\ ~Drains(b) => LinkLive \/ avg.feeding
<1>1. Drains(b) <=> b.clear /\ b.owns /\ connected /\ ~LinkLive /\ ~avg.feeding
  BY DEF Drains, LinkLive
<1>2. Drained(b) = IF ~b.clear THEN b
                   ELSE IF ~b.owns THEN [b EXCEPT !.clear = FALSE]
                   ELSE IF ~connected THEN b
                   ELSE [b EXCEPT !.clear = FALSE, !.owns = FALSE,
                                  !.sent = b.sent /\ ~Drains(b)]
  BY DEF Drained
<1> DEFINE dropped == [b EXCEPT !.clear = FALSE]
           given == [b EXCEPT !.clear = FALSE, !.owns = FALSE, !.sent = b.sent /\ ~Drains(b)]
<1>3. dropped.owns = b.owns /\ dropped.sent = b.sent /\ ~dropped.clear
  BY DEF BleStates
<1>4. ~given.owns /\ given.sent = (b.sent /\ ~Drains(b)) /\ ~given.clear
  BY DEF BleStates
<1>5. CASE ~b.clear
  BY <1>1, <1>2, <1>5
<1>6. CASE b.clear /\ ~b.owns
  <2>1. Drained(b) = dropped
    BY <1>2, <1>6
  <2> HIDE DEF dropped
  <2> QED BY <1>1, <1>3, <1>6, <2>1
<1>7. CASE b.clear /\ b.owns /\ ~connected
  BY <1>1, <1>2, <1>7
<1>8. CASE b.clear /\ b.owns /\ connected
  <2>1. Drained(b) = given
    BY <1>2, <1>8
  <2> HIDE DEF given
  <2> QED BY <1>1, <1>4, <1>8, <2>1
<1> QED BY <1>5, <1>6, <1>7, <1>8

\* The Bluetooth feeder takes the register for a live reading of its slot,
\* and gives it up when it has none.
LEMMA BleFeedHands ==
  ASSUME ~MidPass, HandInv, NEW early \in BOOLEAN, BleFeed(early), ServeInv'
  PROVE  HandInv'
<1> DEFINE moved == IF sample.on THEN SlotMoved(ble) ELSE ble
           sends == /\ sample.on /\ BleMaySend(moved)
                    /\ moved.clear \/ ~moved.sent \/ moved.quiet = Keepalive \/ early
           fed == IF sends THEN BleSent(moved) ELSE moved
           seen == IF sample.on THEN Watched(fed) ELSE fed
<1>1. /\ pc = "feed" /\ pc' = "link" /\ ble' = Drained(seen)
      /\ asked' = IF Drains(seen) THEN Internal ELSE IF sends THEN {sample.from} ELSE asked
      /\ strayed' = (~sends /\ ~Drains(seen) /\ (strayed \/ SentUnowned(seen)))
      /\ UNCHANGED <<sel, target, heard, entry, bonded, bleOn, connected, link, avg, calm>>
  BY DEF BleFeed
<1>2. /\ Samples /\ ble \in BleStates /\ heard \in [Slots -> Ages]
      /\ bleOn \in BOOLEAN /\ calm \in 0 .. Keepalive + 2
  BY TypesNamed DEF HandInv, ServeInv, RoomInv
<1>3. /\ sample.slot = FeedSlot /\ sample.on = bleOn /\ ~ble.newer
      /\ FeedSlot # None => FeedSlot \in Slots /\ sample.age = heard[FeedSlot]
      /\ FeedSlot = None => sample.age = "never"
  BY <1>1 DEF HandInv, SampleNow, ServeInv, NoSlotNoAge, FeedSlot
<1>4. /\ Wanted' = Wanted /\ LinkLive' = LinkLive
      /\ BleActive(FeedSlot)' = BleActive(FeedSlot)
  BY <1>1, ViewsKept, WantedKept
<1>5. BleActive(FeedSlot) <=> bleOn /\ FeedSlot # None /\ Live(sample.age)
  BY <1>3, OneServes DEF BleActive
<1>6. /\ moved \in BleStates /\ moved.owns = ble.owns
      /\ moved.sent => ble.sent
      /\ ble.clear => moved.clear
      /\ bleOn => moved.prev = FeedSlot
      /\ Live(sample.age) => ~moved.newer
      /\ moved = ble \/ (bleOn /\ ~moved.sent /\ ~moved.reverted)
      /\ moved = ble \/ moved.clear \/ Live(sample.age)
  BY <1>2, <1>3, SlotMovedIs, SlotMovedHow
<1>7. sends => bleOn /\ Live(sample.age) /\ FeedSlot # None
  BY <1>3 DEF BleMaySend, Live
<1>8. ~sends /\ connected /\ BleActive(FeedSlot) => ~moved.clear /\ moved.sent
  BY <1>3, <1>5, <1>6 DEF BleMaySend
<1>9. SampleNow' /\ ClearsAreDone'
  BY <1>1, <1>4 DEF HandInv, SampleNow, ClearsAreDone
<1> HIDE DEF moved, sends
<1>10. CASE sends
  <2>1. /\ fed = BleSent(moved) /\ fed \in BleStates /\ fed.owns /\ ~fed.clear
        /\ fed.prev = FeedSlot /\ ~fed.reverted
    BY <1>6, <1>7, <1>10, Bounds DEF BleSent, BleStates
  <2> HIDE DEF fed
  <2>2. seen = fed
    BY <1>2, <1>7, <1>10, <2>1, WatchedIs
  <2> HIDE DEF seen
  <2>3. ble' = fed
    BY <1>1, <2>1, <2>2, DrainedHow
  <2>4. heard[FeedSlot] # "never"
    BY <1>3, <1>7, <1>10 DEF Live
  <2>5. Wanted # {}
    BY <1>5, <1>7, <1>10, NobodyIs
  <2>6. ValueIsOwned' /\ SentIsOwned' /\ OwnerListens'
    BY <1>1, <1>7, <1>10, <2>1, <2>3, <2>4 DEF ValueIsOwned, SentIsOwned, OwnerListens
  <2>7. LiveAreFed' /\ FeedersLetGo'
    BY <1>1, <1>4, <2>1, <2>3, <2>5 DEF LiveAreFed, FeedersLetGo
  <2> QED BY <1>9, <2>6, <2>7 DEF HandInv
<1>11. CASE ~sends
  <2>1. fed = moved
    BY <1>11
  <2>2. /\ seen \in BleStates /\ seen.owns = ble.owns /\ (seen.sent => ble.sent)
        /\ bleOn => seen.prev = FeedSlot
        /\ ~seen.clear => seen = moved
        /\ Live(sample.age) => seen = moved
        /\ bleOn /\ FeedSlot # None /\ sample.age = "stale" /\ ~moved.reverted => seen.clear
    BY <1>2, <1>3, <1>6, <2>1, WatchedIs, WatchedHow
  <2> HIDE DEF fed, seen
  <2>3. /\ ~seen.clear => ble' = seen /\ ~Drains(seen)
        /\ Drains(seen) => ~ble'.sent /\ ~ble'.owns
        /\ ble'.sent => seen.sent
        /\ ble'.owns => seen.owns
        /\ ble'.owns /\ (connected \/ ~ble'.clear) => ~seen.clear
        /\ seen.owns /\ ~ble'.owns => seen.clear /\ connected
        /\ seen.owns /\ ~ble'.owns /\ ~Drains(seen) => LinkLive \/ avg.feeding
    BY <1>1, <2>2, DrainedHow
  <2>4. strayed' = (~Drains(seen) /\ (strayed \/ SentUnowned(seen)))
        /\ asked' = IF Drains(seen) THEN Internal ELSE asked
    BY <1>1, <1>11
  <2>5. ValueIsOwned'
    BY <1>1, <1>4, <2>2, <2>3, <2>4 DEF HandInv, ValueIsOwned
  <2>6. SentIsOwned'
    BY <2>2, <2>3, <2>4 DEF HandInv, SentIsOwned, SentUnowned
  <2>7. ASSUME ~seen.clear, seen.owns
        PROVE  /\ bleOn /\ FeedSlot # None /\ ble'.prev = FeedSlot /\ ~ble'.reverted
               /\ heard[FeedSlot] # "never" \/ strayed'
               /\ sample.age # "stale"
    <3>1. ble' = moved /\ ~moved.clear /\ ~ble.clear /\ ble.owns /\ ~Drains(seen)
      BY <1>6, <2>2, <2>3, <2>7
    <3>2. bleOn /\ ble.prev # None /\ ~ble.reverted /\ (heard[ble.prev] # "never" \/ strayed)
      BY <3>1 DEF HandInv, OwnerListens
    <3>3. ble'.prev = FeedSlot
      BY <1>6, <3>1, <3>2
    <3>4. CASE moved = ble
      BY <2>2, <2>4, <2>7, <3>1, <3>2, <3>3, <3>4
    <3>5. CASE moved # ble
      <4>1. Live(sample.age) /\ ~moved.reverted
        BY <1>6, <3>1, <3>5
      <4> QED BY <1>3, <3>1, <3>2, <3>3, <4>1 DEF Live
    <3> QED BY <3>4, <3>5
  <2>8. OwnerListens'
    BY <1>1, <2>3, <2>7 DEF OwnerListens
  <2>9. LiveAreFed'
    <3> SUFFICES ASSUME connected, BleActive(FeedSlot) PROVE ble'.owns \/ strayed'
      BY <1>1, <1>4 DEF LiveAreFed
    <3>1. ~moved.clear /\ moved.sent /\ seen = moved /\ moved = ble
      BY <1>5, <1>6, <1>8, <1>11, <2>2
    <3>2. ble.owns \/ strayed
      BY <3>1 DEF HandInv, SentIsOwned
    <3> QED BY <2>3, <2>4, <3>1, <3>2
  <2>10. FeedersLetGo'
    <3> SUFFICES ASSUME Wanted = {}, connected PROVE ~ble'.owns \/ strayed'
      BY <1>1, <1>4 DEF HandInv, FeedersLetGo
    <3>1. SUFFICES ASSUME ble'.owns, ~strayed' PROVE FALSE
      OBVIOUS
    <3>2. ~seen.clear /\ seen.owns
      BY <2>3, <3>1
    <3>3. /\ bleOn /\ FeedSlot # None
          /\ heard[FeedSlot] # "never" /\ sample.age # "stale"
      BY <2>7, <3>1, <3>2
    <3>4. Live(sample.age)
      BY <1>2, <1>3, <3>3 DEF Live, Ages
    <3> QED BY <1>5, <3>3, <3>4, NobodyIs
  <2> QED BY <1>9, <2>5, <2>6, <2>8, <2>9, <2>10 DEF HandInv
<1> QED BY <1>10, <1>11

\* The feeder of the dials feeds a live selection, lets go of a dead one with
\* a clear, and drops a clear only for another feeder.
LEMMA LinkFeeds ==
  ASSUME ServeInv, NEW early \in BOOLEAN, LinkPass(early)
  PROVE  /\ LinkLive => link'.feeding
         /\ ~LinkLive => ~link'.feeding /\ (link.feeding => link'.clear)
         /\ ~LinkLive /\ ~link.feeding /\ connected => ~link'.clear
         /\ asked' = asked \/ asked' = Internal \/ link'.feeding
         /\ link.clear /\ ~link'.clear /\ ~link'.feeding =>
              asked' = Internal \/ (connected /\ (BleActive(FeedSlot) \/ avg.feeding))
<1> DEFINE drains == link.clear /\ connected
           clears == drains /\ ~BleActive(FeedSlot) /\ ~avg.feeding
           kept == [link EXCEPT !.clear = link.clear /\ ~drains]
           before == NewOwner(kept)
           action == FeedAction(before, LinkLive, early)
<1>1. link \in LinkStates /\ connected \in BOOLEAN /\ sel.pin \in Dials \cup {None}
  BY TypesNamed DEF Selections, ServeInv, RoomInv
<1>2. (link.clear /\ ~drains) \in BOOLEAN
  OBVIOUS
<1>3. kept \in LinkStates /\ kept.feeding = link.feeding /\ kept.sent = link.sent
      /\ kept.clear = (link.clear /\ ~drains)
  BY <1>1, <1>2 DEF LinkStates
<1>4. link' = FeedStep(before, action)
      /\ asked' = CASE action = "send" -> LinkView
                    [] OTHER -> IF clears THEN Internal ELSE asked
  BY DEF LinkPass, LinkLive
<1> HIDE DEF kept
<1>5. before \in LinkStates /\ before.feeding = link.feeding /\ (before.sent => link.sent)
      /\ before.clear = (link.clear /\ ~drains)
  BY <1>1, <1>3 DEF NewOwner, LinkStates
<1>6. before.sent => before.feeding
  BY <1>5 DEF ServeInv, FeederShapes
<1> HIDE DEF before
<1>7. /\ action \in FeedActions
      /\ ~LinkLive => action = IF before.feeding THEN "clear" ELSE "none"
      /\ LinkLive => action = "send" \/ (action = "none" /\ before.sent)
  BY DEF FeedAction, FeedActions
<1> HIDE DEF action
<1>8. /\ action = "none" => link' = before
      /\ action = "clear" => ~link'.feeding /\ link'.clear
      /\ action = "send" => link'.feeding
  BY <1>4, <1>5, <1>7 DEF FeedStep, LinkStates
<1>9. action # "send" => asked' = IF clears THEN Internal ELSE asked
  BY <1>4
<1>10. link.clear /\ ~before.clear => clears \/ (connected /\ (BleActive(FeedSlot) \/ avg.feeding))
  BY <1>5
<1> HIDE DEF clears
<1>11. CASE action = "send"
  BY <1>7, <1>8, <1>11
<1>12. CASE action = "clear"
  BY <1>5, <1>7, <1>8, <1>9, <1>12
<1>13. CASE action = "none"
  BY <1>5, <1>6, <1>7, <1>8, <1>9, <1>10, <1>13
<1> QED BY <1>7, <1>11, <1>12, <1>13 DEF FeedActions

\* So does the feeder of the average.
LEMMA AverageFeeds ==
  ASSUME ServeInv, NEW early \in BOOLEAN, AvgPass(early)
  PROVE  /\ Contributors = {} => ~avg'.feeding /\ (avg.feeding => avg'.clear)
         /\ Contributors = {} /\ ~avg.feeding /\ connected => ~avg'.clear
         /\ avg.feeding => avg'.feeding \/ avg'.clear
         /\ asked' = asked \/ asked' = Internal \/ avg'.feeding
         /\ avg.clear /\ ~avg'.clear /\ ~avg'.feeding =>
              asked' = Internal \/ (connected /\ HandedToSingle)
<1> DEFINE drains == avg.clear /\ connected
           clears == drains /\ ~HandedToSingle
           before == [avg EXCEPT !.clear = avg.clear /\ ~drains]
           live == Contributors # {}
           action == FeedAction(before, live, early)
           after == FeedStep(before, action)
<1>1. avg \in AvgStates /\ connected \in BOOLEAN
  BY TypesNamed DEF ServeInv, RoomInv
<1>2. (avg.clear /\ ~drains) \in BOOLEAN
  OBVIOUS
<1>3. before \in AvgStates /\ before.feeding = avg.feeding
      /\ before.clear = (avg.clear /\ ~drains)
  BY <1>1, <1>2 DEF AvgStates
<1>4. avg' = [after EXCEPT !.quiet = Passed(after.quiet)]
      /\ asked' = CASE action = "send" -> Contributors
                    [] OTHER -> IF clears THEN Internal ELSE asked
  BY DEF AvgPass
<1>5. avg.clear /\ ~before.clear => clears \/ (connected /\ HandedToSingle)
  BY <1>3
<1> HIDE DEF before
<1>6. /\ action \in FeedActions
      /\ ~live => action = IF before.feeding THEN "clear" ELSE "none"
      /\ live => action # "clear"
  BY DEF FeedAction, FeedActions
<1> HIDE DEF action
<1>7. /\ after \in AvgStates
      /\ action = "none" => after = before
      /\ action = "clear" => ~after.feeding /\ after.clear
      /\ action = "send" => after.feeding
  BY <1>3, <1>6, Bounds DEF FeedStep, AvgStates, FeedActions
<1> HIDE DEF after
<1>8. avg'.feeding = after.feeding /\ avg'.clear = after.clear
  BY <1>4, <1>7 DEF AvgStates
<1>9. action # "send" => asked' = IF clears THEN Internal ELSE asked
  BY <1>4
<1> HIDE DEF clears
<1>10. CASE action = "send"
  BY <1>6, <1>7, <1>8, <1>10
<1>11. CASE action = "clear"
  BY <1>3, <1>6, <1>7, <1>8, <1>9, <1>11
<1>12. CASE action = "none"
  BY <1>3, <1>5, <1>6, <1>7, <1>8, <1>9, <1>12
<1> QED BY <1>6, <1>10, <1>11, <1>12 DEF FeedActions

\* The feeder of the dials hands the register on, or clears it.
LEMMA LinkPassHands ==
  ASSUME ~MidPass, HandInv, NEW early \in BOOLEAN, LinkPass(early), ServeInv'
  PROVE  HandInv'
<1>1. /\ pc = "link" /\ pc' = "avg"
      /\ UNCHANGED <<sel, target, heard, entry, bleOn, connected, ble, avg, strayed, calm>>
      /\ calm \in 0 .. Keepalive + 2
  BY TypesNamed DEF LinkPass, HandInv, ServeInv, RoomInv
<1>2. /\ Wanted' = Wanted /\ LinkLive' = LinkLive
      /\ BleActive(FeedSlot)' = BleActive(FeedSlot)
  BY <1>1, ViewsKept, WantedKept
<1>3. /\ LinkLive => link'.feeding
      /\ ~LinkLive => ~link'.feeding /\ (link.feeding => link'.clear)
      /\ ~LinkLive /\ ~link.feeding /\ connected => ~link'.clear
      /\ asked' = asked \/ asked' = Internal \/ link'.feeding
      /\ link.clear /\ ~link'.clear /\ ~link'.feeding =>
           asked' = Internal \/ (connected /\ (BleActive(FeedSlot) \/ avg.feeding))
  BY LinkFeeds DEF HandInv
<1>4. SampleNow' /\ SentIsOwned' /\ OwnerListens'
  BY <1>1 DEF HandInv, SampleNow, SentIsOwned, OwnerListens
<1>5. connected /\ BleActive(FeedSlot) => ble.owns \/ strayed
  BY <1>1 DEF HandInv, LiveAreFed
<1>6. ValueIsOwned'
  BY <1>1, <1>3, <1>5 DEF HandInv, ValueIsOwned
<1>7. LiveAreFed'
  BY <1>1, <1>2, <1>3, <1>5 DEF LiveAreFed
<1>8. Wanted = {} => ~LinkLive
  BY NobodyIs
<1>9. FeedersLetGo' /\ ClearsAreDone'
  BY <1>1, <1>2, <1>3, <1>8 DEF HandInv, FeedersLetGo, ClearsAreDone
<1> QED BY <1>4, <1>6, <1>7, <1>9 DEF HandInv

\* The feeder of the average does so too, and counts the pass.
LEMMA PassEndHands ==
  ASSUME ~MidPass, HandInv, NEW early \in BOOLEAN, AvgPass(early), ServeInv'
  PROVE  HandInv'
<1>1. /\ pc = "avg" /\ pc' = "idle"
      /\ ble' = [ble EXCEPT !.quiet = Passed(ble.quiet)]
      /\ link' = [link EXCEPT !.quiet = Passed(link.quiet)]
      /\ heard' = [s \in Slots |-> Ripened(heard[s])]
      /\ entry' = [d \in Dials |-> Ripened(entry[d])]
      /\ calm' = (IF calm < Keepalive + 2 THEN calm + 1 ELSE calm)
      /\ UNCHANGED <<sel, target, bonded, bleOn, connected, sample, strayed>>
  BY DEF AvgPass
<1>2. calm \in 0 .. Keepalive + 2 /\ ble \in BleStates /\ link \in LinkStates
  BY TypesNamed DEF HandInv, ServeInv, RoomInv
<1>3. Wanted' = Wanted /\ LinkLive' = LinkLive
  <2>1. \A age : Live(Ripened(age)) <=> Live(age)
    BY DEF Live, Ripened
  <2> QED BY <1>1, <2>1, WantedKept
<1>4. /\ ble'.owns = ble.owns /\ ble'.sent = ble.sent /\ ble'.clear = ble.clear
      /\ ble'.prev = ble.prev /\ ble'.reverted = ble.reverted
      /\ link'.clear = link.clear /\ link'.feeding = link.feeding
  BY <1>1, <1>2 DEF BleStates, LinkStates
<1>5. /\ Contributors = {} => ~avg'.feeding /\ (avg.feeding => avg'.clear)
      /\ Contributors = {} /\ ~avg.feeding /\ connected => ~avg'.clear
      /\ avg.feeding => avg'.feeding \/ avg'.clear
      /\ asked' = asked \/ asked' = Internal \/ avg'.feeding
      /\ avg.clear /\ ~avg'.clear /\ ~avg'.feeding =>
           asked' = Internal \/ (connected /\ HandedToSingle)
  BY AverageFeeds DEF HandInv
<1>6. connected /\ HandedToSingle => ble.owns \/ strayed \/ link.feeding
  BY <1>1 DEF HandInv, LiveAreFed, HandedToSingle, LinkLive
<1>7. ValueIsOwned'
  BY <1>1, <1>4, <1>5, <1>6 DEF HandInv, ValueIsOwned
<1>8. SentIsOwned'
  BY <1>1, <1>4 DEF HandInv, SentIsOwned
<1>9. OwnerListens'
  <2>1. \A s \in Slots : heard[s] # "never" => heard'[s] # "never"
    BY <1>1 DEF Ripened
  <2>2. ble.prev # None => ble.prev \in Slots
    BY <1>2 DEF BleStates
  <2> QED BY <1>1, <1>4, <2>1, <2>2 DEF HandInv, OwnerListens
<1>10. SampleNow' /\ LiveAreFed'
  BY <1>1 DEF SampleNow, LiveAreFed
<1>11. Wanted = {} => Contributors = {}
  BY NobodyIs
<1>12. FeedersLetGo'
  BY <1>1, <1>3, <1>4, <1>5, <1>11 DEF HandInv, FeedersLetGo
<1>13. calm' >= 2 => calm >= 1
  BY <1>1, <1>2, KeepaliveAssumption
<1>14. ClearsAreDone'
  BY <1>1, <1>3, <1>4, <1>5, <1>11, <1>13 DEF HandInv, FeedersLetGo, ClearsAreDone
<1> QED BY <1>7, <1>8, <1>9, <1>10, <1>12, <1>14 DEF HandInv

\* A step keeps every value in somebody's hands.
LEMMA HandStep ==
  ASSUME ~MidPass, HandInv, [Next]_vars, ServeInv'
  PROVE  HandInv'
<1>1. CASE Next
  BY <1>1, OutsideHands, PreparationHands, BleFeedHands, LinkPassHands, PassEndHands
     DEF Next, Pass
<1>2. CASE UNCHANGED vars
  <2>1. UNCHANGED <<sel, target, heard, entry, bleOn, connected, ble, link, avg, pc, sample,
                    asked, strayed, calm>>
    BY <1>2 DEF vars
  <2>2. /\ Wanted' = Wanted /\ LinkLive' = LinkLive
        /\ FeedSlot' = FeedSlot /\ BleActive(FeedSlot)' = BleActive(FeedSlot)
    BY <2>1, ViewsKept, WantedKept
  <2> QED BY <2>1, <2>2
          DEF HandInv, SampleNow, ValueIsOwned, SentIsOwned, OwnerListens, LiveAreFed,
              FeedersLetGo, ClearsAreDone
<1> QED BY <1>1, <1>2

\* Where no command comes in the middle of a pass, the register follows the
\* selection both ways: to the live sensors that are selected, and back to the
\* unit's own when there is none, except for the two ways in which Bluetooth
\* loses a value (ble_sensor.cpp 546-682, link_sensor.cpp 178-247, room_avg.cpp
\* 32-137, room_feed.h 30-67).
THEOREM RegisterIsFollowed ==
  ASSUME ~MidPass
  PROVE  Spec => []RegisterFollows
<1>1. Init /\ ServeInv => HandInv
  BY DEF Init, HandInv, SampleNow, ValueIsOwned, SentIsOwned, OwnerListens, LiveAreFed,
         FeedersLetGo, ClearsAreDone
<1>2. HandInv /\ [Next]_vars /\ ServeInv' => HandInv'
  BY HandStep
<1>3. HandInv => HandedBack
  <2> SUFFICES ASSUME HandInv, calm = Keepalive + 2, connected, Wanted = {}, ~strayed
               PROVE  asked \in {Internal, Untouched}
    BY DEF HandedBack
  <2>1. calm >= 1 /\ calm >= 2
    BY KeepaliveAssumption
  <2>2. ~ble.owns /\ ~link.feeding /\ ~avg.feeding /\ ~link.clear /\ ~avg.clear
    BY <2>1 DEF HandInv, FeedersLetGo, ClearsAreDone
  <2>3. ~LinkLive
    BY NobodyIs
  <2> QED BY <2>2, <2>3 DEF HandInv, ValueIsOwned
<1>4. Spec => []HandInv
  BY <1>1, <1>2, ServeInvHolds, PTL DEF Spec
<1>5. ValueFollows /\ HandedBack => RegisterFollows
  BY DEF RegisterFollows
<1> QED BY <1>3, <1>4, <1>5, LiveSensorsAreFollowed, PTL
===============================================================================
