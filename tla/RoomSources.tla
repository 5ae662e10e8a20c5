----------------------------- MODULE RoomSources -----------------------------
(***************************************************************************)
(* Who feeds the heat pump its room temperature: up to three Bluetooth     *)
(* sensors (ble_sensor.cpp), the dials of Serin Link (link_sensor.cpp), or *)
(* an average of them (room_avg.cpp).  Each of the three keeps its own     *)
(* feeding state and its own deferred clear of the one register in the     *)
(* unit; once a second the main task runs them one after the other, while  *)
(* the web server, the dials and the Bluetooth host change the selection   *)
(* and the readings.  A temperature is modelled by the sensors it was made *)
(* from; the driver's side of the register is in Cn105Link.                *)
(***************************************************************************)
EXTENDS Integers, FiniteSets

CONSTANTS
  Sensors,     \* Bluetooth addresses
  Dials,       \* dials of Serin Link, every one with a sensor
  NSlots,      \* ROOM_MAX_BLE_SENSORS (3)
  Keepalive,   \* passes after which an unchanged value is sent again (20)
  MidPass,     \* whether other tasks may act between the loops of one pass
  Burst,       \* whether the selection may change twice between two passes
  MaxEvents,   \* bound: changes from outside
  None

ASSUME NSlotsAssumption == NSlots \in Nat \ {0}
ASSUME KeepaliveAssumption == Keepalive \in Nat
ASSUME SourcesAssumption ==
  Sensors \cap Dials = {} /\ None \notin Sensors \cup Dials \cup (0 .. NSlots + 1)

VARIABLES
  sel,        \* settings: roomMode, roomSingle, the dial in roomSourceId, roomMembers
  target,     \* the address in each slot
  heard,      \* the age of each slot's temperature
  entry,      \* the age of each dial's, "unused" when the table has no entry
  bonded,     \* the dials in the bond table
  bleOn,      \* settings.bleEnabled
  connected,  \* CN105Controller::isConnected()
  ble,        \* ble_sensor.cpp's feeding state
  link,       \* link_sensor.cpp's
  avg,        \* room_avg.cpp's
  pc,         \* the loop the main task runs next
  sample,     \* what BleSensor::loop() read under its lock
  asked,      \* the sensors behind the last value the driver was given
  strayed,    \* history: Bluetooth was left with a value it will not take back
  calm,       \* completed passes since anything changed
  edited,     \* whether the selection was edited since the last pass
  events

vars == <<sel, target, heard, entry, bonded, bleOn, connected, ble, link, avg, pc,
          sample, asked, strayed, calm, edited, events>>

INTERNAL == 0           \* ROOM_MEMBER_INTERNAL, ROOM_MEMBER_LINK, ROOM_MEMBER_BLE0
LINK == 1
Slots == 2 .. NSlots + 1
AVERAGE == 1            \* the catalog's id for an average
Ages == {"never", "new", "fresh", "stale"}
Internal == {}          \* clearRemoteTemperature()
Untouched == {None}     \* this device has not written the register

TypeOK ==
  /\ sel \in [mode: {"single", "average"}, single: {INTERNAL, LINK} \cup Slots,
              pin: Dials \cup {None}, members: SUBSET ({LINK} \cup Slots)]
  /\ target \in [Slots -> Sensors \cup {None}]
  /\ heard \in [Slots -> Ages]
  /\ entry \in [Dials -> Ages \cup {"unused"}]
  /\ bonded \in SUBSET Dials
  /\ bleOn \in BOOLEAN /\ connected \in BOOLEAN
  /\ ble \in [prev: Slots \cup {None}, clear: BOOLEAN, newer: BOOLEAN, owns: BOOLEAN,
              reverted: BOOLEAN, sent: BOOLEAN, quiet: 0 .. Keepalive]
  /\ link \in [feeding: BOOLEAN, sent: BOOLEAN, clear: BOOLEAN, owner: Dials \cup {None},
               quiet: 0 .. Keepalive]
  /\ avg \in [feeding: BOOLEAN, sent: BOOLEAN, clear: BOOLEAN, quiet: 0 .. Keepalive]
  /\ pc \in {"idle", "ble", "feed", "link", "avg"}
  /\ asked \in {Untouched} \cup (SUBSET (Sensors \cup Dials))
  /\ calm \in 0 .. Keepalive + 2 /\ edited \in BOOLEAN /\ strayed \in BOOLEAN

---------------------------------------------------------------------------
(***************************************************************************)
(* What is selected, and what is live                                      *)
(***************************************************************************)
Live(age) == age \in {"new", "fresh"}
Known(age) == age \in {"new", "fresh", "stale"}

FeedSlot == IF sel.mode = "single" /\ sel.single \in Slots THEN sel.single ELSE None

\* BleSensor::isActive(); no slot is never active
BleActive(s) == bleOn /\ s \in Slots /\ Live(heard[s])

LinkSelected == sel.mode = "single" /\ sel.single = LINK

LiveDials == {d \in Dials : Live(entry[d])}

\* The dials behind selectedView(): the pinned one, else every live one.
LinkView == IF sel.pin = None THEN LiveDials ELSE {sel.pin} \cap LiveDials

LinkActive == LinkView # {}
HasSensor == \E d \in Dials : entry[d] # "unused"

Contributors ==
  IF sel.mode # "average" THEN {}
  ELSE (IF LINK \in sel.members THEN LiveDials ELSE {})
       \cup {target[s] : s \in {b \in Slots : b \in sel.members /\ BleActive(b)}}

\* The sensors that should be behind the register's value
Wanted ==
  CASE sel.mode = "average" -> Contributors
    [] LinkSelected -> LinkView
    [] OTHER -> IF BleActive(FeedSlot) THEN {target[FeedSlot]} ELSE {}

MemberAvailable(m) ==
  \/ m = INTERNAL
  \/ m = LINK /\ HasSensor
  \/ m \in Slots /\ target[m] # None

AverageSelectable ==
  Cardinality({s \in Slots : s \in sel.members /\ target[s] # None})
    + (IF LINK \in sel.members THEN Cardinality({d \in Dials : entry[d] # "unused"}) ELSE 0)
  >= 2

LegacySelectable(src) ==
  \/ src = "internal"
  \/ src = "link" /\ HasSensor
  \/ src = "ble" /\ \E s \in Slots : target[s] # None

\* room_single_from_legacy()
LegacySingle(src) ==
  IF src = "ble" /\ \E s \in Slots : target[s] # None
  THEN CHOOSE s \in Slots : target[s] # None /\ \A t \in Slots : t < s => target[t] = None
  ELSE IF src = "link" THEN LINK ELSE INTERNAL

\* save(): room_source_id_derived() keeps a dial only while Link is selected.
Saved(s) == IF s.mode = "single" /\ s.single = LINK THEN s ELSE [s EXCEPT !.pin = None]

\* room_catalog_build(): the entries a dial may choose
Selectable ==
  {INTERNAL} \cup (IF AverageSelectable THEN {AVERAGE} ELSE {})
    \cup {s \in Slots : target[s] # None}
    \cup {d \in bonded : entry[d] # "unused"}

---------------------------------------------------------------------------
(***************************************************************************)
(* One pass of the main task                                               *)
(***************************************************************************)
\* Mutant: any pin will do.
ReconciledPinned ==
  IF ~LinkSelected \/ sel.pin # None THEN sel
  ELSE IF Cardinality(bonded) = 1 THEN [sel EXCEPT !.pin = CHOOSE d \in bonded : TRUE]
  ELSE [sel EXCEPT !.single = INTERNAL, !.pin = None]

\* room_source_reconcile_catalog()
Reconciled ==
  IF ~LinkSelected \/ sel.pin \in bonded THEN sel
  ELSE IF Cardinality(bonded) = 1 THEN [sel EXCEPT !.pin = CHOOSE d \in bonded : TRUE]
  ELSE [sel EXCEPT !.single = INTERNAL, !.pin = None]

Reconcile ==
  /\ pc = "idle"
  /\ pc' = "ble"
  /\ sel' = Reconciled
  /\ calm' = IF Reconciled = sel THEN calm ELSE 0
  /\ UNCHANGED <<target, heard, entry, bonded, bleOn, connected, ble, link, avg, sample,
                 asked, strayed, edited, events>>

\* The part of BleSensor::loop() under the lock
BleSample ==
  /\ pc = "ble"
  /\ pc' = "feed"
  /\ sample' = IF FeedSlot = None THEN [slot |-> None, from |-> None, age |-> "never", on |-> bleOn]
               ELSE [slot |-> FeedSlot, from |-> target[FeedSlot], age |-> heard[FeedSlot],
                     on |-> bleOn]
  /\ ble' = [ble EXCEPT !.newer = FALSE]
  /\ UNCHANGED <<sel, target, heard, entry, bonded, bleOn, connected, link, avg, asked, strayed,
                 calm, edited, events>>

\* requestClear(): newer than what the running pass has sampled
RequestClear(b) == [b EXCEPT !.clear = TRUE, !.newer = TRUE]

\* Mutant: a slot without a reading inherits the old slot's value.
SlotMovedOnly(b) ==
  IF sample.slot = b.prev THEN b
  ELSE [b EXCEPT !.prev = sample.slot, !.quiet = Keepalive, !.sent = FALSE, !.reverted = FALSE]

\* The selected slot is another one than in the last pass.
SlotMoved(b) ==
  LET reset == [b EXCEPT !.prev = sample.slot, !.quiet = Keepalive, !.sent = FALSE,
                         !.reverted = FALSE]
  IN  IF sample.slot = b.prev THEN b
      ELSE IF Live(sample.age) THEN reset ELSE RequestClear(reset)

BleMaySend(b) ==
  Live(sample.age) /\ connected /\ bleOn /\ ~b.newer /\ sample.slot = FeedSlot

BleSent(b) ==
  [b EXCEPT !.clear = FALSE, !.reverted = FALSE, !.owns = TRUE, !.quiet = 0, !.sent = TRUE]

\* The stale watchdog
Watched(b) ==
  IF sample.slot # None /\ sample.age = "stale" /\ ~b.reverted
  THEN RequestClear([b EXCEPT !.reverted = TRUE]) ELSE b

\* Mutant: the register is cleared although a wall controller may have written it.
DrainsUnowned(b) == b.clear /\ connected /\ ~(LinkSelected /\ LinkActive) /\ ~avg.feeding

\* drainPendingClear(): whether the register is cleared
Drains(b) == b.clear /\ b.owns /\ connected /\ ~(LinkSelected /\ LinkActive) /\ ~avg.feeding

Drained(b) ==
  IF ~b.clear THEN b
  ELSE IF ~b.owns THEN [b EXCEPT !.clear = FALSE]
  ELSE IF ~connected THEN b
  ELSE [b EXCEPT !.clear = FALSE, !.owns = FALSE, !.sent = @ /\ ~Drains(b)]

\* The register is left to Link or the average, and the value still counts as sent.
SentUnowned(b) == b.clear /\ b.owns /\ connected /\ ~Drains(b) /\ b.sent

\* The rest of BleSensor::loop(); early: the value has changed.
BleFeed(early) ==
  LET moved == IF sample.on THEN SlotMoved(ble) ELSE ble
      sends == /\ sample.on /\ BleMaySend(moved)
               /\ moved.clear \/ ~moved.sent \/ moved.quiet = Keepalive \/ early
      fed == IF sends THEN BleSent(moved) ELSE moved
      seen == IF sample.on THEN Watched(fed) ELSE fed
  IN  /\ pc = "feed"
      /\ pc' = "link"
      /\ ble' = Drained(seen)
      /\ asked' = IF Drains(seen) THEN Internal ELSE IF sends THEN {sample.from} ELSE asked
      /\ strayed' = (~sends /\ ~Drains(seen) /\ (strayed \/ SentUnowned(seen)))
      /\ UNCHANGED <<sel, target, heard, entry, bonded, bleOn, connected, link, avg, sample,
                     calm, edited, events>>

\* room_feed_step(): what the feeder does, and how it goes on
FeedAction(f, live, early) ==
  CASE ~live -> IF f.feeding THEN "clear" ELSE "none"
    [] OTHER -> IF ~f.sent \/ f.quiet = Keepalive \/ early THEN "send" ELSE "none"

FeedStep(f, action) ==
  CASE action = "clear" -> [f EXCEPT !.feeding = FALSE, !.sent = FALSE, !.clear = TRUE]
    [] action = "send" -> [f EXCEPT !.feeding = TRUE, !.sent = TRUE, !.clear = FALSE, !.quiet = 0]
    [] OTHER -> f

\* A change of the pinned dial is a new feeding episode.
NewOwner(f) == IF f.owner = sel.pin THEN f ELSE [f EXCEPT !.owner = sel.pin, !.sent = FALSE]

LinkPass(early) ==
  LET drains == link.clear /\ connected
      clears == drains /\ ~BleActive(FeedSlot) /\ ~avg.feeding
      before == NewOwner([link EXCEPT !.clear = @ /\ ~drains])
      action == FeedAction(before, LinkSelected /\ LinkActive, early)
  IN  /\ pc = "link"
      /\ pc' = "avg"
      /\ link' = FeedStep(before, action)
      /\ asked' = CASE action = "send" -> LinkView
                    [] OTHER -> IF clears THEN Internal ELSE asked
      /\ UNCHANGED <<sel, target, heard, entry, bonded, bleOn, connected, ble, avg, sample,
                     strayed, calm, edited, events>>

Passed(n) == IF n < Keepalive THEN n + 1 ELSE n
Ripened(age) == IF age = "new" THEN "fresh" ELSE age

HandedToSingle == (LinkSelected /\ LinkActive) \/ BleActive(FeedSlot)

\* RoomAvg::loop(), the last of the pass
AvgPass(early) ==
  LET drains == avg.clear /\ connected
      clears == drains /\ ~HandedToSingle
      before == [avg EXCEPT !.clear = @ /\ ~drains]
      action == FeedAction(before, Contributors # {}, early)
      after == FeedStep(before, action)
  IN  /\ pc = "avg"
      /\ pc' = "idle"
      /\ avg' = [after EXCEPT !.quiet = Passed(@)]
      /\ ble' = [ble EXCEPT !.quiet = Passed(@)]
      /\ link' = [link EXCEPT !.quiet = Passed(@)]
      /\ asked' = CASE action = "send" -> Contributors
                    [] OTHER -> IF clears THEN Internal ELSE asked
      /\ heard' = [s \in Slots |-> Ripened(heard[s])]
      /\ entry' = [d \in Dials |-> Ripened(entry[d])]
      /\ calm' = IF calm < Keepalive + 2 THEN calm + 1 ELSE calm
      /\ edited' = FALSE
      /\ UNCHANGED <<sel, target, bonded, bleOn, connected, sample, strayed, events>>

---------------------------------------------------------------------------
(***************************************************************************)
(* The Bluetooth host, the dials and the driver                            *)
(***************************************************************************)
Outside == pc = "idle" \/ MidPass

Disturbs ==
  /\ events < MaxEvents
  /\ events' = events + 1
  /\ calm' = 0

\* A step of another task, or of the main task between two passes
Changes == Outside /\ Disturbs /\ UNCHANGED edited
ChangesOnMain == pc = "idle" /\ Disturbs /\ UNCHANGED edited

\* A command that edits the selection
Edits ==
  /\ Burst \/ ~edited
  /\ edited' = TRUE
  /\ Disturbs

feeders == <<ble, link, avg>>

\* gap_event_cb(): a temperature from the address in a slot
Advertise(s) ==
  /\ Changes
  /\ bleOn /\ target[s] # None
  /\ \A t \in Slots : t < s => target[t] # target[s]
  /\ heard' = [heard EXCEPT ![s] = "new"]
  /\ ble' = IF s = FeedSlot THEN [ble EXCEPT !.reverted = FALSE] ELSE ble
  /\ UNCHANGED <<sel, target, entry, bonded, bleOn, connected, link, avg,
                 pc, sample, asked, strayed>>

\* A reading outlives roomStaleTimeoutS, many passes after it was new.
GoesStale(s) ==
  /\ Changes
  /\ heard[s] = "fresh"
  /\ heard' = [heard EXCEPT ![s] = "stale"]
  /\ UNCHANGED <<sel, target, entry, bonded, bleOn, connected, feeders,
                 pc, sample, asked, strayed>>

DialGoesStale(d) ==
  /\ Changes
  /\ entry[d] = "fresh"
  /\ entry' = [entry EXCEPT ![d] = "stale"]
  /\ UNCHANGED <<sel, target, heard, bonded, bleOn, connected, feeders,
                 pc, sample, asked, strayed>>

\* LinkSensor::feed(), with a temperature or without one
Fed(d, hasTemp) ==
  entry' = [entry EXCEPT ![d] = IF hasTemp THEN "new" ELSE IF @ = "unused" THEN "never" ELSE @]

\* h_room_sensor(): a bonded dial reports, and may choose a source.
RoomSensor(d, hasTemp, want) ==
  /\ IF want = "none" THEN ChangesOnMain ELSE pc = "idle" /\ Edits
  /\ d \in bonded
  /\ Fed(d, hasTemp)
  /\ sel' = CASE want = "link" ->
                    Saved([sel EXCEPT !.mode = "single", !.single = LINK, !.pin = d])
              [] want \in {"internal", "ble"} /\ LegacySelectable(want) ->
                    Saved([sel EXCEPT !.mode = "single", !.single = LegacySingle(want)])
              [] OTHER -> sel
  /\ UNCHANGED <<target, heard, bonded, bleOn, connected, feeders, pc, sample, asked, strayed>>

\* h_room_source_set(), with the revision of the present catalog
RoomSourceSet(id) ==
  /\ pc = "idle" /\ Edits
  /\ id \in Selectable
  /\ sel' = CASE id = AVERAGE -> Saved([sel EXCEPT !.mode = "average"])
              [] id \in Dials ->
                    Saved([sel EXCEPT !.mode = "single", !.single = LINK, !.pin = id])
              [] OTHER -> Saved([sel EXCEPT !.mode = "single", !.single = id])
  /\ UNCHANGED <<target, heard, entry, bonded, bleOn, connected, feeders,
                 pc, sample, asked, strayed>>

Bond(d) ==
  /\ ChangesOnMain
  /\ d \notin bonded
  /\ bonded' = bonded \cup {d}
  /\ UNCHANGED <<sel, target, heard, entry, bleOn, connected, feeders,
                 pc, sample, asked, strayed>>

\* One dial, or all of them: then a Link selection goes too.
Forget(gone) ==
  /\ ChangesOnMain
  /\ gone # {} /\ gone \subseteq bonded
  /\ bonded' = bonded \ gone
  /\ entry' = [d \in Dials |-> IF d \in gone THEN "unused" ELSE entry[d]]
  /\ UNCHANGED <<target, heard, bleOn, connected, feeders, pc, sample, asked, strayed>>

ForgetDial(d) == Forget({d}) /\ UNCHANGED sel

ForgetAll ==
  /\ Forget(bonded)
  /\ sel' = IF LinkSelected THEN Saved([sel EXCEPT !.single = INTERNAL]) ELSE sel

Link(up) ==
  /\ Changes
  /\ connected' = up /\ connected # up
  /\ UNCHANGED <<sel, target, heard, entry, bonded, bleOn, feeders, pc, sample, asked, strayed>>

---------------------------------------------------------------------------
(***************************************************************************)
(* The web server's commands (web_ws.cpp)                                  *)
(***************************************************************************)
\* pinSoleLinkOrReject()
Sole(d) == bonded = {d}

\* {"roomSource": src} of an older page
WebRoomSource(src) ==
  /\ Outside /\ Edits
  /\ LegacySelectable(src)
  /\ IF src = "link"
     THEN \E d \in Dials :
            /\ Sole(d)
            /\ sel' = Saved([sel EXCEPT !.mode = "single", !.single = LINK, !.pin = d])
     ELSE sel' = Saved([sel EXCEPT !.mode = "single", !.single = LegacySingle(src)])
  /\ UNCHANGED <<target, heard, entry, bonded, bleOn, connected, feeders,
                 pc, sample, asked, strayed>>

Keep == None

\* {"roomMode": mode, "roomSingle": single}, either of them optional, one save
WebRoom(mode, single) ==
  LET accepted == /\ single # Keep
                  /\ MemberAvailable(single)
                  /\ single = LINK => \E d \in Dials : Sole(d)
      pinned == IF accepted /\ single = LINK THEN CHOOSE d \in Dials : Sole(d) ELSE sel.pin
  IN  /\ Outside /\ Edits
      /\ sel' = Saved([sel EXCEPT !.mode = IF mode = Keep THEN @ ELSE mode,
                                  !.single = IF accepted THEN single ELSE @,
                                  !.pin = pinned])
      /\ UNCHANGED <<target, heard, entry, bonded, bleOn, connected, feeders, pc, sample,
                     asked, strayed>>

\* {"roomMembers": ...}: what is not there is stripped.
WebRoomMembers(members) ==
  /\ Outside /\ Edits
  /\ sel' = Saved([sel EXCEPT !.members = {m \in members : MemberAvailable(m)}])
  /\ UNCHANGED <<target, heard, entry, bonded, bleOn, connected, feeders,
                 pc, sample, asked, strayed>>

\* Mutant: a cleared slot stays the selection.
LeftSelected(s, address) == sel.single
\* A cleared slot cannot stay selected; a replaced sensor's slot can.
SingleAfter(s, address) == IF address = None /\ sel.single = s THEN INTERNAL ELSE sel.single

\* The sensor of the slot that was fed is replaced after another source was
\* selected, and before the loop has noticed that.
InheritsAfter(s) == s = ble.prev /\ s # FeedSlot /\ ble.owns /\ ~ble.clear

\* BleSensor::setSensor() with another address
SetSensor(s, address) ==
  LET hadReading == heard[s] # "never"
      cleared == IF hadReading /\ s = FeedSlot THEN RequestClear(ble) ELSE ble
  IN  /\ Outside /\ Edits
      /\ target[s] # address
      /\ target' = [target EXCEPT ![s] = address]
      /\ heard' = [heard EXCEPT ![s] = "never"]
      /\ ble' = IF s = FeedSlot THEN [cleared EXCEPT !.reverted = FALSE] ELSE cleared
      /\ sel' = Saved([sel EXCEPT !.members = @ \ {s}, !.single = SingleAfter(s, address)])
      /\ strayed' = (strayed \/ InheritsAfter(s))
      /\ UNCHANGED <<entry, bonded, bleOn, connected, link, avg, pc, sample, asked>>

\* {"bleAddMac": address}: the first free slot, unless the address is listed
AddSensor(address) ==
  /\ \A s \in Slots : target[s] # address
  /\ \E s \in Slots : /\ target[s] = None
                      /\ \A t \in Slots : t < s => target[t] # None
                      /\ SetSensor(s, address)

\* {"bleAddr": address}: the primary slot's sensor is replaced, or cleared.
SetAddr(address) ==
  LET fed == IF FeedSlot # None /\ target[FeedSlot] # None THEN {FeedSlot} ELSE {}
      primary == {s \in Slots : target[s] # None /\ \A t \in Slots : t < s => target[t] = None}
  IN  \E s \in IF fed # {} THEN fed ELSE IF primary # {} THEN primary ELSE {2} :
        SetSensor(s, address)

DelSensor(s) == SetSensor(s, None)

\* setBleEnabled()
SetBleEnabled(on) ==
  /\ Outside /\ Edits
  /\ bleOn # on
  /\ bleOn' = on
  /\ ble' = IF on THEN ble ELSE [RequestClear(ble) EXCEPT !.reverted = FALSE]
  /\ UNCHANGED <<sel, target, heard, entry, bonded, connected, link, avg,
                 pc, sample, asked, strayed>>

---------------------------------------------------------------------------
\* After a start: the selection as it was stored, which an older release may
\* have left on Link without a dial, and no reading
Init ==
  /\ sel \in [mode: {"single", "average"}, single: {INTERNAL, LINK} \cup Slots,
              pin: Dials \cup {None}, members: {{LINK} \cup Slots}]
  /\ sel = Saved(sel)
  /\ target \in [Slots -> Sensors \cup {None}]
  /\ \A s, t \in Slots : t < s /\ target[s] # None => target[t] \notin {None, target[s]}
  /\ sel.single \in Slots => target[sel.single] # None
  /\ heard = [s \in Slots |-> "never"]
  /\ entry = [d \in Dials |-> "unused"]
  /\ bonded \in SUBSET Dials
  /\ bleOn \in BOOLEAN
  /\ connected \in BOOLEAN
  /\ ble = [prev |-> FeedSlot, clear |-> FALSE, newer |-> FALSE, owns |-> FALSE,
            reverted |-> FALSE, sent |-> FALSE, quiet |-> Keepalive]
  /\ link = [feeding |-> FALSE, sent |-> FALSE, clear |-> FALSE, owner |-> None,
             quiet |-> Keepalive]
  /\ avg = [feeding |-> FALSE, sent |-> FALSE, clear |-> FALSE, quiet |-> Keepalive]
  /\ pc = "idle"
  /\ sample = [slot |-> None, from |-> None, age |-> "never", on |-> FALSE]
  /\ asked = Untouched /\ strayed = FALSE
  /\ calm = 0 /\ edited = FALSE /\ events = 0

Pass ==
  \/ Reconcile \/ BleSample
  \/ \E early \in BOOLEAN : BleFeed(early) \/ LinkPass(early) \/ AvgPass(early)

Wants == {"none", "internal", "link", "ble"}

FromSensors ==
  \/ \E s \in Slots : Advertise(s) \/ GoesStale(s)
  \/ \E d \in Dials : DialGoesStale(d) \/ Bond(d) \/ ForgetDial(d)
  \/ \E d \in Dials, hasTemp \in BOOLEAN, want \in Wants : RoomSensor(d, hasTemp, want)
  \/ \E id \in {INTERNAL, AVERAGE} \cup Slots \cup Dials : RoomSourceSet(id)
  \/ ForgetAll
  \/ \E up \in BOOLEAN : Link(up)

FromWeb ==
  \/ \E src \in {"internal", "link", "ble"} : WebRoomSource(src)
  \/ \E mode \in {"single", "average"} \cup {Keep}, single \in {INTERNAL, LINK, Keep} \cup Slots :
       WebRoom(mode, single)
  \/ \E members \in SUBSET ({LINK} \cup Slots) : WebRoomMembers(members)
  \/ \E address \in Sensors : AddSensor(address)
  \/ \E address \in Sensors \cup {None} : SetAddr(address)
  \/ \E s \in Slots : DelSensor(s)
  \/ \E on \in BOOLEAN : SetBleEnabled(on)

Next == Pass \/ FromSensors \/ FromWeb

Spec == Init /\ [][Next]_vars

---------------------------------------------------------------------------
(***************************************************************************)
(* Properties                                                              *)
(***************************************************************************)
\* Once nothing has changed for a pass more than the keepalive, and the link
\* is up, the driver's last order is the value of the selected live sensors
\* and of nobody else's.  The three feeders (ble_sensor.cpp 546-682,
\* link_sensor.cpp 178-247, room_avg.cpp 32-137) hand the register to each
\* other through clears that each may defer, drop and overtake.
ValueFollows == calm = Keepalive + 2 /\ connected /\ Wanted # {} => asked = Wanted

\* And when none of them is live it is the internal thermistor, "the fallback
\* for every other source" (README.md 285), unless Bluetooth has strayed.
HandedBack ==
  calm = Keepalive + 2 /\ connected /\ Wanted = {} /\ ~strayed
    => asked \in {Internal, Untouched}

\* The register follows the selection, live or not.
RegisterFollows == ValueFollows /\ HandedBack

\* A register this device has not written since it started is never cleared:
\* it may hold a wall controller's value (ble_sensor.cpp 556-561, and "a
\* source that was never feeding must never clear at all", room_feed.h 9-12).
ForeignKept == [][asked = Untouched => asked' # Internal]_vars

\* A selected slot has a sensor, across every order of choices, deletions and
\* replacements on two tasks (ble_sensor.cpp 762-767, settings.cpp 806-823).
SelectionExists == sel.single \in Slots => target[sel.single] # None

\* A selected dial is bonded, one pass after anything changed, or two when a
\* command may come in the middle of a pass (espnow_link.cpp 746-786): a
\* forgotten dial cannot keep the register.
Settled == IF MidPass THEN 1 ELSE 0
PinIsBonded == calm > Settled /\ LinkSelected => sel.pin \in bonded

\* What is selected is there to be heard.
SelectionHolds == SelectionExists /\ PinIsBonded

===============================================================================
