------------------------------ MODULE HomeKitTiles ------------------------------
(***************************************************************************)
(* The heat pump's tiles in Home (homekit_thermostat.cpp, homekit_fan.cpp, *)
(* homekit_switches.cpp).  The HAP server's task writes: a write becomes   *)
(* one command, and the characteristic takes what was written.  The main   *)
(* task keeps the tiles true every two seconds: the fan and the switches   *)
(* itself, the thermostat by a callback queued to the server's task.       *)
(* The unit is what getEffectiveState() shows of it.                       *)
(***************************************************************************)
EXTENDS Naturals, Sequences

CONSTANTS
  InitialUnit,   \* what the unit is doing at first
  Remotes,       \* what a remote, or the unit's own answer, makes of it
  Targets,       \* setpoints written
  Percents,      \* fan speeds written
  OnPreset,      \* the vane position that the Vane switch turns on
  OffPreset,
  Boots,         \* the sets of services a boot may build
  MaxChanges, MaxWrites, MaxRefused, MaxLost  \* bounds

Services == {"thermostat", "fan", "fanAuto", "fanMode", "dryMode", "vane"}
Speeds == {"auto", "quiet", "1", "2", "3", "4"}

ASSUME TilesAssumption ==
  /\ Remotes \cup {InitialUnit} \subseteq
       [power: BOOLEAN, mode: {"heat", "cool", "dry", "fan", "auto"}, target: STRING, speed: Speeds, vane: STRING]
  /\ Targets \subseteq STRING /\ Percents \subseteq 0 .. 100
  /\ {OnPreset, OffPreset} \subseteq STRING
  /\ \A built \in Boots : "thermostat" \in built /\ built \subseteq Services
  /\ {MaxChanges, MaxWrites, MaxRefused, MaxLost} \subseteq Nat

VARIABLES
  eff,        \* the effective state
  healthy,
  tile,       \* of each tile: what it shows, and StatusActive
  syncing,    \* the main task: between reading the unit and setting the tile
  due,        \* the tiles this pass of the main loop has yet to visit
  writing,    \* the server's task: between the command and the characteristics
  queued,     \* s_publicationQueued
  work,       \* the callback is in the server's mailbox
  tilesSpent  \* the bounds used up

tileVars == <<eff, healthy, tile, syncing, due, writing, queued, work, tilesSpent>>

Tiles == DOMAIN tile

Count(what, bound) == tilesSpent[what] < bound /\ tilesSpent' = [tilesSpent EXCEPT ![what] = @ + 1]

---------------------------------------------------------------------------
(***************************************************************************)
(* What a tile shows of a state                                            *)
(***************************************************************************)
TargetState(e) == IF e.power /\ e.mode \in {"heat", "cool", "auto"} THEN e.mode ELSE "off"
Percent(speed) ==
  CASE speed = "quiet" -> 10 [] speed = "1" -> 30 [] speed = "2" -> 50 [] speed = "3" -> 70
    [] speed = "4" -> 100 [] OTHER -> 0
SpeedFor(percent) ==
  CASE percent <= 20 -> "quiet" [] percent <= 40 -> "1" [] percent <= 60 -> "2" [] percent <= 80 -> "3"
    [] OTHER -> "4"

ThermostatShown(e) == [state |-> TargetState(e), target |-> e.target]
FanShown(e) == [active |-> e.power, percent |-> IF e.power THEN Percent(e.speed) ELSE 0]
FanAutoShown(e) == [on |-> e.power /\ e.speed = "auto"]
FanModeShown(e) == [on |-> e.power /\ e.mode = "fan"]
DryModeShown(e) == [on |-> e.power /\ e.mode = "dry"]
VaneShown(e) == [on |-> e.vane = OnPreset]

Mirror(service, e) ==
  CASE service = "thermostat" -> ThermostatShown(e)
    [] service = "fan"        -> FanShown(e)
    [] service = "fanAuto"    -> FanAutoShown(e)
    [] service = "fanMode"    -> FanModeShown(e)
    [] service = "dryMode"    -> DryModeShown(e)
    [] OTHER                  -> VaneShown(e)

TilesInit ==
  /\ eff = InitialUnit /\ healthy = FALSE
  /\ \E built \in Boots : tile = [service \in built |-> [value |-> Mirror(service, [InitialUnit EXCEPT !.power = FALSE]), active |-> TRUE]]
  /\ syncing = <<>> /\ due = {} /\ writing = <<>> /\ queued = FALSE /\ work = FALSE
  /\ tilesSpent = [changes |-> 0, writes |-> 0, refused |-> 0, lost |-> 0]

---------------------------------------------------------------------------
(***************************************************************************)
(* The unit: remotes, answers, refusals; the link's health                 *)
(***************************************************************************)
Changed(e) ==
  /\ e # eff /\ Count("changes", MaxChanges)
  /\ eff' = e /\ UNCHANGED <<healthy, tile, syncing, due, writing, queued, work>>
HealthChanges ==
  /\ IF healthy THEN Count("changes", MaxChanges) ELSE UNCHANGED tilesSpent
  /\ healthy' = ~healthy /\ UNCHANGED <<eff, tile, syncing, due, writing, queued, work>>

---------------------------------------------------------------------------
(***************************************************************************)
(* The main task's sync of one tile: the state is read once, then shown.   *)
(***************************************************************************)
Visited == Tiles \ {"thermostat"}
SyncReads(service) ==
  /\ syncing = <<>> /\ service \in IF due = {} THEN Visited ELSE due
  /\ due' = (IF due = {} THEN Visited ELSE due) \ {service}
  /\ syncing' = <<service, healthy, eff>>
  /\ UNCHANGED <<eff, healthy, tile, writing, queued, work, tilesSpent>>
SyncSets ==
  /\ syncing # <<>>
  /\ LET service == syncing[1]
     IN  tile' = [tile EXCEPT ![service] = IF syncing[2] THEN [value |-> Mirror(service, syncing[3]), active |-> TRUE]
                                           ELSE [@ EXCEPT !.active = FALSE]]
  /\ syncing' = <<>>
  /\ UNCHANGED <<eff, healthy, due, writing, queued, work, tilesSpent>>

\* publish_thermostat(), in the server's task
Mirrored ==
  [tile EXCEPT !["thermostat"] = [value |-> IF healthy THEN Mirror("thermostat", eff) ELSE [@.value EXCEPT !.target = eff.target],
                                  active |-> healthy]]

\* homekit_reconcile_temperature_metadata(): one publication at a time.  The
\* submission may be refused; it may also be lost although it looks successful
\* (web_ws_transport.cpp 169-171).
Enqueue ==
  /\ ~queued
  /\ \/ queued' = TRUE /\ work' = TRUE /\ UNCHANGED tilesSpent
     \/ Count("refused", MaxRefused) /\ UNCHANGED <<queued, work>>
     \/ queued' = TRUE /\ Count("lost", MaxLost) /\ UNCHANGED work
  /\ UNCHANGED <<eff, healthy, tile, syncing, due, writing>>
\* Mutant: the flag comes down only when there was something to publish.
FlagAfterKept == IF Mirrored = tile THEN queued ELSE FALSE
FlagAfter == FALSE
PublishQueued ==
  /\ work /\ writing = <<>>
  /\ work' = FALSE /\ tile' = Mirrored /\ queued' = FlagAfter
  /\ UNCHANGED <<eff, healthy, syncing, due, writing, tilesSpent>>
\* thermostat_read_cb(): every read publishes first.
HomeReads ==
  /\ writing = <<>> /\ Mirrored # tile
  /\ tile' = Mirrored
  /\ UNCHANGED <<eff, healthy, syncing, due, writing, queued, work, tilesSpent>>

---------------------------------------------------------------------------
(***************************************************************************)
(* Writes.  A batch is the written characteristics in the order they came. *)
(***************************************************************************)
Keep == [power |-> "keep", mode |-> "keep", target |-> "keep", speed |-> "keep", vane |-> "keep"]
\* submit(), when it accepts
Commanded(cmd) ==
  [power |-> IF cmd.power = "keep" THEN eff.power ELSE cmd.power = "on",
   mode |-> IF cmd.mode = "keep" THEN eff.mode ELSE cmd.mode,
   target |-> IF cmd.target = "keep" THEN eff.target ELSE cmd.target,
   speed |-> IF cmd.speed = "keep" THEN eff.speed ELSE cmd.speed,
   vane |-> IF cmd.vane = "keep" THEN eff.vane ELSE cmd.vane]

Written(batch, name) == {i \in DOMAIN batch : batch[i][1] = name}
Value(batch, name) == batch[CHOOSE i \in Written(batch, name) : \A j \in Written(batch, name) : j <= i][2]
OnOff(yes) == IF yes THEN "on" ELSE "off"

\* fan_write_cb(): a speed counts if the unit is on, or is turned on by the same
\* batch; none at all turns it off.
FanPower(batch) == IF Written(batch, "active") = {} THEN eff.power ELSE Value(batch, "active")
FanCommand(batch) ==
  LET zero == Written(batch, "percent") # {} /\ Value(batch, "percent") = 0
  IN  IF zero THEN [Keep EXCEPT !.power = "off"]
      ELSE [Keep EXCEPT !.power = IF Written(batch, "active") = {} THEN "keep" ELSE OnOff(Value(batch, "active")),
                        !.speed = IF Written(batch, "percent") = {} \/ ~FanPower(batch) THEN "keep"
                                  ELSE SpeedFor(Value(batch, "percent"))]

\* thermostat_write_cb()
ThermostatCommand(batch) ==
  LET state == IF Written(batch, "state") = {} THEN "keep" ELSE Value(batch, "state")
  IN  [Keep EXCEPT !.power = IF state = "keep" THEN "keep" ELSE OnOff(state # "off"),
                   !.mode = IF state = "off" THEN "keep" ELSE state,
                   !.target = IF Written(batch, "target") = {} THEN "keep" ELSE Value(batch, "target")]

\* The switches' callbacks.  A mode's switch turned off turns the unit off; Fan
\* Auto means nothing to a unit that is off.
FanModeCommand(on) == [Keep EXCEPT !.power = OnOff(on), !.mode = IF on THEN "fan" ELSE "keep"]
DryModeCommand(on) == [Keep EXCEPT !.power = OnOff(on), !.mode = IF on THEN "dry" ELSE "keep"]
FanAutoCommand(on) == [Keep EXCEPT !.speed = IF ~eff.power THEN "keep" ELSE IF on THEN "auto" ELSE "2"]
VaneCommand(on) == [Keep EXCEPT !.vane = IF on THEN OnPreset ELSE OffPreset]

Pairs(first, second) ==
  {<<a>> : a \in first} \cup {<<b>> : b \in second} \cup {<<a, b>> : a \in first, b \in second}
    \cup {<<b, a>> : a \in first, b \in second}
Batches(service) ==
  CASE service = "fan" -> Pairs({<<"active", on>> : on \in BOOLEAN}, {<<"percent", p>> : p \in Percents})
    [] service = "thermostat" -> Pairs({<<"state", s>> : s \in {"off", "auto"}},
                                       {<<"target", t>> : t \in Targets})
    [] OTHER -> {<<<<"on", on>>>> : on \in BOOLEAN}
CommandOf(service, batch) ==
  CASE service = "fan" -> FanCommand(batch)
    [] service = "thermostat" -> ThermostatCommand(batch)
    [] service = "fanMode" -> FanModeCommand(Value(batch, "on"))
    [] service = "dryMode" -> DryModeCommand(Value(batch, "on"))
    [] service = "fanAuto" -> FanAutoCommand(Value(batch, "on"))
    [] OTHER -> VaneCommand(Value(batch, "on"))

\* The command: without health, or refused, nothing happens and the write fails.
Write(service, batch) ==
  /\ writing = <<>> /\ healthy /\ Count("writes", MaxWrites)
  /\ eff' = Commanded(CommandOf(service, batch))
  /\ writing' = <<service, batch, FanPower(batch) \/ CommandOf(service, batch).power = "off">>
  /\ UNCHANGED <<healthy, tile, syncing, due, queued, work>>

\* The characteristics: what was written, but for what the unit decides.
WriteShown ==
  /\ writing # <<>>
  /\ LET service == writing[1] batch == writing[2]
         Given(name, otherwise) == IF Written(batch, name) = {} THEN otherwise ELSE Value(batch, name)
         old == tile[service].value
         value == CASE service = "fan" ->
                         [active |-> IF Written(batch, "active") = {} THEN old.active ELSE eff.power,
                          percent |-> IF writing[3] THEN Given("percent", old.percent) ELSE old.percent]
                    [] service = "thermostat" ->
                         [state |-> Given("state", old.state), target |-> eff.target]
                    [] OTHER -> [on |-> Value(batch, "on")]
     IN  tile' = [tile EXCEPT ![service].value = value]
  /\ writing' = <<>>
  /\ UNCHANGED <<eff, healthy, syncing, due, queued, work, tilesSpent>>

TilesNext ==
  \/ \E e \in Remotes : Changed(e)
  \/ HealthChanges
  \/ \E service \in Visited : SyncReads(service)
  \/ SyncSets \/ Enqueue \/ PublishQueued \/ HomeReads
  \/ \E service \in Tiles : \E batch \in Batches(service) : Write(service, batch)
  \/ WriteShown

\* The main loop comes around to every tile; the server's task runs.
TilesFairness ==
  /\ WF_tileVars(\E service \in Visited : SyncReads(service)) /\ WF_tileVars(SyncSets) /\ WF_tileVars(Enqueue)
  /\ WF_tileVars(PublishQueued) /\ WF_tileVars(WriteShown)
TilesSpec == TilesInit /\ [][TilesNext]_tileVars
TilesFairSpec == TilesSpec /\ TilesFairness

---------------------------------------------------------------------------
(***************************************************************************)
(* Properties                                                              *)
(***************************************************************************)
\* Whatever was written, refused by the unit afterwards, shown too early by a
\* sync that had read the unit before the write, or changed at the wall: once
\* the unit rests, every tile comes to show it, and whether it is reachable.
TilesSettle ==
  <>[](\A service \in Tiles : /\ tile[service].active = healthy
                              /\ healthy => tile[service].value = Mirror(service, eff))

TilesTypeOK ==
  /\ eff.speed \in Speeds /\ Tiles \in Boots /\ (work => queued)
  /\ {healthy, queued, work} \subseteq BOOLEAN
===============================================================================
