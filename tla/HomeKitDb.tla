------------------------------- MODULE HomeKitDb -------------------------------
(***************************************************************************)
(* The accessory database that paired homes keep a copy of                 *)
(* (homekit_setup.cpp, homekit_services_glue.cpp, hk_service_slots.h,      *)
(* homekit_sensor_accessory.cpp).  A boot builds it from the settings; the *)
(* device records what it built, and asks the SDK for a new configuration  *)
(* number (c#) when that differs from the last record.  A home that sees a *)
(* new c# fetches the database again; until then it uses the old one.      *)
(***************************************************************************)
EXTENDS Naturals, FiniteSets

CONSTANTS
  Missing,         \* what a key that is not stored reads as
  Settings,        \* the settings an owner may have
  Temperatures,    \* fingerprints of the published ranges
  ThermostatLast,  \* the last IID of the thermostat, with both thresholds
  MaxEdits, MaxFailures, MaxStarts, MaxBoots  \* bounds

Optional == {"fan", "fanAuto", "fanMode", "dryMode"}

ASSUME DbAssumption ==
  /\ Settings \subseteq [mask: SUBSET {"fan", "dry"}, hidden: SUBSET Optional, vane: BOOLEAN,
                         single: BOOLEAN, sensor: BOOLEAN]
  /\ ThermostatLast \in Nat \ {0, 1}
  /\ {MaxEdits, MaxFailures, MaxStarts, MaxBoots} \subseteq Nat

VARIABLES
  cfg,       \* DeviceSettings, in RAM and flash
  bootCfg,   \* s_bootModeMask, s_bootHidden, s_bootVaneSwitch, autoSingleBoot()
  started,   \* hap_start() has succeeded
  live,      \* the database as built
  record,    \* hk-meta: svcShape, svcBuilt, tempMeta; each may be missing
  number,    \* c#
  home,      \* a paired home: the c# it knows, and its copy of the database
  paired,    \* homekitPaired, in the settings
  entries,   \* the SDK's controller entries in RAM
  erased,    \* s_pairingsReset
  overtaken, \* history: the database changed again before its record was made
  dbSpent    \* the bounds used up

dbVars == <<cfg, bootCfg, started, live, record, number, home, paired, entries, erased, overtaken, dbSpent>>
pairVars == <<paired, entries, erased>>

Pay(what, bound) == dbSpent[what] < bound /\ dbSpent' = [dbSpent EXCEPT ![what] = @ + 1]

---------------------------------------------------------------------------
(***************************************************************************)
(* What a boot builds                                                      *)
(***************************************************************************)
Available(mask) ==
  {"fan", "fanAuto"} \cup {s \in {"fanMode"} : "fan" \in mask} \cup {s \in {"dryMode"} : "dry" \in mask}
Built(c) == Available(c.mask) \ c.hidden

AcBuilt == live.temperature # Missing
NoDb == [services |-> {}, mask |-> {}, vane |-> FALSE, single |-> FALSE, sensor |-> FALSE, temperature |-> Missing]
DatabaseFor(c, temperature) ==
  [services |-> Built(c), mask |-> c.mask, vane |-> c.vane, single |-> c.single, sensor |-> c.sensor,
   temperature |-> temperature]

\* hk_slot_first_iid(): every optional service has its slot, built or not.
\* Mutant: the SDK's own numbering, in order of creation.
Slots == [fan |-> 0, fanAuto |-> 6, fanMode |-> 11, dryMode |-> 16, vane |-> 21]
InCreationOrder(db, service) ==
  LET before == {s \in db.services : Slots[s] < Slots[service]}
  IN  5 * Cardinality(before) + (IF "fan" \in before THEN 1 ELSE 0)
SlotOf(db, service) == Slots[service]
\* The thermostat of Single has two characteristics fewer.
FirstIid(db, service) == (IF db.single THEN ThermostatLast - 2 ELSE ThermostatLast) + 1 + SlotOf(db, service)
\* What a scene sets: Active and RotationSpeed of the fan, On of a switch
Drives(db, service) == {FirstIid(db, service) + 1} \cup {iid \in {FirstIid(db, service) + 2} : service = "fan"}
Switches(db) == db.services \cup {s \in {"vane"} : db.vane}

DbInit ==
  /\ cfg \in Settings /\ bootCfg = cfg
  /\ started = FALSE /\ live = NoDb
  /\ record = [shape |-> Missing, built |-> Missing, temperature |-> Missing]
  /\ number = 1 /\ home = [number |-> 0, db |-> NoDb]
  /\ paired = FALSE /\ entries = FALSE /\ erased = FALSE /\ overtaken = FALSE
  /\ dbSpent = [edits |-> 0, failures |-> 0, starts |-> 0, boots |-> 0]

---------------------------------------------------------------------------
(***************************************************************************)
(* The owner                                                               *)
(***************************************************************************)
Edit(c) ==
  /\ c # cfg /\ Pay("edits", MaxEdits) /\ cfg' = c
  /\ UNCHANGED <<bootCfg, started, live, record, number, home, pairVars, overtaken>>

---------------------------------------------------------------------------
(***************************************************************************)
(* store_service_shape(): told from the latches, and from whether the      *)
(* sensor is there                                                         *)
(***************************************************************************)
Shape(boot, db) == [mask |-> boot.mask, vane |-> boot.vane, single |-> boot.single, sensor |-> db.sensor]
Former == CHOOSE t \in Temperatures : TRUE  \* formerTemperatureMetadata
Read(key, otherwise) == IF record[key] = Missing THEN otherwise ELSE record[key]

\* Mutant: the services that were hidden are forgotten.
DiffersInShape(boot, db) ==
  Read("shape", Shape(boot, db)) # Shape(boot, db) \/ Read("temperature", Former) # db.temperature
Differs(boot, db) ==
  \/ Read("shape", Shape(boot, db)) # Shape(boot, db)
  \/ Read("built", Available(boot.mask)) # Built(boot)
  \/ Read("temperature", Former) # db.temperature

Incomplete == \E key \in DOMAIN record : record[key] = Missing
Unrecorded == started /\ (Differs(bootCfg, live) \/ Incomplete)

Fails(spent) == spent.failures < MaxFailures /\ dbSpent' = [spent EXCEPT !.failures = @ + 1]

\* A new c# is asked for first, which may be refused; the keys are written one
\* after the other, and any may fail.
Recorded(boot, db, spent) ==
  LET full == [shape |-> Shape(boot, db), built |-> Built(boot), temperature |-> db.temperature]
  IN  IF Differs(boot, db) \/ Incomplete
      THEN \/ /\ number' = IF Differs(boot, db) THEN number + 1 ELSE number
              /\ \/ record' = full /\ dbSpent' = spent
                 \/ /\ record' \in {record, [record EXCEPT !.shape = full.shape],
                                    [full EXCEPT !.temperature = record.temperature]}
                    /\ Fails(spent)
           \/ Fails(spent) /\ UNCHANGED <<number, record>>
      ELSE UNCHANGED <<number, record>> /\ dbSpent' = spent

\* Every publication tries again.
Reconcile ==
  /\ started /\ Recorded(bootCfg, live, dbSpent)
  /\ UNCHANGED <<cfg, bootCfg, started, live, home, pairVars, overtaken>>

\* install_temperature_metadata(): the published ranges move, and are recorded.
RangesMove(temperature) ==
  /\ AcBuilt /\ temperature # live.temperature /\ dbSpent.edits < MaxEdits
  /\ live' = [live EXCEPT !.temperature = temperature]
  /\ LET spent == [dbSpent EXCEPT !.edits = @ + 1]
     IN  IF started THEN Recorded(bootCfg, live', spent) ELSE dbSpent' = spent /\ UNCHANGED <<number, record>>
  /\ overtaken' = (overtaken \/ Unrecorded)
  /\ UNCHANGED <<cfg, bootCfg, started, home, pairVars>>

Restart ==
  /\ Pay("boots", MaxBoots)
  /\ started' = FALSE /\ live' = NoDb /\ bootCfg' = cfg
  /\ entries' = (entries /\ ~erased) /\ erased' = FALSE
  /\ overtaken' = (overtaken \/ Unrecorded)
  /\ UNCHANGED <<cfg, record, number, home, paired>>

---------------------------------------------------------------------------
(***************************************************************************)
(* homekit_init(), tried again every ten seconds: it latches the settings  *)
(* every time, and builds each accessory once.  The Range or Single choice *)
(* was latched with the settings, at boot.                                 *)
(***************************************************************************)
Latched == [cfg EXCEPT !.single = bootCfg.single]
InitAttempt(temperature) ==
  /\ ~started
  /\ bootCfg' = Latched
  /\ live' = [(IF AcBuilt THEN live ELSE DatabaseFor(Latched, temperature)) EXCEPT !.sensor = @ \/ cfg.sensor]
  /\ \/ /\ started' = TRUE /\ paired' = (paired \/ (entries /\ ~erased))
        /\ Recorded(bootCfg', live', dbSpent)
     \/ Pay("starts", MaxStarts) /\ UNCHANGED <<started, paired, number, record>>
  /\ UNCHANGED <<cfg, home, entries, erased, overtaken>>

\* ensure_sensor_accessory(): adding an accessory moves c# by itself, so the
\* shape is recorded without another.
SensorAdded ==
  /\ started /\ cfg.sensor /\ ~live.sensor
  /\ live' = [live EXCEPT !.sensor = TRUE] /\ number' = number + 1
  /\ LET now == Shape(bootCfg, live')
     IN  \/ record' = [record EXCEPT !.shape = now, !.built = Built(bootCfg)] /\ UNCHANGED dbSpent
         \/ record' \in {record, [record EXCEPT !.shape = now]} /\ Pay("failures", MaxFailures)
  /\ overtaken' = (overtaken \/ Unrecorded)
  /\ UNCHANGED <<cfg, bootCfg, started, home, pairVars>>

\* The home sees the c# that is advertised.
Fetch ==
  /\ started /\ home.number # number
  /\ home' = [number |-> number, db |-> live]
  /\ UNCHANGED <<cfg, bootCfg, started, live, record, number, pairVars, overtaken, dbSpent>>

---------------------------------------------------------------------------
(***************************************************************************)
(* hap_event_handler(): the settings remember that somebody has paired.    *)
(***************************************************************************)
Pair == started /\ ~entries /\ ~erased /\ entries' = TRUE /\ paired' = TRUE /\ UNCHANGED erased
\* Any other event
RecordedPaired == paired \/ (entries /\ ~erased)
LateEvent == started /\ paired' = RecordedPaired /\ UNCHANGED <<entries, erased>>
\* The SDK has erased its pairings; its entries in RAM live on until the restart.
PairingsReset == started /\ entries /\ erased' = TRUE /\ paired' = FALSE /\ UNCHANGED entries
PairingEvent ==
  /\ Pair \/ LateEvent \/ PairingsReset
  /\ pairVars' # pairVars
  /\ UNCHANGED <<cfg, bootCfg, started, live, record, number, home, overtaken, dbSpent>>

DbNext ==
  \/ \E c \in Settings : Edit(c)
  \/ \E temperature \in Temperatures : InitAttempt(temperature) \/ RangesMove(temperature)
  \/ Restart \/ Reconcile \/ SensorAdded \/ Fetch \/ PairingEvent

DbSpec == DbInit /\ [][DbNext]_dbVars
\* The main loop tries again; the thermostat publishes every two seconds; a home
\* that reaches the device looks at its c#.
DbFairSpec ==
  /\ DbSpec
  /\ WF_dbVars(\E temperature \in Temperatures : InitAttempt(temperature))
  /\ WF_dbVars(Reconcile) /\ WF_dbVars(SensorAdded) /\ WF_dbVars(Fetch)

---------------------------------------------------------------------------
(***************************************************************************)
(* Properties                                                              *)
(***************************************************************************)
\* A home ends up with the database that is served, whatever was hidden, masked,
\* added or re-ranged, over restarts, refused requests and failed writes, as
\* long as a change is recorded before the next one.
DbFollowed == <>[](started /\ home.db = live) \/ <>overtaken

\* A home that still uses an old copy never drives one service through the IIDs
\* of another (hk_service_slots.h 5-12).
SceneSafe ==
  \A old \in Switches(home.db), new \in Switches(live) :
    old # new => Drives(home.db, old) \cap Drives(live, new) = {}

DbTypeOK ==
  /\ cfg \in Settings /\ {started, paired, entries, erased} \subseteq BOOLEAN
  /\ live.services \subseteq Optional /\ home.number <= number
  /\ record.built = Missing \/ record.built \subseteq Optional
===============================================================================
