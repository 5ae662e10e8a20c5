------------------------------- MODULE BleScan -------------------------------
(***************************************************************************)
(* The Bluetooth radio and the Add Sensor session (ble_sensor.cpp): the    *)
(* stack is started, stopped and retried by the main task, the enable      *)
(* toggle and the session are the web server's, and the host calls back.   *)
(***************************************************************************)
EXTENDS AddSensor

CONSTANTS
  MaxScans,    \* bound: discovery sessions
  MaxFaults,   \* bound: failing radio calls and host resets
  MaxToggles   \* bound: enable toggles

VARIABLES
  target,    \* whether some slot has a valid address
  radio,     \* s_bleEnabled, the stack, the scan and the flags of deferred work
  session,   \* the discovery session and its list
  faults, toggles

vars == <<target, radio, session, faults, toggles>>

\* air: the host is scanning; scanning: s_scanning, what the firmware believes
TypeOK ==
  /\ target \in BOOLEAN
  /\ radio \in [on: BOOLEAN, init: BOOLEAN, ready: BOOLEAN, scanning: BOOLEAN, air: BOOLEAN,
                sync: BOOLEAN, restart: BOOLEAN]
  /\ session \in [scan: 0 .. MaxScans, open: BOOLEAN, stop: BOOLEAN, fresh: BOOLEAN]

Init ==
  /\ target \in BOOLEAN
  /\ \E on \in BOOLEAN :
       radio = [on |-> on, init |-> FALSE, ready |-> FALSE, scanning |-> FALSE, air |-> FALSE,
                sync |-> FALSE, restart |-> FALSE]
  /\ session = NoSession
  /\ faults = 0 /\ toggles = 0

---------------------------------------------------------------------------
(***************************************************************************)
(* Calls into the radio, each from one state of it to the next; ok is the  *)
(* host's answer, due whether the retry interval lets the call be made     *)
(***************************************************************************)
\* initNimble()
Started(r, ok) == IF ok THEN [r EXCEPT !.init = TRUE, !.ready = FALSE, !.restart = TRUE] ELSE r

\* stopScan(): a scan that cannot be cancelled keeps its state, and is retried.
ScanStopped(r, ok) ==
  IF ~r.init \/ ~r.scanning THEN r
  ELSE IF ok \/ ~r.air THEN [r EXCEPT !.scanning = FALSE, !.air = FALSE]
  ELSE [r EXCEPT !.restart = TRUE]

\* startScan(): the host refuses a second scan.
ScanStarted(r, ok) ==
  IF r.init /\ r.ready /\ r.on /\ ~r.scanning /\ ok /\ ~r.air
  THEN [r EXCEPT !.scanning = TRUE, !.air = TRUE] ELSE r

\* deinitNimble()
Stopped(r, ok) ==
  LET stopped == ScanStopped(r, ok)
  IN  IF ok THEN [stopped EXCEPT !.scanning = FALSE, !.air = FALSE, !.ready = FALSE, !.init = FALSE]
      ELSE stopped

\* wantScan()
WantScan == target \/ session.open

Cost(ok) == /\ ok \/ faults < MaxFaults
            /\ faults' = IF ok THEN faults ELSE faults + 1

\* BleSensor::loop(), the radio's part; ok: whether its calls succeed
ScanLoop(ok) ==
  LET synced == [radio EXCEPT !.sync = FALSE]
      level == IF synced.on = synced.init THEN synced
               ELSE IF synced.on THEN Started(synced, ok) ELSE Stopped(synced, ok)
      rested == IF level.restart THEN ScanStopped([level EXCEPT !.restart = FALSE], ok) ELSE level
      scanned == IF WantScan THEN ScanStarted(rested, ok) ELSE rested
  IN  /\ Cost(ok)
      /\ radio' = IF level.on THEN scanned ELSE level
      /\ UNCHANGED <<target, session, toggles>>

---------------------------------------------------------------------------
(***************************************************************************)
(* The host's task                                                         *)
(***************************************************************************)
HostSync ==
  /\ radio.init /\ ~radio.ready
  /\ radio' = [radio EXCEPT !.ready = TRUE, !.restart = TRUE]
  /\ UNCHANGED <<target, session, faults, toggles>>

HostReset ==
  /\ radio.ready
  /\ Cost(FALSE)
  /\ radio' = [radio EXCEPT !.ready = FALSE, !.scanning = FALSE, !.air = FALSE, !.restart = TRUE]
  /\ UNCHANGED <<target, session, toggles>>

\* Mutant: the firmware does not hear of it.
OffAir(r) == [r EXCEPT !.air = FALSE]
\* BLE_GAP_EVENT_DISC_COMPLETE: the host has ended the scan.
Ended(r) == [r EXCEPT !.scanning = FALSE, !.air = FALSE]
ScanEnded ==
  /\ radio.air
  /\ Cost(FALSE)
  /\ radio' = Ended(radio)
  /\ UNCHANGED <<target, session, toggles>>

\* An unknown device advertises a temperature.
Found ==
  /\ radio.air /\ session.open
  /\ session' = Listed(session)
  /\ UNCHANGED <<target, radio, faults, toggles>>

---------------------------------------------------------------------------
(***************************************************************************)
(* Commands of the web server                                              *)
(***************************************************************************)
SetEnabled(on) ==
  /\ toggles < MaxToggles /\ toggles' = toggles + 1
  /\ radio.on # on
  /\ radio' = [radio EXCEPT !.on = on, !.sync = TRUE]
  /\ session' = IF on THEN session ELSE StopRequested(session)
  /\ UNCHANGED <<target, faults>>

\* setSensor(): the targets have changed; a pick ends the session.
Retarget ==
  /\ toggles < MaxToggles /\ toggles' = toggles + 1
  /\ target' = ~target
  /\ radio' = [radio EXCEPT !.restart = TRUE]
  /\ session' = IF target' THEN StopRequested(session) ELSE session
  /\ UNCHANGED faults

---------------------------------------------------------------------------
(***************************************************************************)
(* The session, opened and polled by WebUI::loop() (WebDiscovery)          *)
(***************************************************************************)
StartDiscovery ==
  /\ session.scan < MaxScans /\ ~session.open
  /\ session' = Opened(session, radio.on)
  /\ radio' = IF radio.on
              THEN [radio EXCEPT !.sync = @ \/ ~radio.init, !.restart = @ \/ ~radio.scanning]
              ELSE radio
  /\ UNCHANGED <<target, faults, toggles>>

StopDiscovery ==
  /\ session' = StopRequested(session)
  /\ UNCHANGED <<target, radio, faults, toggles>>

\* Configured sensors keep the scan; with none the radio is released.
PollComplete(capped, ok) ==
  /\ Completes(session, capped)
  /\ Cost(ok)
  /\ session' = Closed(session)
  /\ radio' = IF target THEN radio ELSE ScanStopped(radio, ok)
  /\ UNCHANGED <<target, toggles>>

Next ==
  \/ \E ok \in BOOLEAN : ScanLoop(ok)
  \/ HostSync \/ HostReset \/ ScanEnded \/ Found
  \/ \E on \in BOOLEAN : SetEnabled(on)
  \/ Retarget \/ StartDiscovery \/ StopDiscovery
  \/ \E capped, ok \in BOOLEAN : PollComplete(capped, ok)

Spec == Init /\ [][Next]_vars

\* The main task runs its loops, calls that failed are tried again and do not
\* fail for ever, and a started host comes up.
FairSpec ==
  /\ Spec
  /\ WF_vars(ScanLoop(TRUE))
  /\ WF_vars(HostSync)
  /\ WF_vars(PollComplete(TRUE, TRUE))

---------------------------------------------------------------------------
\* While sensors or a session want the radio, it is listening in the end,
\* through failing calls, host resets and toggles; when none does it falls silent
\* (Wi-Fi shares the antenna), and when Bluetooth is off the stack is gone in the
\* end (ble_sensor.cpp 578-624, 370-484).
RadioListens ==
  /\ <>[](radio.on /\ target) => <>[]radio.air
  /\ <>[](~target /\ ~session.open) => <>[]~radio.air
  /\ <>[]~radio.on => <>[]~radio.init
===============================================================================
