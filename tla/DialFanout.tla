------------------------------- MODULE DialFanout ------------------------------
(***************************************************************************)
(* What the dials are shown (sl2_link.c, espnow_link.cpp): STATE goes to   *)
(* the dials heard of lately, on change, on request and as a heartbeat;    *)
(* CAPS are fetched by a dial when the sequence number in STATE is not the *)
(* one of its copy.  The number is raised when a fingerprint of the CAPS   *)
(* differs from the stored one, so that a copy survives restarts of both.  *)
(* Frames are lost; the device restarts between the two writes.            *)
(***************************************************************************)
EXTENDS Naturals

CONSTANTS
  Viewers,       \* bonded dials
  Unset,
  MaxChanges,    \* bound: changes of what STATE shows
  MaxEdits,      \* bound: changes of what CAPS say
  MaxFrameLosses,     \* bound: frames lost
  MaxCuts,       \* bound: restarts of the device
  SeqMayFail     \* whether saving the sequence number may fail

ASSUME FanoutAssumption ==
  /\ Unset \notin Viewers \union Nat
  /\ MaxChanges \in Nat /\ MaxEdits \in Nat /\ MaxFrameLosses \in Nat /\ MaxCuts \in Nat
  /\ SeqMayFail \in BOOLEAN

VARIABLES
  hvac,       \* what STATE would say now
  caps,       \* what CAPS would say now; another task edits it
  seq,        \* caps_seq
  lastState,  \* last_state, or Unset
  rt,         \* per dial its runtime slot
  announcer,  \* caps_announce_if_changed(): its phase, and the fingerprint it announces
  fp,         \* s_lastFp
  kept,       \* in flash: the sequence number and the fingerprint
  viewer,     \* per dial (external) what it shows, and its copy of the CAPS
  faults      \* losses, restarts so far

core == <<seq, lastState, rt>>
fanVars == <<hvac, caps, core, announcer, fp, kept, viewer, faults>>

\* probed: heard of within SL2_DIAL_LIVE_MS.  told: time since the last STATE, as
\* "floor" (SL2_STATE_MIN_INTERVAL_MS not over), "rest", "beat" (heartbeat due).
Slot == [probed: BOOLEAN, was: BOOLEAN, pend: BOOLEAN, want: SUBSET {"state", "caps"},
         told: {"floor", "rest", "beat"}, throttle: BOOLEAN]
Fresh == [probed |-> FALSE, was |-> FALSE, pend |-> FALSE, want |-> {}, told |-> "beat",
          throttle |-> FALSE]

MaxSeq == MaxEdits + MaxCuts
States == [hvac: 0..MaxChanges, seq: 0..MaxSeq]
Copies == [caps: 0..MaxEdits, seq: 0..MaxSeq]

FanTypeOK ==
  /\ hvac \in 0..MaxChanges /\ caps \in 0..MaxEdits /\ seq \in 0..MaxSeq
  /\ lastState \in States \union {Unset}
  /\ rt \in [Viewers -> Slot]
  /\ announcer \in [phase: {"checked", "stale", "raise", "store"}, fp: 0..MaxEdits]
  /\ fp \in 0..MaxEdits
  /\ kept \in [seq: 0..MaxSeq, fp: 0..MaxEdits]
  /\ viewer \in [Viewers -> [awake: BOOLEAN, shown: States \union {Unset},
                             copy: Copies \union {Unset}]]
  /\ faults \in [losses: 0..MaxFrameLosses, cuts: 0..MaxCuts]

---------------------------------------------------------------------------
(***************************************************************************)
(* Sending.  A frame reaches the dial at once or is lost.                  *)
(***************************************************************************)
\* The announcer is not between its writes.
Quiet == announcer.phase \in {"checked", "stale"}

Built == [hvac |-> hvac, seq |-> seq]

\* send_state_to(): any STATE satisfies a pull.
Told(slot) == [slot EXCEPT !.told = "floor", !.pend = FALSE, !.want = @ \ {"state"}]

\* The condition of sl2_link_loop() for sending STATE to a live dial
Due(slot) == \/ ~slot.was
             \/ (slot.pend \/ "state" \in slot.want) /\ slot.told # "floor"
             \/ slot.told = "beat"

\* serve_pulls(), CAPS; the want stays until the next probe.
Pulls(slot) == "caps" \in slot.want /\ ~slot.throttle

\* What reaches the dials, less what is lost.
Shown(states, copies, lost) ==
  [d \in Viewers |->
     [viewer[d] EXCEPT
        !.shown = IF d \in states \ lost /\ viewer[d].awake THEN Built ELSE @,
        !.copy = IF d \in copies \ lost /\ viewer[d].awake
                 THEN [caps |-> caps, seq |-> seq] ELSE @]]

Lose(lost) == /\ lost = {} \/ faults.losses < MaxFrameLosses
              /\ faults' = [faults EXCEPT !.losses = IF lost = {} THEN @ ELSE @ + 1]

\* sl2_link_loop(), while the announcer is not between its two writes
CoreLoop(lost) ==
  LET live == {d \in Viewers : rt[d].probed}
      moved == Built # lastState
      seen == [d \in Viewers |-> [rt[d] EXCEPT !.pend = @ \/ moved]]
      states == {d \in live : Due(seen[d])}
      copies == {d \in live : Pulls(seen[d])}
  IN  /\ Quiet
      /\ lost \subseteq states \union copies /\ Lose(lost)
      /\ IF live = {} THEN UNCHANGED lastState ELSE lastState' = Built
      /\ rt' = IF live = {} THEN [d \in Viewers |-> [rt[d] EXCEPT !.was = FALSE]]
               ELSE [d \in Viewers |->
                       IF d \notin live THEN [seen[d] EXCEPT !.was = FALSE]
                       ELSE LET told == IF d \in states THEN Told(seen[d]) ELSE seen[d]
                            IN  [told EXCEPT !.was = TRUE,
                                             !.throttle = @ \/ d \in copies]]
      /\ viewer' = Shown(states, copies, lost)
      /\ UNCHANGED <<hvac, caps, seq, announcer, fp, kept>>

\* A command is applied, and its effect echoed to every live dial at once.
Command(d, lost) ==
  LET live == {e \in Viewers : rt[e].probed \/ e = d}
      now == [hvac |-> hvac + 1, seq |-> seq]
  IN  /\ viewer[d].awake /\ hvac < MaxChanges /\ Quiet
      /\ lost \subseteq live /\ Lose(lost)
      /\ hvac' = hvac + 1
      /\ lastState' = now
      /\ rt' = [e \in Viewers |->
                  IF e \in live THEN [Told(rt[e]) EXCEPT !.probed = @ \/ e = d]
                  ELSE [rt[e] EXCEPT !.pend = TRUE]]
      /\ viewer' = [e \in Viewers |-> IF e \in live \ lost /\ viewer[e].awake
                                      THEN [viewer[e] EXCEPT !.shown = now] ELSE viewer[e]]
      /\ UNCHANGED <<caps, seq, announcer, fp, kept>>

---------------------------------------------------------------------------
(***************************************************************************)
(* caps_announce_if_changed(), a write at a time                           *)
(***************************************************************************)

\* The generation of the settings moved: the CAPS as they are now are compared.
Compare ==
  /\ announcer.phase = "stale"
  /\ announcer' = [phase |-> IF fp = caps THEN "checked" ELSE "raise", fp |-> caps]
  /\ UNCHANGED <<hvac, caps, core, fp, kept, viewer, faults>>

\* sl2_link_caps_changed(): the result of the save is ignored.
Raise ==
  /\ announcer.phase = "raise"
  /\ seq' = seq + 1
  /\ kept' \in {[kept EXCEPT !.seq = seq + 1]} \union (IF SeqMayFail THEN {kept} ELSE {})
  /\ rt' = [d \in Viewers |-> [rt[d] EXCEPT !.pend = TRUE]]
  /\ announcer' = [announcer EXCEPT !.phase = "store"]
  /\ UNCHANGED <<hvac, caps, lastState, fp, viewer, faults>>

Store ==
  /\ announcer.phase = "store"
  /\ kept' = [kept EXCEPT !.fp = announcer.fp]
  /\ fp' = announcer.fp
  /\ announcer' = [announcer EXCEPT !.phase = IF caps = announcer.fp THEN "checked" ELSE "stale"]
  /\ UNCHANGED <<hvac, caps, core, viewer, faults>>

---------------------------------------------------------------------------
(***************************************************************************)
(* Around the link                                                         *)
(***************************************************************************)
Change ==
  /\ hvac < MaxChanges /\ hvac' = hvac + 1
  /\ UNCHANGED <<caps, core, announcer, fp, kept, viewer, faults>>

\* A settings edit, a new mode mask, bounds discovered on the line
EditCaps ==
  /\ caps < MaxEdits /\ caps' = caps + 1
  /\ announcer' = [announcer EXCEPT !.phase = IF Quiet THEN "stale" ELSE @]
  /\ UNCHANGED <<hvac, core, fp, kept, viewer, faults>>

\* Time passes for a dial's slot.
Rest(d) ==
  /\ rt[d].told # "beat" \/ rt[d].throttle
  /\ rt' = [rt EXCEPT ![d].told = IF @ = "floor" THEN "rest" ELSE "beat",
                      ![d].throttle = FALSE]
  /\ UNCHANGED <<hvac, caps, seq, lastState, announcer, fp, kept, viewer, faults>>

\* A dial that is awake probes more often than the window of SL2_DIAL_LIVE_MS.
Lapse(d) ==
  /\ rt[d].probed /\ ~viewer[d].awake
  /\ rt' = [rt EXCEPT ![d].probed = FALSE]
  /\ UNCHANGED <<hvac, caps, seq, lastState, announcer, fp, kept, viewer, faults>>

\* Mutant: what is announced at boot is taken to be current.
AtBootCurrent == "checked"

\* EspnowLink::begin() compares.
AtBoot == "stale"

\* A restart; an edit in RAM is saved before.  At boot the CAPS are compared.
PowerCut ==
  /\ faults.cuts < MaxCuts
  /\ faults' = [faults EXCEPT !.cuts = @ + 1]
  /\ seq' = kept.seq /\ fp' = kept.fp
  /\ lastState' = Unset
  /\ rt' = [d \in Viewers |-> Fresh]
  /\ announcer' = [announcer EXCEPT !.phase = AtBoot]
  /\ UNCHANGED <<hvac, caps, kept, viewer>>

(***************************************************************************)
(* The dials (external)                                                    *)
(***************************************************************************)

\* A probe asks for CAPS when the number shown is not the one of the copy.
ProbeLink(d) ==
  LET v == viewer[d]
      wants == (IF v.shown = Unset THEN {"state"} ELSE {})
               \union (IF v.shown # Unset /\ (v.copy = Unset \/ v.copy.seq # v.shown.seq)
                       THEN {"caps"} ELSE {})
  IN  /\ v.awake
      /\ ~rt[d].probed \/ rt[d].want # wants
      /\ rt' = [rt EXCEPT ![d].probed = TRUE, ![d].want = wants]
      /\ UNCHANGED <<hvac, caps, seq, lastState, announcer, fp, kept, viewer, faults>>

\* A dial goes out of reach or to sleep, and comes back with what it had.
Doze(d) ==
  /\ viewer' = [viewer EXCEPT ![d].awake = ~@]
  /\ UNCHANGED <<hvac, caps, core, announcer, fp, kept, faults>>

---------------------------------------------------------------------------
FanInit ==
  /\ hvac = 0 /\ caps = 0 /\ seq = 0
  /\ lastState = Unset
  /\ rt = [d \in Viewers |-> Fresh]
  /\ announcer = [phase |-> "checked", fp |-> 0] /\ fp = 0
  /\ kept = [seq |-> 0, fp |-> 0]
  /\ viewer \in [Viewers -> [awake: BOOLEAN, shown: {Unset},
                             copy: {Unset, [caps |-> 0, seq |-> 0]}]]
  /\ faults = [losses |-> 0, cuts |-> 0]

FanNext ==
  \/ \E lost \in SUBSET Viewers : CoreLoop(lost) \/ \E d \in Viewers : Command(d, lost)
  \/ Compare \/ Raise \/ Store
  \/ Change \/ EditCaps \/ PowerCut
  \/ \E d \in Viewers : Rest(d) \/ Lapse(d) \/ ProbeLink(d) \/ Doze(d)

FanSpec == FanInit /\ [][FanNext]_fanVars

\* The main task runs, time passes, and a dial that is awake probes.
FanFairSpec ==
  FanSpec /\ WF_fanVars(\E lost \in SUBSET Viewers : CoreLoop(lost))
          /\ WF_fanVars(Compare \/ Raise \/ Store)
          /\ \A d \in Viewers : WF_fanVars(Rest(d)) /\ WF_fanVars(ProbeLink(d))

\* A dial that stays awake comes to show what the device says and to hold the
\* CAPS the device has, whatever was lost and whenever either restarted.
HeadsConverge ==
  \A d \in Viewers :
    <>[](viewer[d].awake)
      => <>[](/\ viewer[d].shown = Built
              /\ viewer[d].copy # Unset /\ viewer[d].copy.caps = caps)
=============================================================================
