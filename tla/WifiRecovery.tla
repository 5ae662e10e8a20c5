----------------------------- MODULE WifiRecovery -----------------------------
(***************************************************************************)
(* The recovery access point (wifi_recovery.cpp) over the station of       *)
(* WifiManager: when the device opens a network of its own, and when it    *)
(* takes it down again.  The main task runs both loops; the dial's         *)
(* requests come on the main task too, the portals' on theirs.             *)
(***************************************************************************)
EXTENDS WifiManager

CONSTANTS
  Births,       \* credentials the device may start with
  MayRestart    \* whether power may fail, or the button erase the credentials

ASSUME BirthsAssumption == Births \subseteq Nets \union {None}

VARIABLES
  main,      \* "booting" (app_main waits for the first join) or "running"
  rec        \* WifiRecovery's members; pending is settings.wifiChangePending

vars == <<wifiVars, main, rec>>

\* lost: _disconnectedSince; window: _changeWindow with its
\* clock; linger: _apLingerPending with its clock.
TypeOK ==
  /\ WifiTypeOK
  /\ main \in {"booting", "running"}
  /\ rec \in [ap: BOOLEAN, was: BOOLEAN, lost: BOOLEAN,
              window: BOOLEAN, reprovisioned: BOOLEAN, linger: BOOLEAN, pending: BOOLEAN]

---------------------------------------------------------------------------
(***************************************************************************)
(* Parts of WifiRecovery, each from one state of its members to the next   *)
(***************************************************************************)
OpenAp(r) == [r EXCEPT !.ap = TRUE]

CloseAp(r) == IF r.ap THEN [r EXCEPT !.ap = FALSE, !.linger = FALSE, !.window = FALSE,
                                     !.reprovisioned = FALSE]
              ELSE r

SetPending(r, p) == [r EXCEPT !.pending = p]

TrialActive == trial.result = "testing"
JoinedOnLatest == sta.connected /\ ~sta.pendingJoin

\* cancelChangeWindow(): a trial is waited for; a device that is off the air
\* keeps the access point.
Cancelled(r) ==
  LET over == [r EXCEPT !.window = FALSE, !.reprovisioned = FALSE, !.linger = FALSE]
      kept == IF r.pending THEN SetPending(over, FALSE) ELSE over
  IN  CASE ~r.window \/ TrialActive -> r
        [] OTHER -> IF JoinedOnLatest THEN CloseAp(kept) ELSE kept

\* Mutant: without the clock of a device that was never seen connected.
EdgesOnly(r, over) ==
  LET edge == CASE sta.connected /\ ~r.was -> [r EXCEPT !.lost = FALSE]
                [] ~sta.connected /\ r.was -> [r EXCEPT !.lost = TRUE]
                [] ~sta.connected /\ ~r.was /\ r.lost /\ "lost" \in over /\ ~r.ap -> OpenAp(r)
                [] OTHER -> r
  IN  [edge EXCEPT !.was = sta.connected]

\* loop(): the edges of the connection, as this poll sees them
EdgesSeen(r, over) ==
  LET edge == CASE sta.connected /\ ~r.was -> [r EXCEPT !.lost = FALSE]
                [] ~sta.connected /\ r.was -> [r EXCEPT !.lost = TRUE]
                [] ~sta.connected /\ ~r.was /\ r.lost /\ "lost" \in over /\ ~r.ap -> OpenAp(r)
                [] OTHER -> r
      first == ~sta.connected /\ ~r.was /\ ~edge.lost
  IN  [edge EXCEPT !.lost = @ \/ first, !.was = sta.connected]

WindowOver(r, over) == IF r.window /\ "window" \in over /\ ~TrialActive THEN Cancelled(r) ELSE r

\* Mutant: an address is taken for the verdict.
CompletedByAddress(r) ==
  IF JoinedOnLatest /\ (~r.window \/ r.reprovisioned)
  THEN LET done == IF r.pending THEN SetPending(r, FALSE) ELSE r
       IN  IF r.ap /\ ~r.linger THEN [done EXCEPT !.linger = TRUE] ELSE done
  ELSE [r EXCEPT !.linger = FALSE]

\* loop(): completion by level, not by edge
Completed(r) ==
  IF JoinedOnLatest /\ ~TrialActive /\ (~r.window \/ r.reprovisioned)
  THEN LET done == IF r.pending THEN SetPending(r, FALSE) ELSE r
       IN  IF r.ap /\ ~r.linger THEN [done EXCEPT !.linger = TRUE] ELSE done
  ELSE [r EXCEPT !.linger = FALSE]

Lingered(r, over) == IF r.linger /\ "linger" \in over THEN CloseAp(r) ELSE r

\* The clocks that run.
Clocks == {clock \in {"lost", "window", "linger"} : rec[clock]}

\* One pass, which finds the clocks of `over` expired.
RecoveryLoop(over) ==
  /\ main = "running"
  /\ rec' = Lingered(Completed(WindowOver(EdgesSeen(rec, over), over)), over)
  /\ UNCHANGED <<wifiVars, main>>

---------------------------------------------------------------------------
(***************************************************************************)
(* Requests                                                                *)
(***************************************************************************)

\* The dial asks for the setup network, again each second until it sees it.
BeginChangeWindow ==
  /\ main = "running"
  /\ LET r == OpenAp(IF rec.pending THEN rec ELSE SetPending(rec, TRUE)) IN
     rec' = [r EXCEPT !.reprovisioned = @ /\ r.window, !.window = TRUE,
                      !.linger = FALSE]
  /\ UNCHANGED <<wifiVars, main>>

CancelChangeWindow ==
  /\ main = "running" /\ rec.window
  /\ rec' = Cancelled(rec)
  /\ UNCHANGED <<wifiVars, main>>

\* After connect() returned true its callers note the change, in two calls.
NoteChange ==
  /\ portal.at = "pending"
  /\ rec' = SetPending(rec, TRUE)
  /\ portal' = [portal EXCEPT !.at = "noting"]
  /\ UNCHANGED <<radio, events, sta, scan, trial, stored, ticking, evidence, main>>

NoteReprovision ==
  /\ portal.at = "noting"
  /\ rec' = [rec EXCEPT !.reprovisioned = TRUE]
  /\ portal' = [portal EXCEPT !.at = "waiting"]
  /\ UNCHANGED <<radio, events, sta, scan, trial, stored, ticking, evidence, main>>

\* The portal polls for the verdict; Improv and the recovery page announce
\* success under the same condition.
SettingsCommitted == JoinedOnLatest /\ trial.result \in {"success", "idle"}

AnnounceSuccess ==
  /\ portal.at = "waiting" /\ SettingsCommitted
  /\ portal' = [at |-> "idle", net |-> None]
  /\ UNCHANGED <<radio, events, sta, scan, trial, stored, ticking, evidence, main, rec>>

AnnounceFailure ==
  /\ portal.at = "waiting"
  /\ portal' = [at |-> "idle", net |-> None]
  /\ UNCHANGED <<radio, events, sta, scan, trial, stored, ticking, evidence, main, rec>>

---------------------------------------------------------------------------
(***************************************************************************)
(* Restarts: app_main connects to the stored network and waits for it a    *)
(* while; without a connection the access point opens at once.             *)
(***************************************************************************)
Booting(net, pending) ==
  /\ radio' = [config |-> net, link |-> IF net = None THEN "down" ELSE "joining", net |-> net]
  /\ events' = <<>>
  /\ sta' = [Rested EXCEPT !.pendingJoin = net # None]
  /\ scan' = FALSE
  /\ trial' = NoTrial
  /\ stored' = net
  /\ portal' = [at |-> "idle", net |-> None]
  /\ ticking' = "idle"
  /\ evidence' = "none"
  /\ main' = "booting"
  /\ rec' = [ap |-> FALSE, was |-> FALSE, lost |-> FALSE,
             window |-> FALSE, reprovisioned |-> FALSE, linger |-> FALSE, pending |-> pending]

PowerLoss == MayRestart /\ Booting(stored, rec.pending)

EraseAndRestart == MayRestart /\ Booting(None, rec.pending)

BootDone ==
  /\ main = "booting"
  /\ main' = "running"
  /\ rec' = [rec EXCEPT !.ap = ~sta.connected]
  /\ UNCHANGED wifiVars

Init ==
  \E net \in Births :
    /\ radio = [config |-> net, link |-> IF net = None THEN "down" ELSE "joining", net |-> net]
    /\ events = <<>>
    /\ sta = [Rested EXCEPT !.pendingJoin = net # None]
    /\ scan = FALSE
    /\ trial = NoTrial
    /\ stored = net
    /\ portal = [at |-> "idle", net |-> None]
    /\ ticking = "idle"
    /\ evidence = "none"
    /\ main = "booting"
    /\ rec = [ap |-> FALSE, was |-> FALSE, lost |-> FALSE,
              window |-> FALSE, reprovisioned |-> FALSE, linger |-> FALSE, pending |-> FALSE]

DriverStep == Associate \/ ObtainAddress \/ Drop
EventStep == HandleLost \/ HandleAddress \/ RetryTimer
\* What a portal asks for; a form that fails its checks changes nothing.
Request == (\E net \in Nets : BeginTrial(net)) \/ ScanStart
ManagerLoop == Snapshot \/ Commit \/ CommitFails \/ Revert \/ RevertRefused

StationStep ==
  /\ \/ DriverStep \/ EventStep \/ LaunchJoin \/ ScanEnd
     \/ main = "running" /\ (Request \/ ManagerLoop)
  /\ UNCHANGED <<main, rec>>

RecoveryStep ==
  \/ \E over \in SUBSET Clocks : RecoveryLoop(over)
  \/ BeginChangeWindow \/ CancelChangeWindow
  \/ NoteChange \/ NoteReprovision \/ AnnounceSuccess \/ AnnounceFailure

Next == StationStep \/ RecoveryStep \/ BootDone \/ PowerLoss \/ EraseAndRestart

Spec == Init /\ [][Next]_vars

---------------------------------------------------------------------------
(***************************************************************************)
(* Properties                                                              *)
(***************************************************************************)
OnTrial == IF trial.active \/ trial.lateCommit THEN trial.new ELSE None

Tested == INSTANCE NetworkStore WITH
  MayMistake <- TRUE, kept <- stored, tried <- OnTrial,
  proven <- OnTrial # None /\ evidence # "none"

\* Whatever the driver, the portals, the clocks and the power do, flash holds
\* the old credentials until the new ones were joined, or until an address
\* arrived that was on its way when the trial began (connect(), loop()).
StoresOnlyTested == Tested!Spec

\* Success is not announced, and the access point not taken down, before the
\* network in use is the one in flash.  A trial without a way back is excepted:
\* after its deadline the access point no longer waits for it.  So is a station
\* that is on another network than the one it is configured for.
SuccessIsStored ==
  [][/\ AnnounceSuccess => stored = portal.net
     /\ rec.ap /\ ~rec'.ap /\ main' = "running"
        => \/ radio.link = "up" /\ radio.net = radio.config => stored = radio.net
           \/ trial.lateCommit]_vars

\* A device without a network does not stay unreachable: it connects or opens
\* its own, whatever edges the 1 Hz poll misses (loop(), begin()).
Reachability == []<>(sta.connected \/ rec.ap)

\* The main loop turns and clocks expire; posted events are handled.
Fairness ==
  /\ WF_vars(RecoveryLoop(Clocks))
  /\ WF_vars(BootDone)
  /\ WF_vars(EventStep /\ UNCHANGED <<main, rec>>)

FairSpec == Spec /\ Fairness
=============================================================================
