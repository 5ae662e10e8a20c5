-------------------------- MODULE WifiRecovery_proofs --------------------------
(***************************************************************************)
(* Flash follows the trials: WifiRecovery implements NetworkStore, and     *)
(* success is announced, and the access point closed, only over a network  *)
(* that is stored.                                                         *)
(***************************************************************************)
EXTENDS WifiRecovery, SequenceTheorems, TLAPS

---------------------------------------------------------------------------
(***************************************************************************)
(* The inductive invariant                                                 *)
(***************************************************************************)
OpenTrial == trial.active \/ trial.lateCommit

\* An open trial is for credentials that the radio is configured with; one
\* that is being tried is not over.
TrialShape ==
  /\ trial.active => trial.result = "testing" /\ ~trial.lateCommit
  /\ ~trial.active => trial.result # "testing"
  /\ OpenTrial => trial.new # None /\ radio.config = trial.new

\* A station joins what it is configured with: configuration is refused then.
JoinsItsConfig == radio.link = "joining" => radio.net = radio.config

\* Whatever may credit a join to the trial is known of.
Evident ==
  OpenTrial /\ evidence = "none" =>
    /\ ~trial.commitPending
    /\ \A i \in 1..Len(events) : events[i] # "address"
    /\ radio.link = "address" => radio.net = trial.new

\* What loop() found in its snapshot is still so.
SnapshotHolds ==
  /\ ticking = "commit" => OpenTrial /\ trial.commitPending
  /\ ticking = "revert" => trial.active /\ stored = trial.old
  /\ ticking # "idle" => portal.at # "armed"

\* Flash is touched only for a trial that was joined.
FlashKept ==
  /\ trial.active /\ ~trial.commitPending => stored = trial.old
  /\ ~OpenTrial => radio.config = stored

\* What a portal waits for: its own trial, or the end of it.
PortalsTrial ==
  portal.at # "idle" =>
    CASE trial.result \in {"success", "idle"} -> ~OpenTrial /\ stored = portal.net
      [] trial.result = "testing" -> trial.new = portal.net
      [] OTHER -> trial.lateCommit => trial.new = portal.net

ApAfterBoot == main = "booting" => ~rec.ap

StationInv ==
  TrialShape /\ JoinsItsConfig /\ Evident /\ SnapshotHolds /\ FlashKept /\ PortalsTrial

WifiInv == TypeOK /\ StationInv /\ ApAfterBoot
---------------------------------------------------------------------------
(***************************************************************************)
(* Types, and what the driver's calls make of a state of the radio         *)
(***************************************************************************)
Radios == [config: Credentials, link: {"down", "joining", "address", "up"}, net: Credentials]
Posted == Seq({"lost", "address"})
Stations == [connected: BOOLEAN, pendingJoin: BOOLEAN, expectDrop: BOOLEAN,
             retries: 0..(ImmediateRetries + 1), retryArmed: BOOLEAN]
Trials == [active: BOOLEAN, commitPending: BOOLEAN, lateCommit: BOOLEAN,
           new: Credentials, old: Credentials,
           result: {"idle", "testing", "success", "failed"}]
Portals == [at: {"idle", "armed", "pending", "noting", "waiting"}, net: Credentials]
Recoveries == [ap: BOOLEAN, was: BOOLEAN, lost: BOOLEAN, window: BOOLEAN,
               reprovisioned: BOOLEAN, linger: BOOLEAN, pending: BOOLEAN]

\* WifiTypeOK with its sets named.
LEMMA TypesNamed ==
  WifiTypeOK <=>
    /\ radio \in Radios
    /\ events \in Posted /\ Len(events) <= MaxEvents
    /\ sta \in Stations /\ scan \in BOOLEAN
    /\ trial \in Trials /\ stored \in Credentials /\ portal \in Portals
    /\ ticking \in {"idle", "commit", "revert"}
    /\ evidence \in {"none", "joined", "mistaken"}
BY DEF WifiTypeOK, Radios, Posted, Stations, Trials, Portals

\* esp_wifi_connect() leaves the station as it is, or joining what is configured.
LEMMA JoiningIs ==
  ASSUME NEW r \in Radios
  PROVE  /\ Joining(r) \in Radios /\ Joining(r).config = r.config
         /\ \/ Joining(r) = r
            \/ Joining(r).link = "joining" /\ Joining(r).net = r.config
<1>1. CASE r.link = "down" /\ r.config # None
  BY <1>1 DEF Joining, Radios
<1>2. CASE ~(r.link = "down" /\ r.config # None)
  <2>1. Joining(r) = r
    BY <1>2 DEF Joining
  <2> QED BY <2>1
<1> QED BY <1>1, <1>2

\* esp_wifi_disconnect() leaves it down.
LEMMA PartedIs ==
  ASSUME NEW r \in Radios
  PROVE  Parted(r) \in Radios /\ Parted(r).config = r.config /\ Parted(r).link = "down"
BY DEF Parted, Radios, Credentials

\* esp_wifi_set_config() leaves the link alone.
LEMMA ConfiguredIs ==
  ASSUME radio \in Radios, NEW c \in Credentials
  PROVE  /\ Configured(c) \in Radios /\ Configured(c).config = c
         /\ Configured(c).link = radio.link /\ Configured(c).net = radio.net
BY DEF Configured, Radios

\* A trial is started for other credentials than the stored ones.
LEMMA NewTrialIs ==
  ASSUME NEW net \in Nets, stored \in Credentials
  PROVE  NewTrial(net) \in Trials
<1>1. CASE stored = net
  BY <1>1 DEF NewTrial, NoTrial, Trials, Credentials
<1>2. CASE stored # net
  BY <1>2 DEF NewTrial, NoTrial, Trials, Credentials
<1> QED BY <1>1, <1>2

\* Parting posts one event at most, and none that is an address.
LEMMA PartingEventIs ==
  /\ PartingEvent(radio) \in Posted /\ Len(PartingEvent(radio)) <= 1
  /\ \A i \in 1..Len(PartingEvent(radio)) : PartingEvent(radio)[i] # "address"
<1>1. CASE radio.link = "down"
  BY <1>1 DEF PartingEvent, Posted
<1>2. CASE radio.link # "down"
  <2>1. PartingEvent(radio) = <<"lost">>
    BY <1>2 DEF PartingEvent
  <2> QED BY <2>1 DEF Posted
<1> QED BY <1>1, <1>2

\* Events are posted one at a time, while there is room.
LEMMA Posts ==
  ASSUME events \in Posted, Len(events) <= MaxEvents
  PROVE  /\ RoomForEvents => \A e \in {"lost", "address"} :
              Append(events, e) \in Posted /\ Len(Append(events, e)) <= MaxEvents
         /\ RoomForEvents => /\ events \o PartingEvent(radio) \in Posted
                             /\ Len(events \o PartingEvent(radio)) <= MaxEvents
         /\ events # <<>> => Tail(events) \in Posted /\ Len(Tail(events)) <= MaxEvents
<1>1. RoomForEvents => \A e \in {"lost", "address"} :
        Append(events, e) \in Posted /\ Len(Append(events, e)) <= MaxEvents
  BY WifiAssumption DEF Posted, RoomForEvents
<1>2. RoomForEvents => /\ events \o PartingEvent(radio) \in Posted
                       /\ Len(events \o PartingEvent(radio)) <= MaxEvents
  BY PartingEventIs, ConcatProperties, WifiAssumption, LenProperties DEF Posted, RoomForEvents
<1>3. events # <<>> => Tail(events) \in Posted /\ Len(Tail(events)) <= MaxEvents
  BY WifiAssumption DEF Posted
<1> QED BY <1>1, <1>2, <1>3

---------------------------------------------------------------------------
(***************************************************************************)
(* Type correctness                                                        *)
(***************************************************************************)

\* What the handlers and operations make of the station's own flags.
LEMMA StationTypes ==
  ASSUME sta \in Stations,
         HandleLost \/ HandleAddress \/ RetryTimer \/ LaunchJoin \/ Revert
           \/ \E net \in Nets : BeginTrial(net)
  PROVE  sta' \in Stations
<1>1. 0 \in 0..(ImmediateRetries + 1)
  BY WifiAssumption
<1>2. CASE HandleLost
  <2> DEFINE retries == ~sta.expectDrop /\ ~scan
  <2>1. (IF retries /\ sta.retries <= ImmediateRetries THEN sta.retries + 1 ELSE sta.retries)
          \in 0..(ImmediateRetries + 1)
    BY WifiAssumption DEF Stations
  <2>2. (sta.retryArmed \/ (retries /\ ~RetriesAtOnce)) \in BOOLEAN
    OBVIOUS
  <2> QED BY <1>2, <2>1, <2>2, Zenon DEF HandleLost, Stations
<1>3. CASE HandleAddress
  BY <1>1, <1>3 DEF HandleAddress, Stations
<1>4. CASE RetryTimer
  BY <1>4 DEF RetryTimer, Stations
<1>5. CASE LaunchJoin
  <2>1. sta' = [sta EXCEPT !.pendingJoin = TRUE, !.retryArmed = FALSE,
                           !.expectDrop = sta.expectDrop \/ sta.connected]
    BY <1>5 DEF LaunchJoin
  <2>2. (sta.expectDrop \/ sta.connected) \in BOOLEAN
    OBVIOUS
  <2> QED BY <2>1, <2>2 DEF Stations
<1>6. CASE Revert
  <2>1. CASE trial.old # None
    BY <1>1, <1>6, <2>1 DEF Revert, Stations
  <2>2. CASE trial.old = None
    BY <1>6, <2>2 DEF Revert, Stations
  <2> QED BY <2>1, <2>2
<1>7. CASE \E net \in Nets : BeginTrial(net)
  BY <1>1, <1>7 DEF BeginTrial, Stations
<1> QED BY <1>2, <1>3, <1>4, <1>5, <1>6, <1>7

LEMMA ManagerTypes ==
  ASSUME WifiTypeOK,
         DriverStep \/ EventStep \/ LaunchJoin \/ ScanEnd \/ Request \/ ManagerLoop
  PROVE  WifiTypeOK'
<1> USE TypesNamed
<1>1. CASE Associate
  BY <1>1 DEF Associate, WifiTypeOK, Radios
<1>2. CASE ObtainAddress
  <2>1. radio' \in Radios
    BY <1>2 DEF ObtainAddress, Radios
  <2> QED BY <1>2, <2>1, Posts DEF ObtainAddress, WifiTypeOK, Radios, Posted
<1>3. CASE Drop
  BY <1>3, Posts, PartedIs DEF WifiTypeOK, Drop, Radios, Posted
<1>4. CASE HandleLost
  <2>1. radio' \in Radios
    BY <1>4, JoiningIs DEF HandleLost
  <2> QED BY <1>4, <2>1, StationTypes, Posts DEF HandleLost, WifiTypeOK, Radios, Posted, Stations
<1>5. CASE HandleAddress
  <2>1. trial' \in Trials
    BY <1>5 DEF HandleAddress, Trials
  <2> QED BY <1>5, <2>1, StationTypes, Posts
          DEF HandleAddress, WifiTypeOK, Posted, Stations, Trials
<1>6. CASE RetryTimer
  BY <1>6, StationTypes, JoiningIs DEF RetryTimer, WifiTypeOK, Radios, Stations
<1>7. CASE LaunchJoin
  <2>1. radio' \in Radios
    BY <1>7, JoiningIs, PartedIs DEF LaunchJoin
  <2>2. events' \in Posted /\ Len(events') <= MaxEvents
    BY <1>7, Posts DEF LaunchJoin
  <2>3. portal' \in Portals
    BY <1>7 DEF LaunchJoin, Portals
  <2> QED BY <1>7, <2>1, <2>2, <2>3, StationTypes DEF LaunchJoin, WifiTypeOK, Radios, Stations, Posted, Portals
<1>8. CASE ScanEnd
  <2>1. radio' \in Radios /\ scan' \in BOOLEAN
    BY <1>8, JoiningIs DEF ScanEnd
  <2> QED BY <1>8, <2>1 DEF WifiTypeOK, ScanEnd, Radios
<1>9. CASE ScanStart
  BY <1>9, Posts, PartedIs DEF WifiTypeOK, ScanStart, Radios, Posted
<1>10. ASSUME NEW net \in Nets, BeginTrial(net) PROVE WifiTypeOK'
  <2>1. sta' \in Stations
    BY <1>10, StationTypes
  <2> QED BY <1>10, <2>1, ConfiguredIs, NewTrialIs
          DEF WifiTypeOK, BeginTrial, Credentials, Radios, Stations, Trials
<1>11. CASE Snapshot
  BY <1>11 DEF Snapshot, WifiTypeOK
<1>12. CASE Commit
  <2>1. trial' \in Trials /\ stored' \in Credentials
    BY <1>12 DEF Commit, NoTrial, Trials, Credentials
  <2> QED BY <1>12, <2>1 DEF WifiTypeOK, Commit, Trials
<1>13. CASE CommitFails
  BY <1>13 DEF CommitFails, WifiTypeOK, Credentials
<1>14. CASE Revert
  <2>1. trial' \in Trials
    BY <1>14 DEF Revert, Trials, Credentials
  <2>2. radio' \in Radios
    BY <1>14, JoiningIs, ConfiguredIs DEF Revert, Trials
  <2> QED BY <1>14, <2>1, <2>2, StationTypes DEF WifiTypeOK, Revert, Trials, Stations, Radios
<1>15. CASE RevertRefused
  BY <1>15 DEF RevertRefused, WifiTypeOK
<1> QED BY <1>1, <1>2, <1>3, <1>4, <1>5, <1>6, <1>7, <1>8, <1>9, <1>10, <1>11, <1>12, <1>13, <1>14,
           <1>15 DEF DriverStep, EventStep, Request, ManagerLoop
---------------------------------------------------------------------------
(***************************************************************************)
(* The station keeps the invariant                                         *)
(***************************************************************************)
LEMMA StationStepKeeps ==
  ASSUME WifiTypeOK, StationInv,
         DriverStep \/ EventStep \/ LaunchJoin \/ ScanEnd \/ Request \/ ManagerLoop
  PROVE  StationInv'
<1> USE DEF StationInv, TrialShape, JoinsItsConfig, Evident, SnapshotHolds, FlashKept, PortalsTrial, OpenTrial
<1>0. /\ radio \in Radios /\ trial \in Trials /\ portal \in Portals /\ stored \in Credentials
      /\ events \in Posted
  BY TypesNamed
<1>1. CASE Associate
  BY <1>0, <1>1 DEF Associate, Radios
<1>2. CASE ObtainAddress
  BY <1>0, <1>2 DEF ObtainAddress, Radios, Posted
<1>3. CASE Drop
  BY <1>0, <1>3, PartedIs DEF Drop, Posted
<1>4. CASE HandleLost
  BY <1>0, <1>4, JoiningIs DEF HandleLost, Posted
<1>5. CASE HandleAddress
  BY <1>0, <1>5 DEF HandleAddress, Trials, Posted
<1>6. CASE RetryTimer
  BY <1>0, <1>6, JoiningIs DEF RetryTimer
<1>7. CASE LaunchJoin
  BY <1>0, <1>7, JoiningIs, PartedIs, PartingEventIs DEF LaunchJoin, Posted, Portals
<1>8. CASE ScanEnd
  BY <1>0, <1>8, JoiningIs DEF ScanEnd
<1>9. CASE ScanStart
  BY <1>0, <1>9, PartedIs, PartingEventIs DEF ScanStart, Posted
<1>10. ASSUME NEW net \in Nets, BeginTrial(net) PROVE StationInv'
  BY <1>0, <1>10, ConfiguredIs, WifiAssumption
     DEF BeginTrial, NewTrial, NoTrial, Configurable, Halfway, OperationFree, Credentials
<1>11. CASE Snapshot
  BY <1>0, <1>11 DEF Snapshot, OperationFree
<1>12. CASE Commit
  BY <1>0, <1>12 DEF Commit, NoTrial
<1>13. CASE CommitFails
  BY <1>0, <1>13 DEF CommitFails
<1>14. CASE Revert
  BY <1>0, <1>14, JoiningIs, ConfiguredIs DEF Revert, Trials, Configurable
<1>15. CASE RevertRefused
  BY <1>0, <1>15 DEF RevertRefused
<1> QED BY <1>1, <1>2, <1>3, <1>4, <1>5, <1>6, <1>7, <1>8, <1>9, <1>10, <1>11, <1>12, <1>13, <1>14,
           <1>15 DEF DriverStep, EventStep, Request, ManagerLoop
---------------------------------------------------------------------------
(***************************************************************************)
(* The recovery access point                                               *)
(***************************************************************************)

\* The parts of the loop and the requests keep the type; none but closeAP() takes
\* the access point down.
LEMMA RecoveryParts ==
  ASSUME NEW r \in Recoveries
  PROVE  /\ OpenAp(r) \in Recoveries /\ OpenAp(r).ap
         /\ CloseAp(r) \in Recoveries
         /\ \A p \in BOOLEAN : SetPending(r, p) \in Recoveries /\ SetPending(r, p).ap = r.ap
<1>1. OpenAp(r) \in Recoveries /\ OpenAp(r).ap
  BY DEF OpenAp, Recoveries
<1>2. CloseAp(r) \in Recoveries
  BY DEF CloseAp, Recoveries
<1>3. \A p \in BOOLEAN : SetPending(r, p) \in Recoveries /\ SetPending(r, p).ap = r.ap
  BY DEF SetPending, Recoveries
<1> QED BY <1>1, <1>2, <1>3

\* cancelChangeWindow() takes it down only over a settled join.
LEMMA CancelledIs ==
  ASSUME NEW r \in Recoveries
  PROVE  /\ Cancelled(r) \in Recoveries
         /\ r.ap => Cancelled(r).ap \/ (JoinedOnLatest /\ ~TrialActive)
<1> DEFINE ended == [r EXCEPT !.window = FALSE, !.reprovisioned = FALSE, !.linger = FALSE]
           kept == IF r.pending THEN SetPending(ended, FALSE) ELSE ended
<1>1. ended \in Recoveries /\ ended.ap = r.ap
  BY DEF Recoveries
<1>2. kept \in Recoveries /\ kept.ap = r.ap
  BY <1>1, RecoveryParts
<1>3. CASE ~r.window \/ TrialActive
  <2>1. Cancelled(r) = r
    BY <1>3, Zenon DEF Cancelled
  <2> QED BY <2>1
<1>4. CASE ~(~r.window \/ TrialActive)
  <2>1. Cancelled(r) = IF JoinedOnLatest THEN CloseAp(kept) ELSE kept
    BY <1>4, Zenon DEF Cancelled
  <2> QED BY <1>2, <1>4, <2>1, RecoveryParts
<1> QED BY <1>3, <1>4

\* The edges of the connection can only open it.
LEMMA EdgesSeenIs ==
  ASSUME sta \in Stations, NEW r \in Recoveries, NEW over
  PROVE  EdgesSeen(r, over) \in Recoveries /\ (r.ap => EdgesSeen(r, over).ap)
<1> DEFINE edge == CASE sta.connected /\ ~r.was -> [r EXCEPT !.lost = FALSE]
                     [] ~sta.connected /\ r.was -> [r EXCEPT !.lost = TRUE]
                     [] ~sta.connected /\ ~r.was /\ r.lost /\ "lost" \in over /\ ~r.ap -> OpenAp(r)
                     [] OTHER -> r
           first == ~sta.connected /\ ~r.was /\ ~edge.lost
<1>1. edge \in Recoveries /\ (r.ap => edge.ap)
  <2>1. [r EXCEPT !.lost = FALSE] \in Recoveries /\ [r EXCEPT !.lost = FALSE].ap = r.ap
    BY DEF Recoveries
  <2>2. [r EXCEPT !.lost = TRUE] \in Recoveries /\ [r EXCEPT !.lost = TRUE].ap = r.ap
    BY DEF Recoveries
  <2> QED BY <2>1, <2>2, RecoveryParts
<1> HIDE DEF edge
<1>2. (edge.lost \/ first) \in BOOLEAN /\ sta.connected \in BOOLEAN
  BY DEF Stations
<1>3. EdgesSeen(r, over) = [edge EXCEPT !.lost = @ \/ first, !.was = sta.connected]
  BY Zenon DEF EdgesSeen, edge
<1> QED BY <1>1, <1>2, <1>3 DEF Recoveries

\* A change is completed, and the linger armed, only over a settled join.
LEMMA CompletedIs ==
  ASSUME NEW r \in Recoveries
  PROVE  /\ Completed(r) \in Recoveries /\ Completed(r).ap = r.ap
         /\ Completed(r).linger => JoinedOnLatest /\ ~TrialActive
<1> DEFINE done == IF r.pending THEN SetPending(r, FALSE) ELSE r
<1>1. done \in Recoveries /\ done.ap = r.ap
  BY RecoveryParts
<1>2. CASE JoinedOnLatest /\ ~TrialActive /\ (~r.window \/ r.reprovisioned)
  <2>1. Completed(r) = IF r.ap /\ ~r.linger THEN [done EXCEPT !.linger = TRUE] ELSE done
    BY <1>2, Zenon DEF Completed
  <2> HIDE DEF done
  <2> QED BY <1>1, <1>2, <2>1 DEF Recoveries
<1>3. CASE ~(JoinedOnLatest /\ ~TrialActive /\ (~r.window \/ r.reprovisioned))
  <2>1. Completed(r) = [r EXCEPT !.linger = FALSE]
    BY <1>3, Zenon DEF Completed
  <2> QED BY <2>1 DEF Recoveries
<1> QED BY <1>2, <1>3

\* So does the whole pass.
LEMMA PassIs ==
  ASSUME sta \in Stations, rec \in Recoveries, NEW over, RecoveryLoop(over)
  PROVE  /\ rec' \in Recoveries
         /\ rec.ap => rec'.ap \/ (JoinedOnLatest /\ ~TrialActive)
<1> DEFINE seen == EdgesSeen(rec, over)
           windowed == WindowOver(seen, over)
           completed == Completed(windowed)
<1>1. seen \in Recoveries /\ (rec.ap => seen.ap)
  BY EdgesSeenIs
<1>2. /\ windowed \in Recoveries
      /\ seen.ap => windowed.ap \/ (JoinedOnLatest /\ ~TrialActive)
  BY <1>1, CancelledIs DEF WindowOver
<1>3. /\ completed \in Recoveries /\ completed.ap = windowed.ap
      /\ completed.linger => JoinedOnLatest /\ ~TrialActive
  BY <1>2, CompletedIs
<1>4. rec' = Lingered(completed, over)
  BY DEF RecoveryLoop
<1> HIDE DEF seen, windowed, completed
<1> QED BY <1>1, <1>2, <1>3, <1>4, RecoveryParts DEF Lingered

\* The steps of the recovery, from whichever task.
LEMMA RecoveryStepIs ==
  ASSUME TypeOK, RecoveryStep
  PROVE  /\ rec' \in Recoveries
         /\ rec.ap => rec'.ap \/ (JoinedOnLatest /\ ~TrialActive)
<1>1. sta \in Stations /\ rec \in Recoveries
  BY TypesNamed DEF TypeOK, Recoveries
<1>2. ASSUME NEW over \in SUBSET Clocks, RecoveryLoop(over)
      PROVE  /\ rec' \in Recoveries
             /\ rec.ap => rec'.ap \/ (JoinedOnLatest /\ ~TrialActive)
  BY <1>1, <1>2, PassIs
<1>3. CASE BeginChangeWindow
  <2> DEFINE noted == IF rec.pending THEN rec ELSE SetPending(rec, TRUE)
  <2>1. noted \in Recoveries
    BY <1>1, RecoveryParts
  <2>2. OpenAp(noted) \in Recoveries /\ OpenAp(noted).ap
    BY <2>1, RecoveryParts
  <2> HIDE DEF noted
  <2>3. rec' = [OpenAp(noted) EXCEPT !.reprovisioned = @ /\ OpenAp(noted).window, !.window = TRUE,
                                     !.linger = FALSE]
    BY <1>3 DEF BeginChangeWindow, noted
  <2> QED BY <2>2, <2>3 DEF Recoveries
<1>4. CASE CancelChangeWindow
  BY <1>1, <1>4, CancelledIs DEF CancelChangeWindow
<1>5. CASE NoteChange
  BY <1>1, <1>5, RecoveryParts DEF NoteChange
<1>6. CASE NoteReprovision
  BY <1>1, <1>6 DEF NoteReprovision, Recoveries
<1>7. CASE AnnounceSuccess \/ AnnounceFailure
  BY <1>1, <1>7 DEF AnnounceSuccess, AnnounceFailure
<1> QED BY <1>2, <1>3, <1>4, <1>5, <1>6, <1>7 DEF RecoveryStep
---------------------------------------------------------------------------
(***************************************************************************)
(* The invariant holds                                                     *)
(***************************************************************************)

\* The station of a device that starts.
LEMMA RestIs == ASSUME NEW net PROVE [Rested EXCEPT !.pendingJoin = net # None] \in Stations
<1>1. (net # None) \in BOOLEAN /\ 0 \in 0..(ImmediateRetries + 1)
  BY WifiAssumption
<1> QED BY <1>1 DEF Rested, Stations

LEMMA RestartKeeps ==
  ASSUME NEW net \in Credentials, NEW pending \in BOOLEAN, Booting(net, pending)
  PROVE  WifiInv'
<1>1. TypeOK'
  <2>1. radio' \in Radios /\ stored' \in Credentials
    BY DEF Booting, Radios, Credentials
  <2>2. events' \in Posted /\ Len(events') <= MaxEvents
    BY WifiAssumption DEF Booting, Posted
  <2>3. sta' \in Stations /\ scan' \in BOOLEAN
    BY RestIs DEF Booting
  <2>4. trial' \in Trials /\ portal' \in Portals
    BY DEF Booting, Trials, NoTrial, Portals, Credentials
  <2>5. ticking' = "idle" /\ evidence' = "none" /\ main' = "booting"
    BY DEF Booting
  <2>6. rec' \in Recoveries
    BY DEF Booting, Recoveries
  <2> QED BY <2>1, <2>2, <2>3, <2>4, <2>5, <2>6
          DEF TypeOK, WifiTypeOK, Radios, Posted, Stations, Trials, Portals, Recoveries
<1>2. StationInv'
  BY DEF Booting, NoTrial, StationInv, TrialShape, JoinsItsConfig, Evident, SnapshotHolds, FlashKept,
         PortalsTrial, OpenTrial
<1>3. ApAfterBoot'
  BY DEF Booting, ApAfterBoot
<1> QED BY <1>1, <1>2, <1>3 DEF WifiInv

LEMMA InvInit == Init => WifiInv
<1> SUFFICES ASSUME Init PROVE WifiInv
  OBVIOUS
<1>1. radio \in Radios /\ stored \in Credentials
  BY BirthsAssumption DEF Init, Radios, Credentials
<1>2. events \in Posted /\ Len(events) <= MaxEvents
  BY WifiAssumption DEF Init, Posted
<1>3. sta \in Stations /\ scan \in BOOLEAN
  BY RestIs DEF Init
<1>4. trial \in Trials /\ portal \in Portals
  BY DEF Init, Trials, NoTrial, Portals, Credentials
<1>5. ticking = "idle" /\ evidence = "none" /\ main = "booting"
  BY DEF Init
<1>6. rec \in Recoveries
  BY DEF Init, Recoveries
<1>7. TypeOK
  BY <1>1, <1>2, <1>3, <1>4, <1>5, <1>6
     DEF TypeOK, WifiTypeOK, Radios, Posted, Stations, Trials, Portals, Recoveries
<1>8. StationInv
  BY DEF Init, NoTrial, StationInv, TrialShape, JoinsItsConfig, Evident, SnapshotHolds, FlashKept,
         PortalsTrial, OpenTrial
<1>9. ApAfterBoot
  BY DEF Init, ApAfterBoot
<1> QED BY <1>7, <1>8, <1>9 DEF WifiInv

LEMMA InvStep == WifiInv /\ [Next]_vars => WifiInv'
<1> SUFFICES ASSUME WifiInv, [Next]_vars PROVE WifiInv'
  OBVIOUS
<1>1. TypeOK /\ WifiTypeOK /\ StationInv /\ ApAfterBoot
  BY DEF WifiInv, TypeOK
<1>2. CASE StationStep
  <2>1. WifiTypeOK' /\ StationInv' /\ UNCHANGED <<main, rec>>
    BY <1>1, <1>2, ManagerTypes, StationStepKeeps DEF StationStep
  <2> QED BY <1>1, <2>1 DEF WifiInv, TypeOK, ApAfterBoot
<1>3. CASE RecoveryStep
  <2>1. rec' \in Recoveries
    BY <1>1, <1>3, RecoveryStepIs
  <2>2. UNCHANGED <<radio, events, sta, scan, trial, stored, ticking, evidence, main>>
    BY <1>3 DEF RecoveryStep, RecoveryLoop, BeginChangeWindow, CancelChangeWindow, NoteChange,
                NoteReprovision, AnnounceSuccess, AnnounceFailure, wifiVars
  <2>3. /\ portal' \in Portals
        /\ \/ portal' = portal
           \/ portal'.at = "idle"
           \/ portal.at # "idle" /\ portal'.at # "armed" /\ portal'.net = portal.net
        /\ main = "running" \/ rec'.ap = rec.ap
    <3>1. portal \in Portals /\ rec \in Recoveries
      BY <1>1, TypesNamed DEF TypeOK, Recoveries
    <3>2. CASE (\E over \in SUBSET Clocks : RecoveryLoop(over)) \/ BeginChangeWindow \/ CancelChangeWindow
      BY <3>1, <3>2 DEF RecoveryLoop, BeginChangeWindow, CancelChangeWindow, wifiVars
    <3>3. CASE NoteChange
      BY <3>1, <3>3, RecoveryParts DEF NoteChange, Portals
    <3>4. CASE NoteReprovision
      BY <3>1, <3>4 DEF NoteReprovision, Portals, Recoveries
    <3>5. CASE AnnounceSuccess \/ AnnounceFailure
      BY <3>1, <3>5 DEF AnnounceSuccess, AnnounceFailure, Portals, Credentials
    <3> QED BY <1>3, <3>2, <3>3, <3>4, <3>5 DEF RecoveryStep
  <2>4. TypeOK'
    BY <1>1, <2>1, <2>2, <2>3 DEF TypeOK, WifiTypeOK, Portals, Recoveries
  <2>5. StationInv'
    BY <1>1, <2>2, <2>3 DEF StationInv, TrialShape, JoinsItsConfig, Evident, SnapshotHolds, FlashKept,
                            PortalsTrial, OpenTrial
  <2> QED BY <1>1, <2>2, <2>3, <2>4, <2>5 DEF WifiInv, ApAfterBoot
<1>4. CASE BootDone
  <2>1. rec' \in Recoveries /\ main' = "running" /\ UNCHANGED wifiVars
    BY <1>1, <1>4, TypesNamed DEF BootDone, TypeOK, Recoveries, Stations
  <2>2. TypeOK'
    BY <1>1, <2>1 DEF TypeOK, WifiTypeOK, wifiVars, Recoveries
  <2>3. StationInv'
    BY <1>1, <2>1 DEF StationInv, TrialShape, JoinsItsConfig, Evident, SnapshotHolds, FlashKept,
                      PortalsTrial, OpenTrial, wifiVars
  <2> QED BY <2>1, <2>2, <2>3 DEF WifiInv, ApAfterBoot
<1>5. CASE PowerLoss \/ EraseAndRestart
  <2>1. stored \in Credentials /\ None \in Credentials /\ rec.pending \in BOOLEAN
    BY <1>1 DEF TypeOK, WifiTypeOK, Credentials
  <2> QED BY <1>5, <2>1, RestartKeeps DEF PowerLoss, EraseAndRestart
<1>6. CASE UNCHANGED vars
  BY <1>1, <1>6 DEF WifiInv, TypeOK, WifiTypeOK, vars, wifiVars, StationInv, TrialShape,
     JoinsItsConfig, Evident, SnapshotHolds, FlashKept, PortalsTrial, OpenTrial, ApAfterBoot
<1> QED BY <1>2, <1>3, <1>4, <1>5, <1>6 DEF Next

LEMMA WifiInvHolds == Spec => []WifiInv
BY InvInit, InvStep, PTL DEF Spec

\* Every variable keeps its type, for any number of networks, immediate retries
\* and posted events, whatever the driver and the power do.
THEOREM WifiTypeCorrect == Spec => []TypeOK
<1>1. WifiInv => TypeOK
  BY DEF WifiInv
<1> QED BY <1>1, WifiInvHolds, PTL

---------------------------------------------------------------------------
(***************************************************************************)
(* Success                                                                 *)
(***************************************************************************)

\* A step that closes the access point of a running device, or announces success,
\* does so over the stored network.
LEMMA SuccessStep ==
  ASSUME WifiInv, [Next]_vars
  PROVE  /\ AnnounceSuccess => stored = portal.net
         /\ rec.ap /\ ~rec'.ap /\ main' = "running"
            => \/ radio.link = "up" /\ radio.net = radio.config => stored = radio.net
               \/ trial.lateCommit
<1>1. TypeOK /\ StationInv /\ ApAfterBoot
  BY DEF WifiInv
<1>2. AnnounceSuccess => stored = portal.net
  BY <1>1 DEF AnnounceSuccess, SettingsCommitted, StationInv, PortalsTrial
<1>3. ASSUME rec.ap, ~rec'.ap, main' = "running"
      PROVE  JoinedOnLatest /\ ~TrialActive
  <2>1. CASE StationStep \/ UNCHANGED vars
    BY <1>3, <2>1 DEF StationStep, vars
  <2>2. CASE RecoveryStep
    BY <1>1, <1>3, <2>2, RecoveryStepIs
  <2>3. CASE BootDone
    BY <1>1, <1>3, <2>3 DEF BootDone, ApAfterBoot
  <2>4. CASE PowerLoss \/ EraseAndRestart
    BY <1>3, <2>4 DEF PowerLoss, EraseAndRestart, Booting
  <2> QED BY <2>1, <2>2, <2>3, <2>4 DEF Next
<1>4. ~TrialActive => trial.lateCommit \/ radio.config = stored
  BY <1>1 DEF TrialActive, StationInv, TrialShape, FlashKept, OpenTrial
<1> QED BY <1>2, <1>3, <1>4

\* No portal announces success before the credentials it was given are in flash,
\* and the access point is not closed over a join that a power loss would undo
\* (WifiRecovery::loop(), cancelChangeWindow(), the portals' polling).
THEOREM SuccessIsSound == Spec => SuccessIsStored
<1>1. WifiInv /\ [Next]_vars =>
        [/\ AnnounceSuccess => stored = portal.net
         /\ rec.ap /\ ~rec'.ap /\ main' = "running"
            => \/ radio.link = "up" /\ radio.net = radio.config => stored = radio.net
               \/ trial.lateCommit]_vars
  BY SuccessStep
<1> QED BY <1>1, WifiInvHolds, PTL DEF Spec, SuccessIsStored

---------------------------------------------------------------------------
(***************************************************************************)
(* The refinement of NetworkStore                                          *)
(***************************************************************************)
Proven == OnTrial # None /\ evidence # "none"

storeVars == <<stored, OnTrial, Proven>>

\* Each step of the station is a step of the store's, or leaves it alone.
LEMMA StationStores ==
  ASSUME WifiTypeOK, StationInv,
         DriverStep \/ EventStep \/ LaunchJoin \/ ScanEnd \/ Request \/ ManagerLoop
  PROVE  [Tested!Next]_storeVars
<1> USE DEF OnTrial, Proven, storeVars, Tested!Next
<1>0. trial \in Trials
  BY TypesNamed
<1>1. CASE Associate \/ Drop \/ HandleLost \/ RetryTimer \/ LaunchJoin \/ ScanEnd \/ ScanStart
             \/ Snapshot \/ RevertRefused
  BY <1>1 DEF Associate, Drop, HandleLost, RetryTimer, LaunchJoin, ScanEnd, ScanStart, Snapshot,
              RevertRefused
<1>2. CASE HandleAddress
  BY <1>0, <1>2 DEF HandleAddress, Trials
<1>3. CASE ObtainAddress
  <2>1. CASE evidence' = evidence
    BY <1>3, <2>1 DEF ObtainAddress
  <2>2. CASE evidence' # evidence
    <3>1. OnTrial # None /\ evidence' = "joined" /\ UNCHANGED <<stored, trial>>
      BY <1>3, <2>2 DEF ObtainAddress, StationInv, TrialShape, OpenTrial
    <3>2. Tested!Join
      BY <3>1 DEF Tested!Join
    <3> QED BY <3>2
  <2> QED BY <2>1, <2>2
<1>4. ASSUME NEW net \in Nets, BeginTrial(net) PROVE [Tested!Next]_storeVars
  <2>1. CASE stored = net
    <3>1. Tested!GiveUp
      BY <1>4, <2>1 DEF BeginTrial, NewTrial, NoTrial, Tested!GiveUp
    <3> QED BY <3>1
  <2>2. CASE stored # net
    <3>1. Tested!Try(net)
      BY <1>4, <2>2, WifiAssumption DEF BeginTrial, NewTrial, Tested!Try
    <3> QED BY <3>1
  <2> QED BY <2>1, <2>2
<1>5. CASE Commit
  <2>1. OnTrial # None /\ evidence # "none" /\ OnTrial = trial.new
    BY <1>5 DEF Commit, StationInv, SnapshotHolds, Evident, TrialShape, OpenTrial
  <2>2. Tested!Keep
    BY <1>5, <2>1 DEF Commit, NoTrial, Tested!Keep
  <2> QED BY <2>2
<1>6. CASE CommitFails
  <2>1. OnTrial # None /\ evidence # "none" /\ OnTrial = trial.new
    BY <1>6 DEF CommitFails, StationInv, SnapshotHolds, Evident, TrialShape, OpenTrial
  <2>2. Tested!KeepFails
    BY <1>6, <2>1 DEF CommitFails, Tested!KeepFails
  <2> QED BY <2>2
<1>7. CASE Revert
  <2>1. CASE trial.old # None
    <3>1. Tested!GiveUp
      BY <1>0, <1>7, <2>1 DEF Revert, Trials, Tested!GiveUp
    <3> QED BY <3>1
  <2>2. CASE trial.old = None
    <3>1. /\ trial.active /\ trial'.lateCommit /\ trial'.new = trial.new
          /\ UNCHANGED <<stored, evidence>>
      BY <1>0, <1>7, <2>2 DEF Revert, Trials, StationInv, SnapshotHolds
    <3> QED BY <3>1
  <2> QED BY <2>1, <2>2
<1> QED BY <1>1, <1>2, <1>3, <1>4, <1>5, <1>6, <1>7 DEF DriverStep, EventStep, Request, ManagerLoop

\* So is every other step of the device.
LEMMA StoreStep ==
  ASSUME WifiInv, [Next]_vars
  PROVE  [Tested!Next]_storeVars
<1> USE DEF OnTrial, Proven, storeVars, Tested!Next
<1>1. WifiTypeOK /\ StationInv
  BY DEF WifiInv, TypeOK
<1>2. CASE StationStep
  BY <1>1, <1>2, StationStores DEF StationStep
<1>3. CASE RecoveryStep \/ BootDone \/ UNCHANGED vars
  BY <1>3 DEF RecoveryStep, RecoveryLoop, BeginChangeWindow, CancelChangeWindow, NoteChange,
              NoteReprovision, AnnounceSuccess, AnnounceFailure, BootDone, vars, wifiVars
<1>4. CASE PowerLoss
  <2>1. Tested!GiveUp
    BY <1>4 DEF PowerLoss, Booting, NoTrial, Tested!GiveUp
  <2> QED BY <2>1
<1>5. CASE EraseAndRestart
  <2>1. Tested!Forget
    BY <1>5 DEF EraseAndRestart, Booting, NoTrial, Tested!Forget
  <2> QED BY <2>1
<1> QED BY <1>2, <1>3, <1>4, <1>5 DEF Next

\* WifiRecovery implements NetworkStore: whatever the driver, the portals, the
\* clocks and the power do, the credentials in flash are replaced only by ones
\* that a join is credited to (connect(), WifiManager::loop()).
THEOREM StoredIsTested == Spec => StoresOnlyTested
<1>1. Init => Tested!Init
  BY BirthsAssumption DEF Init, NoTrial, OnTrial, Tested!Init
<1>2. WifiInv /\ [Next]_vars => [Tested!Next]_(Tested!vars)
  BY StoreStep DEF storeVars, Proven, Tested!vars
<1> QED BY <1>1, <1>2, WifiInvHolds, PTL DEF Spec, StoresOnlyTested, Tested!Spec
=============================================================================
