------------------------------ MODULE WifiManager ------------------------------
(***************************************************************************)
(* The station side of the WiFi (wifi_manager.cpp): credentials are tried  *)
(* first and stored only after they were joined.                           *)
(*                                                                         *)
(* Three parties act here.  The driver (external) associates, obtains an   *)
(* address, drops, and posts events; the event task handles them later, in *)
(* order; the operations connect() and loop() exclude each other by the    *)
(* mutex s_trialOps, but neither excludes the event task.  How     *)
(* long a timer runs is left open: once started it may expire at any time. *)
(***************************************************************************)
EXTENDS Naturals, Sequences

CONSTANTS
  Nets,              \* credentials a user may submit: a network and its password
  Reachable,         \* those whose network is there and whose password is right
  None,              \* no credentials
  Mixed,             \* the name of one network with the password of another
  ImmediateRetries,  \* 3: reconnects without a delay
  MaxEvents          \* bound: driver events not yet handled

ASSUME WifiAssumption ==
  /\ Reachable \subseteq Nets
  /\ None \notin Nets
  /\ Mixed \notin Nets \union {None}
  /\ ImmediateRetries \in Nat
  /\ MaxEvents \in Nat

VARIABLES
  radio,      \* the driver: configured credentials, state and network of the link
  events,     \* posted by the driver, not yet seen by wifi_event_handler
  sta,        \* s_connected, s_pendingJoin, s_expectDisconnect, s_retryCount, timer
  scan,       \* s_wifiScanning
  trial,      \* s_trial
  stored,     \* the credentials in NVS
  portal,     \* where the task inside connect() is, and with which credentials
  ticking,    \* where WifiManager::loop() is
  evidence    \* history: what is known of the credentials on trial

wifiVars == <<radio, events, sta, scan, trial, stored, portal, ticking, evidence>>

Credentials == Nets \union {None, Mixed}

WifiTypeOK ==
  /\ radio \in [config: Credentials, link: {"down", "joining", "address", "up"}, net: Credentials]
  /\ events \in Seq({"lost", "address"}) /\ Len(events) <= MaxEvents
  /\ sta \in [connected: BOOLEAN, pendingJoin: BOOLEAN, expectDrop: BOOLEAN,
              retries: 0..(ImmediateRetries + 1), retryArmed: BOOLEAN]
  /\ scan \in BOOLEAN
  /\ trial \in [active: BOOLEAN, commitPending: BOOLEAN, lateCommit: BOOLEAN,
                new: Credentials, old: Credentials,
                result: {"idle", "testing", "success", "failed"}]
  /\ stored \in Credentials
  /\ portal \in [at: {"idle", "armed", "pending", "noting", "waiting"}, net: Credentials]
  /\ ticking \in {"idle", "commit", "revert"}
  /\ evidence \in {"none", "joined", "mistaken"}

(***************************************************************************)
(* The state after a restart: what RAM forgets.                            *)
(***************************************************************************)
NoTrial == [active |-> FALSE, commitPending |-> FALSE, lateCommit |-> FALSE,
            new |-> None, old |-> None, result |-> "idle"]

Rested == [connected |-> FALSE, pendingJoin |-> FALSE, expectDrop |-> FALSE,
           retries |-> 0, retryArmed |-> FALSE]

---------------------------------------------------------------------------
(***************************************************************************)
(* The driver                                                              *)
(***************************************************************************)

\* esp_wifi_connect(): a station that is associated or joining stays as it is.
Joining(r) == IF r.link = "down" /\ r.config # None
              THEN [r EXCEPT !.link = "joining", !.net = r.config] ELSE r

\* esp_wifi_disconnect(): ends an association or an attempt, which is an event.
Parted(r) == [r EXCEPT !.link = "down", !.net = None]
PartingEvent(r) == IF r.link = "down" THEN <<>> ELSE <<"lost">>

\* esp_wifi_set_config() is refused while an attempt is in flight.
Configurable == radio.link # "joining"
Configured(net) == [radio EXCEPT !.config = net]

RoomForEvents == Len(events) < MaxEvents

\* The station associates; the address is still to come.
Associate ==
  /\ radio.link = "joining" /\ radio.net \in Reachable
  /\ radio' = [radio EXCEPT !.link = "address"]
  /\ UNCHANGED <<events, sta, scan, trial, stored, portal, ticking, evidence>>

ObtainAddress ==
  /\ radio.link = "address" /\ RoomForEvents
  /\ radio' = [radio EXCEPT !.link = "up"]
  /\ events' = Append(events, "address")
  /\ evidence' = IF (trial.active \/ trial.lateCommit) /\ radio.net = trial.new
                 THEN "joined" ELSE evidence
  /\ UNCHANGED <<sta, scan, trial, stored, portal, ticking>>

\* An attempt fails, the router goes away, the signal is lost.
Drop ==
  /\ radio.link # "down" /\ RoomForEvents
  /\ radio' = Parted(radio)
  /\ events' = Append(events, "lost")
  /\ UNCHANGED <<sta, scan, trial, stored, portal, ticking, evidence>>

---------------------------------------------------------------------------
(***************************************************************************)
(* The event task                                                          *)
(***************************************************************************)

\* After a few immediate retries the next one waits for a timer; a timer that
\* is armed already means to retry at once.
RetriesAtOnce == sta.retries < ImmediateRetries \/ sta.retryArmed

HandleLost ==
  LET retries == ~sta.expectDrop /\ ~scan IN
  /\ events # <<>> /\ Head(events) = "lost"
  /\ events' = Tail(events)
  /\ sta' = [sta EXCEPT !.connected = FALSE, !.expectDrop = FALSE,
                        !.retries = IF retries /\ @ <= ImmediateRetries THEN @ + 1 ELSE @,
                        !.retryArmed = @ \/ (retries /\ ~RetriesAtOnce)]
  /\ radio' = IF retries /\ RetriesAtOnce THEN Joining(radio) ELSE radio
  /\ UNCHANGED <<scan, trial, stored, portal, ticking, evidence>>

HandleAddress ==
  /\ events # <<>> /\ Head(events) = "address"
  /\ events' = Tail(events)
  /\ sta' = [sta EXCEPT !.connected = TRUE, !.retries = 0, !.pendingJoin = FALSE,
                        !.expectDrop = FALSE]
  /\ trial' = [trial EXCEPT !.commitPending = @ \/ trial.active \/ trial.lateCommit]
  /\ UNCHANGED <<radio, scan, stored, portal, ticking, evidence>>

RetryTimer ==
  /\ sta.retryArmed
  /\ sta' = [sta EXCEPT !.retryArmed = FALSE]
  /\ radio' = Joining(radio)
  /\ UNCHANGED <<events, scan, trial, stored, portal, ticking, evidence>>

---------------------------------------------------------------------------
(***************************************************************************)
(* connect(), on a web or Improv task: two steps under s_trialOps, and   *)
(* what its callers do next ("pending", "noting", in WifiRecovery).        *)
(***************************************************************************)
OperationFree == portal.at # "armed" /\ ticking = "idle"

\* A station that is still obtaining the address of another network, or whose
\* address is an event on the way, looks unconnected.
Halfway == radio.link = "address" \/ \E i \in 1..Len(events) : events[i] = "address"

\* Mutant: the join of the trial before is taken over.
InheritedTrial(net) ==
  IF stored = net THEN NoTrial
  ELSE [active |-> TRUE, commitPending |-> trial.commitPending, lateCommit |-> FALSE,
        new |-> net, old |-> stored, result |-> "testing"]

NewTrial(net) ==
  IF stored = net THEN NoTrial
  ELSE [active |-> TRUE, commitPending |-> FALSE, lateCommit |-> FALSE, new |-> net,
        old |-> stored, result |-> "testing"]

\* The configuration is accepted, or the call returns false and changes nothing.
\* Nothing can be joined in the time from here to the start of the trial.
BeginTrial(net) ==
  /\ portal.at = "idle" /\ OperationFree /\ Configurable
  /\ radio' = Configured(net)
  /\ sta' = [sta EXCEPT !.retries = 0]
  /\ trial' = NewTrial(net)
  /\ evidence' = IF Halfway THEN "mistaken" ELSE "none"
  /\ portal' = [at |-> "armed", net |-> net]
  /\ UNCHANGED <<events, scan, stored, ticking>>

\* A station that is not down refuses to connect, and connect() returns false:
\* the trial stays, and its caller does not hear of it.
LaunchJoin ==
  LET drops == sta.connected
      parted == IF drops THEN Parted(radio) ELSE radio
  IN
  /\ portal.at = "armed" /\ RoomForEvents
  /\ radio' = Joining(parted)
  /\ events' = IF drops THEN events \o PartingEvent(radio) ELSE events
  /\ sta' = [sta EXCEPT !.pendingJoin = TRUE, !.expectDrop = @ \/ drops, !.retryArmed = FALSE]
  /\ \/ portal' = [portal EXCEPT !.at = "pending"]
     \/ parted.link # "down" /\ portal' = [portal EXCEPT !.at = "idle"]
  /\ UNCHANGED <<scan, trial, stored, ticking, evidence>>

---------------------------------------------------------------------------
(***************************************************************************)
(* loop(), on the main task: a snapshot, then the commit or the rollback.  *)
(* The event task may act in between.                                      *)
(***************************************************************************)
Snapshot ==
  /\ OperationFree
  /\ trial.active \/ trial.lateCommit
  /\ \/ trial.commitPending /\ ticking' = "commit"
     \/ trial.active /\ ~trial.commitPending /\ ticking' = "revert"     \* expired
  /\ UNCHANGED <<radio, events, sta, scan, trial, stored, portal, evidence>>

Commit ==
  /\ ticking = "commit"
  /\ stored' = trial.new
  /\ trial' = [NoTrial EXCEPT !.result = "success"]
  /\ ticking' = "idle"
  /\ evidence' = "none"
  /\ UNCHANGED <<radio, events, sta, scan, portal>>

\* The name and the password are two writes; the trial stays for a later tick.
CommitFails ==
  /\ ticking = "commit"
  /\ stored' \in {stored, Mixed, trial.new}
  /\ ticking' = "idle"
  /\ UNCHANGED <<radio, events, sta, scan, trial, portal, evidence>>

\* Without older credentials the radio keeps trying these ones.  What a trial
\* that is over leaves in s_trial is not read again, and forgotten here.
Revert ==
  LET hasOld == trial.old # None IN
  /\ ticking = "revert"
  /\ hasOld => Configurable
  /\ radio' = IF hasOld THEN Joining(Configured(trial.old)) ELSE radio
  /\ sta' = [sta EXCEPT !.pendingJoin = FALSE, !.retries = IF hasOld THEN 0 ELSE @]
  /\ trial' = [trial EXCEPT !.active = FALSE, !.result = "failed", !.lateCommit = ~hasOld,
                            !.new = IF hasOld THEN None ELSE @, !.old = None]
  /\ evidence' = IF hasOld THEN "none" ELSE evidence
  /\ ticking' = "idle"
  /\ UNCHANGED <<events, scan, stored, portal>>

RevertRefused ==
  /\ ticking = "revert" /\ trial.old # None /\ ~Configurable
  /\ ticking' = "idle"
  /\ UNCHANGED <<radio, events, sta, scan, trial, stored, portal, evidence>>

---------------------------------------------------------------------------
(***************************************************************************)
(* scanNetworks(): a station without a connection is taken off the air     *)
(* first and sent back to its network afterwards; with one it stays.      *)
(***************************************************************************)
ScanStart ==
  /\ ~scan /\ ~sta.connected /\ RoomForEvents
  /\ scan' = TRUE
  /\ radio' = Parted(radio)
  /\ events' = events \o PartingEvent(radio)
  /\ UNCHANGED <<sta, trial, stored, portal, ticking, evidence>>

ScanEnd ==
  /\ scan
  /\ scan' = FALSE
  /\ radio' = Joining(radio)
  /\ UNCHANGED <<events, sta, trial, stored, portal, ticking, evidence>>

=============================================================================
