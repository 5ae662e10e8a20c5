----------------------------- MODULE Cn105Link -----------------------------
(***************************************************************************)
(* The CN105 task: handshake, poll cycle, write scheduling, comms loss.    *)
(*                                                                         *)
(* One task owns the UART and runs CN105Controller::loop() at least every  *)
(* 100 ms.  Each pass drains received packets and then takes the first     *)
(* thing that applies, in the order of the code: a new line rate, a        *)
(* connect attempt, the end of an overdue request, a committed SET, a      *)
(* remote temperature, the identify exchange, a new poll cycle, the comms  *)
(* timeout.  Other tasks only set flags in the mailbox.                    *)
(*                                                                         *)
(* The heat pump is on the other end of a half-duplex serial line: it      *)
(* answers each packet at most once, in order, after any delay, or never.  *)
(*                                                                         *)
(* Timestamps are kept as ages in ticks, saturated where the code stops    *)
(* telling them apart.  loop() runs in every tick, so an age passes a      *)
(* threshold at the first pass that can see it.                            *)
(***************************************************************************)
EXTENDS Naturals, Sequences

CONSTANTS
  Phases,          \* POLL_TYPES: the info types of a cycle, in order
  ReplyDeadline,   \* CN105_REPLY_DEADLINE_MS
  DeferDelay,      \* CN105_DEFER_DELAY
  UpdateInterval,  \* _updateInterval: the poll period the user set
  ConfirmInterval, \* CN105_UPDATE_INTERVAL: the poll period while unconfirmed
  ConnectInterval, \* CN105_CONNECT_INTERVAL
  MaxRetries,      \* CN105_MAX_CONNECT_RETRIES
  CommsTimeout,    \* commsTimeoutMs()
  IdentifyTimeout, \* CN105_RESPONSE_TIMEOUT, as used for the identify reply
  BootClearEnabled,\* enableBootClear(): this device has fed the pump before
  Answers,         \* packet kinds the unit answers at all
  Actors,          \* bound: the producers that act in an instance
  Prompt,          \* TRUE: the unit answers at once and nothing is lost
  MaxWire          \* bound: replies in flight

ASSUME TimingAssumption ==
  /\ {ReplyDeadline, DeferDelay, UpdateInterval, ConfirmInterval, ConnectInterval,
      MaxRetries, CommsTimeout, IdentifyTimeout, MaxWire} \subseteq Nat \ {0}
  /\ DeferDelay < ReplyDeadline
  /\ ReplyDeadline + DeferDelay < CommsTimeout
  /\ UpdateInterval > 1   \* the user may ask for 500 ms, and loop() runs every 100 ms

ASSUME PhasesAssumption ==
  /\ Phases \in Seq({"settings", "roomtemp", "errorcode", "status", "standby"})
  /\ Len(Phases) > 0
  /\ Phases[1] = "settings"

ASSUME SwitchAssumption ==
  /\ {BootClearEnabled, Prompt} \subseteq BOOLEAN
  /\ Actors \subseteq {"commands", "hold", "remote", "baud"}

NPhases == Len(Phases)
InfoTypes == {Phases[i] : i \in 1 .. NPhases}
Packets == InfoTypes \cup {"connectOk", "setAck", "identify"}

VARIABLES
  \* connection
  connected, retries, attemptAge,
  \* poll cycle
  cycleRunning,    \* _cycleRunning; _awaitingResponse holds exactly with it
  pollPhase, requestAge, cycleStartAge, cycleEndAge,
  replyDeferred, timeoutAge,
  \* writes
  writeDeferred, writeAge, confirmSettings, confirmAge,
  \* optional exchanges
  discovery, discoveryAge, baselined,
  errorFailures, errorDisabled,
  bootClear,
  \* health
  responseAge,     \* age of _lastSuccessfulResponse
  \* cross-task mailbox
  sendRequested, commandsHeld, rangeAware, remote, remoteWritten, pendingBaud,
  \* the line: replies the unit has made and the driver has not read
  wire,
  \* scheduling
  passed,          \* loop() has run in this tick
  \* history, read by properties only
  waitAge,         \* how long a sendable SET has been waiting
  wroteSinceRequest,  \* a SET or remote write after the last poll request
  greeted,         \* a CONNECT_OK after the last poll request or write
  lastAsked,       \* the last remote temperature a source asked for
  lastSent         \* the last remote temperature put on the line

connVars    == <<connected, retries, attemptAge>>
cycleVars   == <<cycleRunning, pollPhase, requestAge, cycleStartAge, cycleEndAge,
                 replyDeferred, timeoutAge>>
writeVars   == <<writeDeferred, writeAge, confirmSettings, confirmAge>>
optVars     == <<discovery, discoveryAge, baselined, errorFailures, errorDisabled,
                 bootClear>>
commandVars == <<sendRequested, commandsHeld, rangeAware>>
remoteVars  == <<remote, remoteWritten, lastAsked, lastSent>>
historyVars == <<waitAge, wroteSinceRequest, greeted>>
vars == <<connVars, cycleVars, writeVars, optVars, commandVars, remoteVars,
          historyVars, responseAge, pendingBaud, wire, passed>>

ResponseCap == CommsTimeout + UpdateInterval + 2
WaitCap == 2 * (ReplyDeadline + DeferDelay) + 2

AtMost(n, cap) == IF n < cap THEN n ELSE cap

Init ==
  /\ connected = FALSE /\ retries = 0 /\ attemptAge \in {0, ConnectInterval}
  /\ cycleRunning = FALSE /\ pollPhase = 1 /\ requestAge = ReplyDeadline
  /\ cycleStartAge = ReplyDeadline /\ cycleEndAge = UpdateInterval
  /\ replyDeferred = FALSE /\ timeoutAge = DeferDelay
  /\ writeDeferred = FALSE /\ writeAge = DeferDelay
  /\ confirmSettings = FALSE /\ confirmAge = ConfirmInterval
  /\ discovery = "idle" /\ discoveryAge = IdentifyTimeout /\ baselined = FALSE
  /\ errorFailures = 0 /\ errorDisabled = FALSE
  /\ bootClear = "idle"
  /\ responseAge = 0
  /\ sendRequested = FALSE /\ commandsHeld = FALSE /\ rangeAware = FALSE
  /\ remote = "none" /\ remoteWritten = FALSE /\ pendingBaud = FALSE
  /\ wire = <<>>
  /\ passed = FALSE
  /\ waitAge = 0 /\ wroteSinceRequest = FALSE /\ greeted = FALSE
  /\ lastAsked = "none" /\ lastSent = "none"

-----------------------------------------------------------------------------
(* The line *)

\* The unit's answer to a packet the driver writes.  Anything may be lost,
\* so a full line drops the answer too.
Answered(w, p) ==
  IF p \in Answers /\ Len(w) < MaxWire THEN Append(w, p) ELSE w

Lose ==
  /\ ~Prompt
  /\ wire # <<>>
  /\ wire' = Tail(wire)
  /\ UNCHANGED <<connVars, cycleVars, writeVars, optVars, commandVars, remoteVars,
                 historyVars, responseAge, pendingBaud, passed>>

-----------------------------------------------------------------------------
(* Producers: the command coordinator, the room sources, the web UI *)

\* resumeCommands(): the batch replaces what was staged, and may be empty.
\* A setpoint validated for another connection stays held.
ResumeCommands ==
  /\ "commands" \in Actors
  /\ \E any, elsewhere \in BOOLEAN :
       /\ elsewhere => "hold" \in Actors
       /\ sendRequested' = any
       /\ commandsHeld' = (any /\ elsewhere)
       /\ rangeAware' = (rangeAware \/ any)
       /\ waitAge' = IF any /\ ~elsewhere THEN waitAge ELSE 0
  /\ UNCHANGED <<connVars, cycleVars, writeVars, optVars, remoteVars,
                 wroteSinceRequest, greeted, responseAge, pendingBaud, wire,
                 passed>>

\* queueAutoTarget(): adds to the batch, on the link it was computed for.
QueueAutoTarget ==
  /\ "commands" \in Actors
  /\ connected /\ ~commandsHeld
  /\ sendRequested' = TRUE
  /\ rangeAware' = TRUE
  /\ UNCHANGED <<connVars, cycleVars, writeVars, optVars, remoteVars, historyVars,
                 commandsHeld, responseAge, pendingBaud, wire, passed>>

\* holdCommands(), and loop()'s own hold of temperature intent that was
\* validated for another connection.
HoldCommands ==
  /\ "hold" \in Actors
  /\ commandsHeld' = TRUE
  /\ waitAge' = 0
  /\ UNCHANGED <<connVars, cycleVars, writeVars, optVars, remoteVars,
                 wroteSinceRequest, greeted, sendRequested, rangeAware,
                 responseAge, pendingBaud, wire, passed>>

\* sendRemoteTemperature() / clearRemoteTemperature(): last request wins.
AskRemote(kind) ==
  /\ "remote" \in Actors
  /\ remote' = kind
  /\ remoteWritten' = TRUE
  /\ lastAsked' = kind
  /\ UNCHANGED <<connVars, cycleVars, writeVars, optVars, commandVars, historyVars,
                 lastSent, responseAge, pendingBaud, wire, passed>>

SetBaudRate ==
  /\ "baud" \in Actors
  /\ pendingBaud' = TRUE
  /\ UNCHANGED <<connVars, cycleVars, writeVars, optVars, commandVars, remoteVars,
                 historyVars, responseAge, wire, passed>>

-----------------------------------------------------------------------------
(* Handshake *)

\* Back to attempt 1.  Intent already committed or still awaiting the unit's
\* confirmation is kept, held, for the coordinator to validate again.
RestartHandshake ==
  /\ connected' = FALSE
  /\ retries' = 0
  /\ cycleRunning' = FALSE
  /\ replyDeferred' = FALSE
  /\ confirmSettings' = FALSE
  /\ discovery' = "idle"
  /\ baselined' = FALSE
  /\ responseAge' = 0
  /\ commandsHeld' = (commandsHeld \/ rangeAware)
  /\ sendRequested' \in IF rangeAware THEN {TRUE, sendRequested} ELSE {sendRequested}
  /\ waitAge' = 0

\* A new line rate: what was received at the old one is discarded.
ApplyBaudRate ==
  /\ pendingBaud
  /\ pendingBaud' = FALSE
  /\ wire' = <<>>
  /\ requestAge' = ReplyDeadline
  /\ RestartHandshake
  /\ UNCHANGED <<attemptAge, pollPhase, cycleStartAge, cycleEndAge, timeoutAge,
                 writeDeferred, writeAge, confirmAge, discoveryAge, errorFailures,
                 errorDisabled, bootClear, rangeAware, remoteVars, passed,
                 wroteSinceRequest, greeted>>

\* The rate is already in use, or the UART refuses it: the link stays up.
KeepBaudRate ==
  /\ pendingBaud
  /\ pendingBaud' = FALSE
  /\ UNCHANGED <<connVars, cycleVars, writeVars, optVars, commandVars, remoteVars,
                 historyVars, responseAge, wire, passed>>

ConnectDue == retries < MaxRetries /\ attemptAge >= ConnectInterval

PauseOver == retries >= MaxRetries /\ attemptAge >= 3 * ConnectInterval

\* One pass of loop() while disconnected: MaxRetries attempts, then a pause.
PassDisconnected ==
  /\ ~pendingBaud
  /\ ~connected
  /\ passed' = TRUE
  /\ \/ /\ ConnectDue
        /\ wire' = Answered(wire, "connectOk")
        /\ attemptAge' = 0
        /\ retries' = retries + 1
     \/ /\ PauseOver
        /\ retries' = 0
        /\ UNCHANGED <<wire, attemptAge>>
     \/ /\ ~ConnectDue /\ ~PauseOver
        /\ UNCHANGED <<wire, attemptAge, retries>>
  /\ UNCHANGED <<connected, cycleVars, writeVars, optVars, commandVars, remoteVars,
                 historyVars, responseAge, pendingBaud>>

-----------------------------------------------------------------------------
(* One pass of loop() while connected.  The pass first ends an overdue       *)
(* request and then decides; these are the values it decides on.             *)

TimedOut == cycleRunning /\ requestAge >= ReplyDeadline
Running == cycleRunning /\ ~TimedOut
Draining == TimedOut \/ (replyDeferred /\ timeoutAge < DeferDelay)
EndAge == IF TimedOut THEN 0 ELSE cycleEndAge
PollDue == confirmSettings \/ EndAge >= UpdateInterval

\* Mutants: a write inside the drain after a timeout, and before a poll that is due.
CanWrite_Undrained == ~Running /\ ~(writeDeferred /\ PollDue)
CanWrite_Greedy == ~Running /\ ~Draining
CanWrite == ~Running /\ ~Draining /\ ~(writeDeferred /\ PollDue)
SendNow == sendRequested /\ CanWrite /\ ~commandsHeld

DiscoveryNow ==
  IF discovery = "waiting" /\ (discoveryAge >= IdentifyTimeout \/ sendRequested
                               \/ remote # "none")
  THEN "done" ELSE discovery

\* The first poll cycle of this connection has ended and no source has
\* written the register since boot.
BootClearDue == bootClear = "polling" /\ ~Running

\* Mutants: the clear overrides a source; the clear waits for a source.
RemoteNow_Override == IF BootClearDue THEN "clear" ELSE remote
RemoteNow == IF BootClearDue /\ ~remoteWritten THEN "clear" ELSE remote

ErrorPhaseFailed == TimedOut /\ Phases[pollPhase] = "errorcode"

\* Every pass books an overdue request before anything else.
BookOverdue ==
  /\ errorFailures' = IF ErrorPhaseFailed THEN AtMost(errorFailures + 1, 3)
                      ELSE errorFailures
  /\ errorDisabled' = (errorDisabled \/ (ErrorPhaseFailed /\ errorFailures + 1 >= 3))
  /\ timeoutAge' = IF TimedOut THEN 0 ELSE timeoutAge
  /\ replyDeferred' = Draining

Wrote ==
  /\ writeDeferred' = TRUE
  /\ writeAge' = 0
  /\ wire' = Answered(wire, "setAck")
  /\ wroteSinceRequest' = TRUE
  /\ greeted' = FALSE
  /\ cycleRunning' = Running
  /\ cycleEndAge' = EndAge

TransmitSet ==
  /\ ~pendingBaud /\ connected
  /\ SendNow
  /\ BookOverdue
  /\ Wrote
  /\ sendRequested' = FALSE
  /\ confirmSettings' = TRUE
  /\ confirmAge' = ConfirmInterval
  /\ discovery' = DiscoveryNow
  /\ waitAge' = 0
  /\ passed' = TRUE
  /\ UNCHANGED <<connVars, pollPhase, requestAge, cycleStartAge, discoveryAge,
                 baselined, bootClear, commandsHeld, rangeAware, remoteVars,
                 responseAge, pendingBaud>>

TransmitRemote ==
  /\ ~pendingBaud /\ connected
  /\ ~SendNow
  /\ CanWrite /\ RemoteNow # "none"
  /\ BookOverdue
  /\ Wrote
  /\ lastSent' = RemoteNow
  /\ remote' = "none"
  /\ bootClear' = IF BootClearDue THEN "done" ELSE bootClear
  /\ discovery' = DiscoveryNow
  /\ passed' = TRUE
  /\ UNCHANGED <<connVars, pollPhase, requestAge, cycleStartAge, confirmSettings,
                 confirmAge, discoveryAge, baselined, commandVars, remoteWritten,
                 lastAsked, waitAge, responseAge, pendingBaud>>

\* Nothing to write: the identify exchange, a new cycle, the comms timeout.
Idle == ~Running /\ ~Draining

\* Mutant: no quiet period after a write.
StillDeferred_Never == FALSE
StillDeferred == writeDeferred /\ ~(Idle /\ writeAge >= DeferDelay)
StartIdentify ==
  Idle /\ ~StillDeferred /\ baselined /\ DiscoveryNow = "idle"
StartCycle ==
  /\ Idle /\ ~StillDeferred
  /\ ~StartIdentify /\ DiscoveryNow # "waiting"
  /\ EndAge >= UpdateInterval \/ (confirmSettings /\ confirmAge >= ConfirmInterval)

CommsLost == responseAge > CommsTimeout

PassPoll ==
  /\ ~pendingBaud /\ connected
  /\ ~SendNow
  /\ ~(CanWrite /\ RemoteNow # "none")
  /\ errorFailures' = IF ErrorPhaseFailed THEN AtMost(errorFailures + 1, 3)
                      ELSE errorFailures
  /\ errorDisabled' = (errorDisabled \/ (ErrorPhaseFailed /\ errorFailures + 1 >= 3))
  /\ timeoutAge' = IF TimedOut THEN 0 ELSE timeoutAge
  /\ writeDeferred' = StillDeferred
  /\ bootClear' = IF bootClear = "armed" /\ StartCycle THEN "polling"
                  ELSE IF BootClearDue THEN "done" ELSE bootClear
  /\ remote' = RemoteNow
  /\ discoveryAge' = IF StartIdentify THEN 0 ELSE discoveryAge
  /\ wire' = IF StartIdentify THEN Answered(wire, "identify")
             ELSE IF StartCycle THEN Answered(wire, Phases[1]) ELSE wire
  /\ cycleEndAge' = EndAge
  /\ pollPhase' = IF StartCycle THEN 1 ELSE pollPhase
  /\ requestAge' = IF StartCycle THEN 0 ELSE requestAge
  /\ cycleStartAge' = IF StartCycle THEN 0 ELSE cycleStartAge
  /\ confirmAge' = IF StartCycle THEN 0 ELSE confirmAge
  /\ wroteSinceRequest' = (wroteSinceRequest /\ ~StartCycle)
  /\ passed' = TRUE
  /\ \/ /\ ~CommsLost
        /\ cycleRunning' = (Running \/ StartCycle)
        /\ replyDeferred' = Draining
        /\ discovery' = IF StartIdentify THEN "waiting" ELSE DiscoveryNow
        /\ UNCHANGED <<connected, retries, confirmSettings, baselined, responseAge,
                       commandsHeld, sendRequested, waitAge>>
     \/ /\ CommsLost
        /\ RestartHandshake
  /\ greeted' = (greeted /\ ~StartCycle)
  /\ UNCHANGED <<attemptAge, writeAge, rangeAware, remoteWritten, lastAsked,
                 lastSent, pendingBaud>>

-----------------------------------------------------------------------------
(* Reception: one packet, at the start of a pass *)

Arrives(p) == ~pendingBaud /\ wire # <<>> /\ Head(wire) = p

BootClearRearmed ==
  IF BootClearEnabled /\ bootClear # "done" THEN "armed" ELSE bootClear

\* A CONNECT_OK starts over whatever the driver was doing, and the next pass
\* polls at once.
ReceiveConnectOk ==
  /\ Arrives("connectOk")
  /\ wire' = Tail(wire)
  /\ connected' = TRUE
  /\ retries' = 0
  /\ cycleRunning' = FALSE
  /\ writeDeferred' = FALSE
  /\ replyDeferred' = FALSE
  /\ confirmSettings' = FALSE
  /\ cycleEndAge' = UpdateInterval
  /\ discovery' = "idle"
  /\ baselined' = FALSE
  /\ bootClear' = BootClearRearmed
  /\ responseAge' = 0
  /\ greeted' = TRUE
  /\ UNCHANGED <<attemptAge, pollPhase, requestAge, cycleStartAge, timeoutAge,
                 writeAge, confirmAge, discoveryAge, errorFailures, errorDisabled,
                 commandVars, remoteVars, waitAge, wroteSinceRequest, pendingBaud,
                 passed>>

ReceiveSetAck ==
  /\ Arrives("setAck")
  /\ wire' = Tail(wire)
  /\ responseAge' = 0
  /\ UNCHANGED <<connVars, cycleVars, writeVars, optVars, commandVars, remoteVars,
                 historyVars, pendingBaud, passed>>

\* The reply to the identify request; a late one is ignored.
ReceiveIdentify ==
  /\ Arrives("identify")
  /\ wire' = Tail(wire)
  /\ discovery' = IF discovery = "waiting" /\ discoveryAge < IdentifyTimeout
                  THEN "done" ELSE discovery
  /\ UNCHANGED <<connVars, cycleVars, writeVars, discoveryAge, baselined,
                 errorFailures, errorDisabled, bootClear, commandVars, remoteVars,
                 historyVars, responseAge, pendingBaud, passed>>

\* A reply answers the request being waited for, or one that timed out less
\* than a quiet period ago; nothing else moves the cycle.
AwaitingExpected(type) == cycleRunning /\ Phases[pollPhase] = type
LateExpected(type) ==
  /\ ~cycleRunning /\ replyDeferred
  /\ pollPhase <= NPhases /\ Phases[pollPhase] = type

\* Mutant: 0x04 polled although disabled.
NextPhase_NoSkip(skipError) == pollPhase + 1
NextPhase(skipError) ==
  IF pollPhase + 1 <= NPhases /\ Phases[pollPhase + 1] = "errorcode" /\ skipError
  THEN pollPhase + 2 ELSE pollPhase + 1

SlowCycle == sendRequested /\ cycleStartAge >= ReplyDeadline

ReceiveInfo(type) ==
  /\ Arrives(type)
  /\ responseAge' = 0
  /\ baselined' = (baselined \/ type = "settings")
  \* _sent and _wanted decide whether the unit still owes a confirmation
  /\ confirmSettings' \in IF type # "settings" THEN {confirmSettings}
                          ELSE IF rangeAware THEN BOOLEAN ELSE {FALSE}
  /\ errorFailures' = IF type = "errorcode" THEN 0 ELSE errorFailures
  /\ errorDisabled' = (errorDisabled /\ type # "errorcode")
  /\ LET expected == AwaitingExpected(type) \/ LateExpected(type)
         next == NextPhase(errorDisabled')
         goesOn == next <= NPhases /\ ~SlowCycle
     IN  \/ /\ expected /\ goesOn
            /\ cycleRunning' = TRUE
            /\ pollPhase' = next
            /\ requestAge' = 0
            /\ wire' = Answered(Tail(wire), Phases[next])
            /\ replyDeferred' = FALSE
            /\ wroteSinceRequest' = FALSE
            /\ greeted' = FALSE
            /\ UNCHANGED cycleEndAge
         \/ /\ expected /\ ~goesOn
            /\ cycleRunning' = FALSE
            /\ pollPhase' = next
            /\ cycleEndAge' = 0
            /\ wire' = Tail(wire)
            /\ replyDeferred' = (replyDeferred /\ ~LateExpected(type))
            /\ UNCHANGED <<requestAge, wroteSinceRequest, greeted>>
         \/ /\ ~expected
            /\ wire' = Tail(wire)
            /\ UNCHANGED <<cycleRunning, pollPhase, requestAge, cycleEndAge,
                           replyDeferred, wroteSinceRequest, greeted>>
  /\ UNCHANGED <<connVars, cycleStartAge, timeoutAge, writeDeferred, writeAge,
                 confirmAge, discovery, discoveryAge, bootClear, commandVars,
                 remoteVars, waitAge, pendingBaud, passed>>

Receive ==
  \/ ReceiveConnectOk
  \/ ReceiveSetAck
  \/ ReceiveIdentify
  \/ \E type \in InfoTypes : ReceiveInfo(type)

Pass ==
  \/ ApplyBaudRate \/ KeepBaudRate
  \/ PassDisconnected \/ TransmitSet \/ TransmitRemote \/ PassPoll

-----------------------------------------------------------------------------
(* Time *)

\* One tick older.  An age that no guard reads until it is next reset is kept
\* saturated.
Aged(age, cap, isRead) == IF isRead THEN AtMost(age + 1, cap) ELSE cap

Tick ==
  /\ passed /\ ~pendingBaud
  /\ Prompt => wire = <<>>
  /\ passed' = FALSE
  /\ attemptAge' = Aged(attemptAge, IF retries < MaxRetries THEN ConnectInterval
                                   ELSE 3 * ConnectInterval, TRUE)
  /\ requestAge' = Aged(requestAge, ReplyDeadline, cycleRunning)
  /\ cycleStartAge' = Aged(cycleStartAge, ReplyDeadline, cycleRunning \/ replyDeferred)
  /\ cycleEndAge' = Aged(cycleEndAge, UpdateInterval, ~cycleRunning)
  /\ timeoutAge' = Aged(timeoutAge, DeferDelay, replyDeferred)
  /\ writeAge' = Aged(writeAge, DeferDelay, TRUE)
  /\ confirmAge' = Aged(confirmAge, ConfirmInterval, confirmSettings)
  /\ discoveryAge' = Aged(discoveryAge, IdentifyTimeout, discovery = "waiting")
  /\ responseAge' = IF connected THEN AtMost(responseAge + 1, ResponseCap) ELSE 0
  /\ waitAge' = IF connected /\ sendRequested /\ ~commandsHeld
                THEN AtMost(waitAge + 1, WaitCap) ELSE 0
  /\ UNCHANGED <<connected, retries, cycleRunning, pollPhase, replyDeferred,
                 writeDeferred, confirmSettings, discovery, baselined,
                 errorFailures, errorDisabled, bootClear, commandVars, remoteVars,
                 wroteSinceRequest, greeted, pendingBaud, wire>>

Next ==
  \/ Pass
  \/ Receive
  \/ Tick
  \/ Lose
  \/ ResumeCommands \/ QueueAutoTarget \/ HoldCommands
  \/ \E kind \in {"feed", "clear"} : AskRemote(kind)
  \/ SetBaudRate

Spec == Init /\ [][Next]_vars

\* taskFunc() calls loop() at least every 100 ms and time passes; a packet on
\* the line is read by the next pass.  Producers owe nothing.
Fairness == WF_vars(Pass) /\ WF_vars(Tick) /\ WF_vars(Receive)

\* The line may lose packets, but not every answer to a connect attempt.
LineFairness == SF_vars(ReceiveConnectOk)

FairSpec == Spec /\ Fairness /\ LineFairness

-----------------------------------------------------------------------------
(* Properties *)

\* Every variable has its type.
TypeOK ==
  /\ {connected, cycleRunning, replyDeferred, writeDeferred, confirmSettings,
      baselined, errorDisabled, sendRequested, commandsHeld, rangeAware,
      remoteWritten, pendingBaud, passed, wroteSinceRequest,
      greeted} \subseteq BOOLEAN
  /\ retries \in 0 .. MaxRetries
  /\ attemptAge \in 0 .. 3 * ConnectInterval
  /\ pollPhase \in 1 .. NPhases + 1
  /\ requestAge \in 0 .. ReplyDeadline
  /\ cycleStartAge \in 0 .. ReplyDeadline
  /\ cycleEndAge \in 0 .. UpdateInterval
  /\ timeoutAge \in 0 .. DeferDelay
  /\ writeAge \in 0 .. DeferDelay
  /\ confirmAge \in 0 .. ConfirmInterval
  /\ discovery \in {"idle", "waiting", "done"}
  /\ discoveryAge \in 0 .. IdentifyTimeout
  /\ errorFailures \in 0 .. 3
  /\ bootClear \in {"idle", "armed", "polling", "done"}
  /\ responseAge \in 0 .. ResponseCap
  /\ {remote, lastAsked, lastSent} \subseteq {"none", "feed", "clear"}
  /\ wire \in Seq(Packets)
  /\ waitAge \in 0 .. WaitCap

\* A reply inside the quiet period may resume the cycle only because nothing
\* was written since the request it answers (processPacket(), lateExpected).
ResumeSafe == replyDeferred => ~wroteSinceRequest

\* A poll request never goes out within DeferDelay of a SET or a remote
\* temperature, except on a fresh handshake (loop(), _writeDeferred).
QuietAfterWrite ==
  [][wroteSinceRequest /\ ~wroteSinceRequest'
       => writeAge >= DeferDelay \/ greeted]_vars

\* A committed command that is not held waits for less than two reply deadlines
\* and two quiet periods, however slowly the unit answers and whatever else is
\* written (docs/protocol.md: a slow cycle yields at a phase boundary).
BoundedWait == waitAge < 2 * (ReplyDeadline + DeferDelay)

\* While connected, a silent unit is noticed.  A pass that writes returns before
\* the comms check, so remote feeds postpone it, but only until polling is due.
SilenceBounded == connected => responseAge <= CommsTimeout + UpdateInterval

\* Neither a committed command nor a silent unit is left waiting.
WaitsAreBounded == BoundedWait /\ SilenceBounded

\* Once a room source has spoken, the register holds what the last source
\* asked for; the first-connect clear never overrides it.
RemoteFollowsSource == remoteWritten /\ remote = "none" => lastSent = lastAsked

\* The first-connect clear goes out at most once per boot: CONNECT_OK re-arms
\* it after every reconnect, but not once it has been written.
BootClearOnce ==
  ~remoteWritten /\ lastSent = "clear" => bootClear = "done" /\ remote = "none"

\* A stream of commands and remote feeds cannot starve polling: while the
\* link is up, cycles keep starting (loop(), pollDue).
PollsContinue == <>[](~pendingBaud) => []<>(cycleRunning \/ ~connected)

\* However often the line drops, the handshake succeeds again once the line
\* rate is left alone.
Reconnects == <>[](~pendingBaud) => []<>connected

\* A unit that never answers 0x04 still has its later phases polled: three
\* timeouts disable the phase for good.
LaterPhasesPolled ==
  <>[](connected /\ ~pendingBaud) => []<>(cycleRunning /\ pollPhase = NPhases)

\* A device that has fed the pump before hands the register back after a
\* restart, unless a source writes it or commands keep taking precedence.
BootClearHappens ==
  BootClearEnabled /\ <>[](connected /\ ~sendRequested)
    => <>(remoteWritten \/ lastSent = "clear")
=============================================================================
