---------------------------- MODULE Cn105Mailbox ----------------------------
(***************************************************************************)
(* The command mailbox of CN105Controller: from a validated command to the *)
(* unit's answer.                                                          *)
(*                                                                         *)
(* The coordinator observes the unit, holds the mailbox, decides, and      *)
(* replaces the held batch (holdCommands, heldCommand, resumeCommands), or *)
(* stages an internal Auto target (queueAutoTarget).  The CN105 task sends *)
(* the batch as one SET, asks for SETTINGS, and settles every commanded    *)
(* value against the answer: confirmed, refused, or not ours.              *)
(*                                                                         *)
(* When the driver may write is Cn105Link's subject.  Here the CN105 task  *)
(* sends between two SETTINGS exchanges; a unit that answers late is       *)
(* LateReplies.  SETs may be lost, a wall controller may change the unit   *)
(* at any time, and the unit may decline a setpoint.                       *)
(*                                                                         *)
(* Temperatures are in half degrees.  The four fields stand for the six of *)
(* the protocol: "fan" is the fan speed and both vanes, which the driver   *)
(* treats alike.  Revisions are only ever compared with the current one,   *)
(* so each is kept as "still current".                                     *)
(***************************************************************************)
EXTENDS Naturals, Sequences

CONSTANTS
  None,            \* no value: an absent optional, an unset has* flag, a NAN
  Temps,           \* setpoints, in half degrees
  Grace,           \* CN105_GRACE_SAFETY_MS, in ticks
  UnitEncoding,    \* the encoding of the unit's SETTINGS packets
  Compatibility,   \* Selection::Compatibility, the preference of an upgraded device
  Declined,        \* setpoints the unit does not take
  Inputs,          \* bound: what the coordinator is asked to command
  AutoTargets,     \* bound: the setpoints steerAuto() computes
  WallMoves,       \* bound: the settings a wall controller makes
  InitialUnit,     \* bound: what the unit is doing at boot
  MayReconnect,    \* bound: the handshake may start over
  LosesSets,       \* bound: SETs may be lost
  LosesReplies,    \* bound: SETTINGS replies may be lost
  LateReplies      \* TRUE: SETTINGS replies may outlive a SET and a tick

Fields == {"power", "mode", "temp", "fan"}
Modes == {"auto", "heat", "fan"}
Fans == {"quiet", "high"}
LineEncodings == {"unknown", "legacy", "enhanced"}

Batch == [power : BOOLEAN \cup {None}, mode : Modes \cup {None},
          temp : Temps \cup {None}, fan : Fans \cup {None}]
Settings == [power : BOOLEAN, mode : Modes, temp : Temps, fan : Fans]
OwnedFields == {"power", "mode", "temp"}  \* the ones _sent attributes

\* Transport quantization: whole degrees unless the unit takes halves.
Quantize(t, enc) == IF enc = "enhanced" THEN t ELSE t - (t % 2)

ASSUME ValuesAssumption ==
  /\ Temps \subseteq Nat \ {0}
  /\ None \notin Temps /\ None \notin BOOLEAN /\ None \notin Modes \cup Fans
  /\ 44 \in Temps
  /\ \A t \in Temps, enc \in LineEncodings : Quantize(t, enc) \in Temps
  /\ \A t \in Temps : t + (t % 2) \in Temps
  /\ Declined \subseteq Temps
  /\ Grace \in Nat \ {0}
  /\ UnitEncoding \in {"legacy", "enhanced"}

ASSUME InputsAssumption ==
  /\ Inputs \subseteq Batch
  /\ AutoTargets \subseteq Temps
  /\ WallMoves \subseteq Batch
  /\ InitialUnit \in Settings
  /\ {Compatibility, MayReconnect, LosesSets, LosesReplies, LateReplies} \subseteq BOOLEAN

VARIABLES
  \* the driver's view of the unit: _state
  rep, connected, encoding,
  baselined,        \* _settingsBaselined
  \* mailbox
  staged, sendRequested, commandsHeld, rangeAware,
  cmdHere,          \* _commandConnection is the current connection
  cmdEncoding,      \* _commandEncoding
  \* commanded values: _wanted
  wanted, hasBeenSent, sentFlags, changeAge, tempAtSend,
  \* transmitted values: _sent and the times of the last SET of each
  sent, sentAge,
  superseded,       \* _supersededTemp
  supersededAge,
  \* the unit's refusals
  refused,          \* _refusedTemp, _refusedAnswer, _refusedMode
  unconfirmed,      \* _unconfirmedTemp
  external,         \* _externalAutoChanges moved, as its readers see it
  \* the coordinator, under controlMutex
  deciding,         \* "no"; submit(): "observed", "held"; loop(): "looking", "resuming"
  seen,             \* resolvedState and the intent with it, None outside a decision
  previous,         \* heldCommand() as of holdCommands()
  \* the unit and the line
  unit, replies,
  exchanged,        \* SETTINGS has been answered or given up since the last SET
  \* history, read by properties only
  wallActed,        \* a wall controller has changed power, mode or setpoint
  tempHere, tempEncoding,  \* what the newest commanded setpoint was validated for
  withdrawn,        \* fields cancelled and not commanded again since
  lostInARow        \* setpoint SETs lost since one last moved the unit

linkVars    == <<rep, connected, encoding, baselined>>
mailVars    == <<staged, sendRequested, commandsHeld, rangeAware, cmdHere, cmdEncoding>>
wantedVars  == <<wanted, hasBeenSent, sentFlags, changeAge, tempAtSend>>
sentVars    == <<sent, sentAge, superseded, supersededAge>>
refusalVars == <<refused, unconfirmed>>
decideVars  == <<deciding, seen, previous>>
lineVars    == <<unit, replies, exchanged>>
historyVars == <<wallActed, tempHere, tempEncoding, withdrawn, lostInARow>>
vars == <<linkVars, mailVars, wantedVars, sentVars, refusalVars, external,
          decideVars, lineVars, historyVars>>

Nothing == [f \in Fields |-> None]
Given(batch) == {f \in Fields : batch[f] # None}
Update(base, batch) == [f \in Fields |-> IF batch[f] # None THEN batch[f] ELSE base[f]]
Without(batch, fields) == [f \in Fields |-> IF f \in fields THEN None ELSE batch[f]]
Older(age) == IF age < Grace THEN age + 1 ELSE Grace

Init ==
  /\ rep = [power |-> FALSE, mode |-> "auto", temp |-> 44, fan |-> "quiet"]
  /\ connected = FALSE /\ encoding = "unknown" /\ baselined = FALSE
  /\ staged = Nothing /\ sendRequested = FALSE /\ commandsHeld = FALSE
  /\ rangeAware = FALSE /\ cmdHere = TRUE /\ cmdEncoding = "unknown"
  /\ wanted = Nothing /\ hasBeenSent = FALSE /\ sentFlags = {}
  /\ changeAge = 0 /\ tempAtSend = None
  /\ sent = Nothing /\ sentAge = [f \in OwnedFields |-> Grace]
  /\ superseded = None /\ supersededAge = Grace
  /\ refused = None /\ unconfirmed = None
  /\ external = FALSE
  /\ deciding = "no" /\ seen = None /\ previous = Nothing
  /\ unit = InitialUnit /\ replies = <<>> /\ exchanged = TRUE
  /\ wallActed = FALSE /\ tempHere = FALSE /\ tempEncoding = "unknown"
  /\ withdrawn = {} /\ lostInARow = 0

-----------------------------------------------------------------------------
(* The coordinator: submit(), steerAuto() and loop(), one at a time          *)

\* getEffectiveState(): a commanded value masks the reported one in its grace.
Masked(f) == wanted[f] # None /\ changeAge < Grace
Effective(f) == IF Masked(f) THEN wanted[f] ELSE rep[f]

\* withIntent(): what is staged counts as already so.
Intended(f) == IF staged[f] # None THEN staged[f] ELSE Effective(f)

\* submit() and steerAuto() look at the unit: refresh().  Everything they decide
\* is validated against this observation.
Observe ==
  /\ deciding = "no"
  /\ deciding' = "observed"
  /\ seen' = [here |-> TRUE, encoding |-> encoding, current |-> TRUE,
              mode |-> Intended("mode"), temp |-> Intended("temp")]
  /\ UNCHANGED <<linkVars, mailVars, wantedVars, sentVars, refusalVars, external,
                 previous, lineVars, historyVars>>

\* holdCommands() and heldCommand(): nothing leaves until the batch is replaced.
HoldCommands ==
  /\ deciding = "observed"
  /\ deciding' = "held"
  /\ commandsHeld' = TRUE
  /\ previous' = staged
  /\ UNCHANGED <<linkVars, staged, sendRequested, rangeAware, cmdHere, cmdEncoding,
                 wantedVars, sentVars, refusalVars, external, seen, lineVars,
                 historyVars>>

Decided == deciding' = "no" /\ seen' = None /\ previous' = Nothing

\* loop() looks at the unit, as reported.
LookAround ==
  /\ deciding = "no"
  /\ deciding' = "looking"
  /\ seen' = [here |-> TRUE, encoding |-> encoding, current |-> TRUE,
              mode |-> rep.mode, temp |-> rep.temp]
  /\ UNCHANGED <<linkVars, mailVars, wantedVars, sentVars, refusalVars, external,
                 previous, lineVars, historyVars>>

HeldHere == connected /\ encoding # "unknown" /\ commandsHeld

\* loop() finds the mailbox held on a working connection and reads what is in it.
FindHeld ==
  /\ deciding = "looking" /\ HeldHere
  /\ deciding' = "resuming"
  /\ seen' = [seen EXCEPT !.mode = rep.mode, !.temp = rep.temp]
  /\ previous' = staged
  /\ UNCHANGED <<linkVars, mailVars, wantedVars, sentVars, refusalVars, external,
                 lineVars, historyVars>>

\* merged(): switching off drops what was pending, the fan mode its setpoint.
Merged(old, new) ==
  Update(IF new.power = FALSE THEN Nothing
         ELSE IF new.mode = "fan" THEN Without(old, {"temp"}) ELSE old, new)

\* normalizeCommand(): a mode or a power-on carries the setpoint along.  Every
\* setpoint of the instance is in range, so what is left of normalizeTarget() is
\* the grid.  Only the compatibility range is ready before the first SETTINGS.
NeedsTemp(cmd, mode) ==
  mode # "fan" /\ (cmd.temp # None \/ cmd.mode # None \/ cmd.power = TRUE)
OnGrid(t, enc) ==
  IF Compatibility THEN Quantize(t, enc)
  ELSE IF enc = "legacy" THEN t + (t % 2) ELSE t
ModeOf(cmd) == IF cmd.mode # None THEN cmd.mode ELSE seen.mode
Normalized(cmd) ==
  LET target == IF cmd.temp # None THEN cmd.temp ELSE seen.temp
  IN  IF NeedsTemp(cmd, ModeOf(cmd))
      THEN [cmd EXCEPT !.temp = OnGrid(target, seen.encoding)] ELSE cmd
Acceptable(cmd) ==
  /\ cmd.temp # None => ModeOf(cmd) # "fan"
  /\ NeedsTemp(cmd, ModeOf(cmd)) => Compatibility \/ seen.encoding # "unknown"

\* cancelWantedLocked(): a transmitted setpoint can still be echoed, so it is
\* remembered as ours.  Mutant: the commanded values stay.
Kept_Retried(canceled) ==
  [wanted |-> wanted, sentFlags |-> sentFlags, echo |-> <<superseded, supersededAge>>]
Kept(canceled) ==
  [wanted |-> Without(wanted, canceled),
   sentFlags |-> sentFlags \ canceled,
   echo |-> IF "temp" \in canceled \cap sentFlags /\ wanted.temp # None
            THEN <<wanted.temp, changeAge>> ELSE <<superseded, supersededAge>>]

\* A new command is waited for anew.
Await == hasBeenSent' = FALSE /\ changeAge' = 0 /\ rangeAware' = TRUE

\* queueCommandLocked(): cmd on top of a batch and of the commanded values kept.
Queue(batch, kept, cmd) ==
  /\ staged' = Update(batch, cmd)
  /\ wanted' = Update(kept.wanted, cmd)
  /\ sentFlags' = kept.sentFlags \ Given(cmd)
  /\ LET supersedes == /\ cmd.temp # None /\ kept.wanted.temp # None
                       /\ "temp" \in kept.sentFlags
                       /\ cmd.temp # kept.wanted.temp
         echo == IF supersedes THEN <<kept.wanted.temp, changeAge>> ELSE kept.echo
     IN  superseded' = echo[1] /\ supersededAge' = echo[2]
  /\ IF cmd = Nothing
     THEN UNCHANGED <<hasBeenSent, changeAge, rangeAware>>
     ELSE Await

\* What resumeCommands() takes back: the staged fields the new batch lacks, and
\* what switching off or the fan mode makes void.  Fields in flight that the
\* batch does not mention keep waiting for their confirmation.
Canceled(cmd) ==
  (Given(staged) \ Given(cmd))
  \cup (IF cmd.power = FALSE THEN {"power", "mode", "temp"} ELSE {})
  \cup (IF cmd.mode = "fan" /\ cmd.temp = None THEN {"temp"} ELSE {})

\* A setpoint validated for another connection stays held.  Mutant: any setpoint
\* does.
StaysHeld_Any(cmd) == cmd.temp # None
StaysHeld(cmd) ==
  cmd.temp # None /\ (~seen.here \/ encoding # seen.encoding \/ seen.encoding = "unknown")

\* resumeCommands(): replaces the held batch by one validated against seen.
ResumeCommands(cmd) ==
  /\ Decided
  /\ Queue(Nothing, Kept(Canceled(cmd)), cmd)
  /\ sendRequested' = (cmd # Nothing)
  /\ cmdHere' = seen.here
  /\ cmdEncoding' = seen.encoding
  /\ commandsHeld' = StaysHeld(cmd)
  /\ IF cmd.temp = None THEN UNCHANGED <<tempHere, tempEncoding>>
     ELSE tempHere' = seen.here /\ tempEncoding' = seen.encoding
  /\ withdrawn' = (withdrawn \cup Canceled(cmd)) \ Given(cmd)
  /\ UNCHANGED <<linkVars, tempAtSend, sent, sentAge, refusalVars, external, lineVars,
                 wallActed, lostInARow>>

\* submit(): the command joins what was already in the mailbox.
Submit(input) ==
  /\ deciding = "held" /\ Acceptable(input)
  /\ \E merged \in {Merged(previous, Normalized(input))} :
       Acceptable(merged) /\ \E cmd \in {Normalized(merged)} : ResumeCommands(cmd)

\* submit() when its policy cannot be stored: what was there goes on.
StorageFailure == deciding = "held" /\ ResumeCommands(previous)

\* loop(): the held batch is validated again and released.
ResumeHeld ==
  /\ deciding = "resuming" /\ Acceptable(previous)
  /\ \E cmd \in {Normalized(previous)} : ResumeCommands(cmd)

\* Validation fails, or there is nothing to do: the mailbox stays as it is, held
\* or not.
GiveUp ==
  /\ deciding # "no"
  /\ deciding = "looking" => ~HeldHere
  /\ deciding = "resuming" => ~Acceptable(previous)
  /\ Decided
  /\ UNCHANGED <<linkVars, mailVars, wantedVars, sentVars, refusalVars, external,
                 lineVars, historyVars>>

\* queueAutoTarget(): steering gives way to anything that moved since it looked.
QueueAutoTarget(target) ==
  /\ deciding = "observed"
  /\ ~commandsHeld /\ connected /\ encoding # "unknown"
  /\ seen.here /\ seen.current /\ seen.encoding = encoding
  /\ Decided
  /\ Queue(staged, Kept({}), [Nothing EXCEPT !.temp = target])
  /\ sendRequested' = TRUE
  /\ cmdHere' = TRUE
  /\ cmdEncoding' = encoding
  /\ tempHere' = TRUE /\ tempEncoding' = encoding
  /\ withdrawn' = withdrawn \ {"temp"}
  /\ UNCHANGED <<linkVars, commandsHeld, tempAtSend, sent, sentAge, refusalVars,
                 external, lineVars, wallActed, lostInARow>>

-----------------------------------------------------------------------------
(* The CN105 task *)

\* loop() never sends a setpoint on a connection or in an encoding other than
\* the one it was validated for: it holds the batch instead.  Mutant: it sends.
Foreign_Never == FALSE
Foreign == rangeAware /\ staged.temp # None /\ ~(cmdHere /\ cmdEncoding = encoding)

HoldForeign ==
  /\ connected /\ Foreign /\ ~commandsHeld
  /\ commandsHeld' = TRUE
  /\ UNCHANGED <<linkVars, staged, sendRequested, rangeAware, cmdHere, cmdEncoding,
                 wantedVars, sentVars, refusalVars, external, decideVars, lineVars,
                 historyVars>>

\* What the unit makes of a SET: the values, except a setpoint it declines,
\* in whose place it stays or settles anywhere else.
UnitAnswers(set) ==
  LET taken == Update(unit, set) IN
  IF set.temp \in Declined
  THEN {[taken EXCEPT !.temp = t] : t \in {unit.temp} \cup (Temps \ Declined)}
  ELSE {taken}

\* The snapshot-and-clear of loop() and the SET it writes.
TransmitSet ==
  LET onWire == IF staged.temp = None THEN staged
                ELSE [staged EXCEPT !.temp = Quantize(staged.temp, encoding)]
      owned == Given(staged) \cap OwnedFields
  IN
  /\ connected /\ sendRequested /\ ~Foreign /\ ~commandsHeld
  /\ LateReplies \/ (exchanged /\ replies = <<>>)
  /\ exchanged' = FALSE
  /\ staged' = Nothing
  /\ sendRequested' = FALSE
  /\ hasBeenSent' = TRUE
  /\ sentFlags' = sentFlags \cup Given(staged)
  /\ tempAtSend' = IF staged.temp # None THEN rep.temp ELSE tempAtSend
  /\ sent' = [f \in Fields |-> IF f \in owned THEN onWire[f] ELSE sent[f]]
  /\ sentAge' = [f \in OwnedFields |-> IF f \in owned THEN 0 ELSE sentAge[f]]
  /\ \/ /\ unit' \in UnitAnswers(onWire)
        /\ lostInARow' = IF unit'.temp # unit.temp THEN 0 ELSE lostInARow
     \/ /\ LosesSets
        /\ lostInARow' = IF staged.temp # None /\ lostInARow < 2
                         THEN lostInARow + 1 ELSE lostInARow
        /\ UNCHANGED unit
  /\ UNCHANGED <<linkVars, commandsHeld, rangeAware, cmdHere, cmdEncoding, wanted,
                 changeAge, superseded, supersededAge, refusalVars, external,
                 decideVars, replies, wallActed, tempHere, tempEncoding, withdrawn>>

\* The settings request of a poll cycle, and the answer the unit makes.
PollSettings ==
  /\ connected
  /\ Len(replies) < IF LateReplies THEN 2 ELSE 1
  /\ replies' = Append(replies, unit)
  /\ UNCHANGED <<linkVars, mailVars, wantedVars, sentVars, refusalVars, external,
                 decideVars, unit, exchanged, historyVars>>

\* handleInfoResponse(), attribution: is a change of the unit ours?
Expired(f) == sentAge[f] >= Grace
OurTemp(next) ==
  \/ sent.temp # None /\ (~Expired("temp") \/ next.temp = sent.temp)
  \/ next.temp = superseded /\ supersededAge < Grace
Ours(f, next) == sent[f] # None /\ next[f] = sent[f]
\* Mutant: a field that did not change needs evidence too.
OurEntry_Both(next) == Ours("power", next) /\ Ours("mode", next)
OurEntry(next) ==
  (rep.power \/ Ours("power", next)) /\ (rep.mode = "auto" \/ Ours("mode", next))
AutoIn(s) == s.power /\ s.mode = "auto"
ExternalChange(next) ==
  /\ baselined
  /\ AutoIn(next)
  /\ IF AutoIn(rep) THEN next.temp # rep.temp /\ ~OurTemp(next) ELSE ~OurEntry(next)

\* Evidence is consumed by the first change, confirmation or expiry.
Attributed(next) ==
  {f \in OwnedFields : sent[f] # None /\
     \/ next[f] = sent[f] \/ Expired(f) \/ (f = "temp" /\ next.temp # rep.temp)}

\* handleInfoResponse(), confirmation of what was commanded.
Confirmed(next) ==
  (IF hasBeenSent THEN {f \in Fields \ {"temp"} : next[f] = wanted[f]} ELSE {})
  \cup {f \in {"temp"} : /\ "temp" \in sentFlags /\ wanted.temp # None
                          /\ next.temp = Quantize(wanted.temp, UnitEncoding)}

\* A setpoint whose grace is over is answered by whatever the unit reports.
\* Mutant: it is waited for.
Declines_Never(next) == FALSE
Declines(next) ==
  /\ wanted.temp # None /\ "temp" \in sentFlags /\ "temp" \notin Confirmed(next)
  /\ Expired("temp")

\* The answer is final when the unit moved, or when it stayed twice: a single SET
\* may have been lost.  Mutant: at once.
FinalAnswer_AtOnce(next, asked, earlier) == TRUE
FinalAnswer(next, asked, earlier) == next.temp # tempAtSend \/ asked = earlier

ReceiveSettings ==
  LET next == Head(replies)
      moved == next.temp # rep.temp \/ next.mode # rep.mode
      earlier == IF moved THEN None ELSE unconfirmed
      asked == Quantize(wanted.temp, UnitEncoding)
      final == FinalAnswer(next, asked, earlier)
  IN
  /\ replies # <<>>
  /\ replies' = Tail(replies)
  /\ exchanged' = TRUE
  /\ rep' = next
  /\ encoding' = UnitEncoding
  /\ baselined' = TRUE
  /\ external' = (external \/ ExternalChange(next))
  /\ sent' = Without(sent, Attributed(next))
  /\ wanted' = Without(wanted, Confirmed(next) \cup
                               (IF Declines(next) THEN {"temp"} ELSE {}))
  /\ \/ /\ Declines(next) /\ baselined /\ final
        /\ refused' = [temp |-> asked, answer |-> next.temp, mode |-> next.mode]
        /\ unconfirmed' = None
     \/ /\ Declines(next) /\ baselined /\ ~final
        /\ refused' = IF moved THEN None ELSE refused
        /\ unconfirmed' = asked
     \/ /\ ~(Declines(next) /\ baselined)
        /\ refused' = IF moved THEN None ELSE refused
        /\ unconfirmed' = IF "temp" \in Confirmed(next) THEN None ELSE earlier
  /\ seen' = IF seen = None THEN None ELSE [seen EXCEPT !.current = FALSE]
  /\ UNCHANGED <<connected, mailVars, hasBeenSent, sentFlags, changeAge, tempAtSend,
                 sentAge, superseded, supersededAge, deciding, previous, unit,
                 historyVars>>

LoseReply ==
  /\ LosesReplies /\ replies # <<>>
  /\ replies' = Tail(replies)
  /\ exchanged' = TRUE
  /\ UNCHANGED <<linkVars, mailVars, wantedVars, sentVars, refusalVars, external,
                 decideVars, unit, historyVars>>

\* Both ends of a connection make every earlier validation one of another
\* connection.
OtherConnection ==
  /\ encoding' = "unknown"
  /\ baselined' = FALSE
  /\ refused' = None /\ unconfirmed' = None
  /\ cmdHere' = FALSE
  /\ tempHere' = FALSE
  /\ seen' = IF seen = None THEN None ELSE [seen EXCEPT !.here = FALSE]

\* restartHandshake(): what was commanded and is not confirmed yet goes back
\* into the mailbox, held.
RestartHandshake ==
  /\ MayReconnect
  /\ OtherConnection
  /\ connected' = FALSE
  /\ superseded' = None
  /\ IF rangeAware
     THEN /\ staged' = Update(staged, [wanted EXCEPT !.fan = None])
          /\ sendRequested' = (staged' # Nothing)
          /\ commandsHeld' = TRUE
          /\ wanted' = Nothing /\ hasBeenSent' = FALSE /\ sentFlags' = {}
          /\ changeAge' = Grace /\ tempAtSend' = None
     ELSE UNCHANGED <<staged, sendRequested, commandsHeld, wantedVars>>
  /\ replies' = IF LateReplies THEN replies ELSE <<>>
  /\ exchanged' = TRUE
  /\ UNCHANGED <<rep, rangeAware, cmdEncoding, sent, sentAge, supersededAge, external,
                 deciding, previous, unit, wallActed, tempEncoding, withdrawn,
                 lostInARow>>

\* A CONNECT_OK, also one that arrives while connected.
ConnectOk ==
  /\ ~connected \/ MayReconnect
  /\ OtherConnection
  /\ connected' = TRUE
  /\ exchanged' = TRUE
  /\ sent' = Nothing
  /\ UNCHANGED <<rep, staged, sendRequested, commandsHeld, rangeAware, cmdEncoding,
                 wantedVars, sentAge, superseded, supersededAge, external, deciding,
                 previous, unit, replies, wallActed, tempEncoding, withdrawn,
                 lostInARow>>

\* A wall controller or an IR remote.
WallController ==
  /\ \E move \in WallMoves : unit' = Update(unit, move)
  /\ unit' # unit
  /\ wallActed' = (wallActed \/ \E f \in OwnedFields : unit'[f] # unit[f])
  /\ UNCHANGED <<linkVars, mailVars, wantedVars, sentVars, refusalVars, external,
                 decideVars, replies, exchanged, tempHere, tempEncoding, withdrawn,
                 lostInARow>>

\* Ages are read while the value they belong to is there.
Tick ==
  /\ LateReplies \/ (exchanged /\ replies = <<>>)
  /\ changeAge' = Older(changeAge)
  /\ sentAge' = [f \in OwnedFields |-> Older(sentAge[f])]
  /\ supersededAge' = IF superseded = None THEN Grace ELSE Older(supersededAge)
  /\ UNCHANGED <<linkVars, mailVars, wanted, hasBeenSent, sentFlags, tempAtSend, sent,
                 superseded, refusalVars, external, decideVars, lineVars, wallActed,
                 tempHere, tempEncoding, withdrawn, lostInARow>>

Coordinator ==
  \/ Observe \/ HoldCommands \/ GiveUp
  \/ \E input \in Inputs : Submit(input)
  \/ StorageFailure
  \/ LookAround \/ FindHeld \/ ResumeHeld
  \/ \E target \in AutoTargets : QueueAutoTarget(target)

Driver ==
  HoldForeign \/ TransmitSet \/ PollSettings \/ ReceiveSettings \/ RestartHandshake
  \/ ConnectOk

Next == Coordinator \/ Driver \/ LoseReply \/ WallController \/ Tick

Spec == Init /\ [][Next]_vars

\* The CN105 task keeps running, keeps polling, and gets through now and then.
DriverFairness ==
  /\ SF_vars(Tick)
  /\ WF_vars(PollSettings \/ (~connected /\ ConnectOk))
  /\ SF_vars(ReceiveSettings)

\* loop() runs again and again and resumes every batch that it accepts.
CoordinatorFairness ==
  /\ SF_vars(LookAround)
  /\ WF_vars(FindHeld \/ ResumeHeld \/ GiveUp)

FairSpec == Spec /\ DriverFairness /\ CoordinatorFairness

-----------------------------------------------------------------------------
(* Properties *)

\* Every variable has its type.
TypeOK ==
  /\ rep \in Settings /\ unit \in Settings
  /\ {connected, baselined, sendRequested, commandsHeld, rangeAware, cmdHere,
      hasBeenSent, external, wallActed, tempHere} \subseteq BOOLEAN
  /\ {encoding, cmdEncoding, tempEncoding} \subseteq LineEncodings
  /\ {staged, wanted, sent, previous} \subseteq Batch
  /\ sentFlags \subseteq Fields /\ withdrawn \subseteq Fields
  /\ {changeAge, supersededAge} \subseteq 0 .. Grace
  /\ sentAge \in [OwnedFields -> 0 .. Grace]
  /\ {tempAtSend, superseded, unconfirmed} \subseteq Temps \cup {None}
  /\ refused \in [temp : Temps, answer : Temps, mode : Modes] \cup {None}
  /\ deciding \in {"no", "observed", "held", "looking", "resuming"}
  /\ seen \in [here : BOOLEAN, encoding : LineEncodings, current : BOOLEAN,
               mode : Modes, temp : Temps] \cup {None}
  /\ replies \in Seq(Settings) /\ exchanged \in BOOLEAN
  /\ lostInARow \in 0 .. 2

\* A value that masks what the unit reports is either still in the mailbox or
\* has been sent: no command is shown as accepted and never transmitted,
\* whatever holds, replacements and reconnects came in between.
WantedIsOnItsWay ==
  \A f \in Fields : wanted[f] # None => staged[f] = wanted[f] \/ f \in sentFlags

\* The shared hasBeenSent flag confirms power, mode and fan only when each of
\* them has itself been transmitted.
ConfirmationNeedsSend ==
  hasBeenSent => staged = Nothing /\ \A f \in Fields : wanted[f] # None => f \in sentFlags

\* A setpoint goes out only on the connection and in the encoding its newest
\* value was validated for.
SetpointForThisUnit ==
  [][TransmitSet /\ staged.temp # None => tempHere /\ tempEncoding = encoding]_vars

\* "Canceled intent must not be retried on reconnect" (cancelWantedLocked()):
\* a field taken back stays out of the mailbox until it is commanded again.
WithdrawnStaysOut == \A f \in withdrawn : staged[f] = None

\* Only a change somebody else made counts as external.
OnlyOthersAreExternal == external => wallActed

\* A setpoint the unit would take is refused only after two SETs were lost and
\* none in between moved the unit, or after a wall controller acted.
RefusalEarned ==
  refused' # None /\ refused' # refused
    => refused'.temp \in Declined \/ wallActed \/ lostInARow >= 2

RefusalIsEarned == [][RefusalEarned]_vars

\* A transmitted setpoint is confirmed, refused or given up; it never masks the
\* unit's own forever.
SetpointSettles ==
  (wanted.temp # None /\ "temp" \in sentFlags)
    ~> (wanted.temp = None \/ "temp" \notin sentFlags)

\* On a link that stays up, held commands are released again.
HeldIsReleased == <>[](connected /\ encoding # "unknown") => []<>~commandsHeld
=============================================================================
