------------------------- MODULE Cn105Mailbox_proofs -------------------------
(***************************************************************************)
(* Theorems about Cn105Mailbox, for every set of setpoints, every command  *)
(* and every loss.                                                         *)
(*                                                                         *)
(* MailInv is inductive.  It says where a commanded value can be, that a   *)
(* field taken back is gone from both places it could be sent from, and    *)
(* what is known of the connection a waiting setpoint was validated for.   *)
(*                                                                         *)
(* TypesInv is inductive and gives TypeOK.  With it OwnInv is inductive:   *)
(* it says that whatever the unit does otherwise than it last reported has *)
(* evidence among the SETs, so that none of it is counted as external.     *)
(* RefInv builds on all three: whatever the unit does not do of what it    *)
(* would was lost on the way, and every refusal stands for as many losses. *)
(***************************************************************************)
EXTENDS Cn105Mailbox, TLAPS

\* The mailbox holds one value or none per field.
Shape ==
  /\ staged = [f \in Fields |-> staged[f]]
  /\ wanted = [f \in Fields |-> wanted[f]]

\* A field taken back is neither in the mailbox nor waiting for the unit, from
\* where a reconnect would put it back into the mailbox.
WithdrawnIsGone == \A f \in withdrawn : staged[f] = None /\ wanted[f] = None

\* A waiting setpoint is guarded, and when the batch was validated for this
\* connection, so was the setpoint in it.
SetpointIsGuarded ==
  staged.temp # None =>
    rangeAware /\ (cmdHere => tempHere /\ cmdEncoding = tempEncoding)

MailInv ==
  /\ Shape /\ withdrawn \subseteq Fields
  /\ WantedIsOnItsWay /\ ConfirmationNeedsSend
  /\ WithdrawnIsGone /\ SetpointIsGuarded

\* What the invariant reads.
Slots == <<staged, wanted, hasBeenSent, sentFlags, withdrawn, rangeAware, cmdHere,
           tempHere, cmdEncoding, tempEncoding>>

-----------------------------------------------------------------------------
(* The operators *)

LEMMA FieldNames == "temp" \in Fields /\ "fan" \in Fields /\ "power" \in Fields
BY DEF Fields

\* Update() takes the batch where it says something.
LEMMA UpdateValue ==
  ASSUME NEW base, NEW batch, NEW f \in Fields
  PROVE  /\ batch[f] # None => Update(base, batch)[f] = batch[f]
         /\ batch[f] = None => Update(base, batch)[f] = base[f]
BY DEF Update

LEMMA WithoutValue ==
  ASSUME NEW batch, NEW fields, NEW f \in Fields
  PROVE  /\ f \in fields => Without(batch, fields)[f] = None
         /\ f \notin fields => Without(batch, fields)[f] = batch[f]
BY DEF Without

LEMMA UpdateShape ==
  ASSUME NEW base, NEW batch
  PROVE  Update(base, batch) = [f \in Fields |-> Update(base, batch)[f]]
BY DEF Update

LEMMA WithoutShape ==
  ASSUME NEW batch, NEW fields
  PROVE  Without(batch, fields) = [f \in Fields |-> Without(batch, fields)[f]]
BY DEF Without

LEMMA GivenValue ==
  ASSUME NEW batch, NEW f \in Fields
  PROVE  f \in Given(batch) <=> batch[f] # None
BY DEF Given

LEMMA NothingValue == \A f \in Fields : Nothing[f] = None
BY DEF Nothing

\* An empty batch on an empty batch is empty.
LEMMA NothingOnNothing == Update(Nothing, Nothing) = Nothing
BY DEF Update, Nothing

-----------------------------------------------------------------------------
(* The invariant holds initially, and every step keeps it *)

LEMMA SlotsKeepInv == MailInv /\ UNCHANGED Slots => MailInv'
BY DEF MailInv, Shape, WantedIsOnItsWay, ConfirmationNeedsSend, WithdrawnIsGone,
   SetpointIsGuarded, Slots

LEMMA InitInv == Init => MailInv
<1> SUFFICES ASSUME Init PROVE MailInv
  OBVIOUS
<1>1. staged = Nothing /\ wanted = Nothing /\ hasBeenSent = FALSE /\ withdrawn = {}
  BY DEF Init
<1>2. Shape
  BY <1>1 DEF Shape, Nothing
<1>3. WantedIsOnItsWay /\ ConfirmationNeedsSend /\ WithdrawnIsGone
  BY <1>1, NothingValue DEF WantedIsOnItsWay, ConfirmationNeedsSend, WithdrawnIsGone
<1>4. SetpointIsGuarded
  BY <1>1, NothingValue, FieldNames DEF SetpointIsGuarded
<1> QED BY <1>1, <1>2, <1>3, <1>4 DEF MailInv

\* Replacing the batch takes back what the new batch lacks, both from the
\* mailbox and from what is waited for.
LEMMA ResumeKeepsInv ==
  ASSUME MailInv, NEW cmd, ResumeCommands(cmd)
  PROVE  MailInv'
<1> DEFINE gone == Canceled(cmd)
<1>1. /\ staged' = Update(Nothing, cmd)
      /\ wanted' = Update(Without(wanted, gone), cmd)
      /\ sentFlags' = (sentFlags \ gone) \ Given(cmd)
      /\ withdrawn' = (withdrawn \cup gone) \ Given(cmd)
      /\ cmdHere' = seen.here /\ cmdEncoding' = seen.encoding
  BY DEF ResumeCommands, Queue, Kept
<1>2. \A f \in Fields :
        /\ cmd[f] # None => staged'[f] = cmd[f] /\ wanted'[f] = cmd[f]
        /\ cmd[f] = None => staged'[f] = None
        /\ cmd[f] = None /\ f \in gone => wanted'[f] = None
        /\ cmd[f] = None /\ f \notin gone => wanted'[f] = wanted[f]
  BY <1>1, UpdateValue, WithoutValue, NothingValue
<1>3. \A f \in Fields : staged[f] # None /\ cmd[f] = None => f \in gone
  BY GivenValue DEF Canceled
<1> HIDE DEF gone
<1>4. Shape' /\ withdrawn' \subseteq Fields
  <2>1. gone \subseteq Fields
    BY DEF gone, Canceled, Given, Fields
  <2> QED BY <1>1, <2>1, UpdateShape DEF MailInv, Shape
<1>5. WantedIsOnItsWay'
  <2> SUFFICES ASSUME NEW f \in Fields, wanted'[f] # None
               PROVE  staged'[f] = wanted'[f] \/ f \in sentFlags'
    BY DEF WantedIsOnItsWay
  <2>1. CASE cmd[f] # None
    BY <1>2, <2>1
  <2>2. CASE cmd[f] = None
    <3>1. f \notin gone /\ wanted[f] # None
      BY <1>2, <2>2
    <3>2. staged[f] = None /\ f \in sentFlags
      BY <1>3, <2>2, <3>1 DEF MailInv, WantedIsOnItsWay
    <3> QED BY <1>1, <2>2, <3>1, <3>2, GivenValue
  <2> QED BY <2>1, <2>2
<1>6. ConfirmationNeedsSend'
  <2>1. CASE cmd = Nothing
    <3>1. hasBeenSent' = hasBeenSent /\ staged' = Nothing
      BY <1>1, <2>1, NothingOnNothing DEF ResumeCommands, Queue
    <3>2. \A f \in Fields : wanted'[f] # None => f \in sentFlags'
      BY <1>5, <3>1, NothingValue DEF WantedIsOnItsWay
    <3> QED BY <3>1, <3>2 DEF ConfirmationNeedsSend
  <2>2. CASE cmd # Nothing
    BY <2>2 DEF ResumeCommands, Queue, Await, ConfirmationNeedsSend
  <2> QED BY <2>1, <2>2
<1>7. WithdrawnIsGone'
  <2> SUFFICES ASSUME NEW f \in withdrawn'
               PROVE  staged'[f] = None /\ wanted'[f] = None
    BY DEF WithdrawnIsGone
  <2>1. f \in Fields /\ cmd[f] = None
    BY <1>1, <1>4, GivenValue
  <2>2. f \in gone \/ wanted[f] = None
    BY <1>1 DEF MailInv, WithdrawnIsGone
  <2> QED BY <1>2, <2>1, <2>2
<1>8. SetpointIsGuarded'
  <2> SUFFICES ASSUME staged'.temp # None
               PROVE  rangeAware' /\ (cmdHere' => tempHere' /\ cmdEncoding' = tempEncoding')
    BY DEF SetpointIsGuarded
  <2>1. cmd.temp # None /\ cmd # Nothing
    BY <1>2, FieldNames, NothingValue
  <2>2. tempHere' = seen.here /\ tempEncoding' = seen.encoding
    BY <2>1 DEF ResumeCommands
  <2>3. rangeAware' = TRUE
    BY <2>1 DEF ResumeCommands, Queue, Await
  <2> QED BY <1>1, <2>2, <2>3
<1> QED BY <1>4, <1>5, <1>6, <1>7, <1>8 DEF MailInv

\* The decisions end in a replaced batch or leave the mailbox as it is.
LEMMA CoordinatorKeepsInv == MailInv /\ Coordinator => MailInv'
<1> SUFFICES ASSUME MailInv, Coordinator PROVE MailInv'
  OBVIOUS
<1>1. CASE Observe \/ LookAround
  BY <1>1, SlotsKeepInv DEF Observe, LookAround, Slots, mailVars, wantedVars, historyVars
<1>2. CASE HoldCommands
  BY <1>2, SlotsKeepInv DEF HoldCommands, Slots, wantedVars, historyVars
<1>3. CASE GiveUp \/ FindHeld
  BY <1>3, SlotsKeepInv DEF GiveUp, FindHeld, Slots, mailVars, wantedVars, historyVars
<1>4. CASE \E input \in Inputs : Submit(input)
  BY <1>4, ResumeKeepsInv DEF Submit
<1>5. CASE StorageFailure \/ ResumeHeld
  BY <1>5, ResumeKeepsInv DEF StorageFailure, ResumeHeld
<1>6. ASSUME NEW target \in AutoTargets, QueueAutoTarget(target) PROVE MailInv'
  <2> DEFINE cmd == [Nothing EXCEPT !.temp = target]
  <2>1. target # None
    BY ValuesAssumption, InputsAssumption
  <2>2. cmd.temp = target /\ \A f \in Fields \ {"temp"} : cmd[f] = None
    BY FieldNames DEF Nothing
  <2>3. cmd # Nothing /\ Given(cmd) = {"temp"}
    BY <2>1, <2>2, NothingValue, FieldNames DEF Given
  <2>4. /\ staged' = Update(staged, cmd)
        /\ wanted' = Update(Without(wanted, {}), cmd)
        /\ sentFlags' = (sentFlags \ {}) \ Given(cmd)
        /\ hasBeenSent' = FALSE /\ rangeAware' = TRUE
    BY <1>6, <2>3 DEF QueueAutoTarget, Queue, Kept, Await
  <2>5. withdrawn' = withdrawn \ {"temp"} /\ tempHere' = TRUE /\ tempEncoding' = encoding
        /\ cmdEncoding' = encoding
    BY <1>6 DEF QueueAutoTarget
  <2> HIDE DEF cmd
  <2>6. /\ staged'["temp"] = target /\ wanted'["temp"] = target
        /\ \A f \in Fields \ {"temp"} : staged'[f] = staged[f] /\ wanted'[f] = wanted[f]
    BY <2>1, <2>2, <2>4, UpdateValue, WithoutValue, FieldNames
  <2>7. Shape' /\ withdrawn' \subseteq Fields
    BY <2>4, <2>5, UpdateShape DEF MailInv, Shape
  <2>8. WantedIsOnItsWay' /\ ConfirmationNeedsSend' /\ WithdrawnIsGone'
    BY <2>3, <2>4, <2>5, <2>6 DEF MailInv, WantedIsOnItsWay, ConfirmationNeedsSend,
       WithdrawnIsGone
  <2>9. SetpointIsGuarded'
    BY <2>4, <2>5 DEF SetpointIsGuarded
  <2> QED BY <2>7, <2>8, <2>9 DEF MailInv
<1> QED BY <1>1, <1>2, <1>3, <1>4, <1>5, <1>6 DEF Coordinator

\* Sending empties the mailbox into what has been sent.
LEMMA TransmitKeepsInv == MailInv /\ TransmitSet => MailInv'
<1> SUFFICES ASSUME MailInv, TransmitSet PROVE MailInv'
  OBVIOUS
<1>1. /\ staged' = Nothing /\ sentFlags' = sentFlags \cup Given(staged)
      /\ UNCHANGED <<wanted, withdrawn>>
  BY DEF TransmitSet
<1>2. Shape' /\ withdrawn' \subseteq Fields
  BY <1>1 DEF MailInv, Shape, Nothing
<1>3. \A f \in Fields : wanted'[f] # None => f \in sentFlags'
  BY <1>1, GivenValue DEF MailInv, WantedIsOnItsWay
<1>4. WantedIsOnItsWay' /\ ConfirmationNeedsSend'
  BY <1>1, <1>3 DEF WantedIsOnItsWay, ConfirmationNeedsSend
<1>5. WithdrawnIsGone'
  BY <1>1, NothingValue DEF MailInv, WithdrawnIsGone
<1>6. SetpointIsGuarded'
  BY <1>1, NothingValue, FieldNames DEF SetpointIsGuarded
<1> QED BY <1>2, <1>4, <1>5, <1>6 DEF MailInv

\* An answer only ends waiting.
LEMMA ReceiveKeepsInv == MailInv /\ ReceiveSettings => MailInv'
<1> SUFFICES ASSUME MailInv, ReceiveSettings PROVE MailInv'
  OBVIOUS
<1>1. PICK settled : wanted' = Without(wanted, settled)
  BY DEF ReceiveSettings
<1>2. UNCHANGED <<staged, hasBeenSent, sentFlags, withdrawn, rangeAware, cmdHere,
                  tempHere, cmdEncoding, tempEncoding>>
  BY DEF ReceiveSettings, mailVars, historyVars
<1>3. \A f \in Fields : wanted'[f] # None => wanted'[f] = wanted[f]
  BY <1>1, WithoutValue
<1>4. Shape'
  BY <1>1, <1>2, WithoutShape DEF MailInv, Shape
<1>5. WantedIsOnItsWay' /\ ConfirmationNeedsSend'
  BY <1>2, <1>3 DEF MailInv, WantedIsOnItsWay, ConfirmationNeedsSend
<1>6. WithdrawnIsGone'
  BY <1>1, <1>2, WithoutValue DEF MailInv, WithdrawnIsGone
<1>7. SetpointIsGuarded'
  BY <1>2 DEF MailInv, SetpointIsGuarded
<1> QED BY <1>2, <1>4, <1>5, <1>6, <1>7 DEF MailInv

\* A reconnect moves what was waited for back into the mailbox, held.
LEMMA RestartKeepsInv == MailInv /\ RestartHandshake => MailInv'
<1> SUFFICES ASSUME MailInv, RestartHandshake PROVE MailInv'
  OBVIOUS
<1>1. cmdHere' = FALSE /\ UNCHANGED <<rangeAware, withdrawn>>
  BY DEF RestartHandshake, OtherConnection
<1>2. CASE rangeAware
  <2>1. /\ staged' = Update(staged, [wanted EXCEPT !.fan = None])
        /\ wanted' = Nothing /\ hasBeenSent' = FALSE
    BY <1>2 DEF RestartHandshake
  <2>2. Shape' /\ withdrawn' \subseteq Fields
    BY <1>1, <2>1, UpdateShape DEF MailInv, Shape, Nothing
  <2>3. WantedIsOnItsWay' /\ ConfirmationNeedsSend'
    BY <2>1, NothingValue DEF WantedIsOnItsWay, ConfirmationNeedsSend
  <2>4. WithdrawnIsGone'
    <3> SUFFICES ASSUME NEW f \in withdrawn
                 PROVE  staged'[f] = None /\ wanted'[f] = None
      BY <1>1 DEF WithdrawnIsGone
    <3>1. f \in Fields /\ staged[f] = None /\ wanted[f] = None
      BY DEF MailInv, WithdrawnIsGone
    <3>2. [wanted EXCEPT !.fan = None][f] = None
      BY <3>1, FieldNames DEF MailInv, Shape
    <3> QED BY <2>1, <3>1, <3>2, UpdateValue, NothingValue
  <2>5. SetpointIsGuarded'
    BY <1>1, <1>2 DEF SetpointIsGuarded
  <2> QED BY <2>2, <2>3, <2>4, <2>5 DEF MailInv
<1>3. CASE ~rangeAware
  <2>1. UNCHANGED <<staged, wanted, hasBeenSent, sentFlags>>
    BY <1>3 DEF RestartHandshake, wantedVars
  <2>2. SetpointIsGuarded'
    BY <1>1, <1>3, <2>1 DEF MailInv, SetpointIsGuarded
  <2> QED BY <1>1, <2>1, <2>2 DEF MailInv, Shape, WantedIsOnItsWay,
             ConfirmationNeedsSend, WithdrawnIsGone
<1> QED BY <1>2, <1>3

LEMMA ConnectKeepsInv == MailInv /\ ConnectOk => MailInv'
<1> SUFFICES ASSUME MailInv, ConnectOk PROVE MailInv'
  OBVIOUS
<1>1. cmdHere' = FALSE
      /\ UNCHANGED <<staged, wanted, hasBeenSent, sentFlags, rangeAware, withdrawn>>
  BY DEF ConnectOk, OtherConnection, wantedVars
<1>2. SetpointIsGuarded'
  BY <1>1 DEF MailInv, SetpointIsGuarded
<1> QED BY <1>1, <1>2 DEF MailInv, Shape, WantedIsOnItsWay, ConfirmationNeedsSend,
           WithdrawnIsGone

\* MailInv is inductive.
LEMMA StepKeepsInv == MailInv /\ [Next]_vars => MailInv'
<1> SUFFICES ASSUME MailInv, [Next]_vars PROVE MailInv'
  OBVIOUS
<1>1. CASE HoldForeign
  BY <1>1, SlotsKeepInv DEF HoldForeign, Slots, wantedVars, historyVars
<1>2. CASE PollSettings \/ LoseReply
  BY <1>2, SlotsKeepInv DEF PollSettings, LoseReply, Slots, mailVars, wantedVars,
     historyVars
<1>3. CASE WallController
  BY <1>3, SlotsKeepInv DEF WallController, Slots, mailVars, wantedVars
<1>4. CASE Tick
  BY <1>4, SlotsKeepInv DEF Tick, Slots, mailVars
<1>5. CASE UNCHANGED vars
  BY <1>5, SlotsKeepInv DEF vars, Slots, mailVars, wantedVars, historyVars
<1> QED BY <1>1, <1>2, <1>3, <1>4, <1>5, CoordinatorKeepsInv, TransmitKeepsInv,
           ReceiveKeepsInv, RestartKeepsInv, ConnectKeepsInv DEF Next, Driver

LEMMA Invariance == Spec => []MailInv
BY InitInv, StepKeepsInv, PTL DEF Spec

-----------------------------------------------------------------------------
(* Theorems *)

\* No command is shown as accepted and never transmitted: a value that masks the
\* unit's own is in the mailbox or has been sent, across holds, replacements and
\* reconnects (queueCommandLocked(), cancelWantedLocked(), restartHandshake()).
THEOREM WantedIsSent == Spec => []WantedIsOnItsWay
<1>1. MailInv => WantedIsOnItsWay
  BY DEF MailInv
<1> QED BY <1>1, Invariance, PTL

\* The one hasBeenSent flag never confirms a field that was not transmitted.
THEOREM ConfirmationIsSound == Spec => []ConfirmationNeedsSend
<1>1. MailInv => ConfirmationNeedsSend
  BY DEF MailInv
<1> QED BY <1>1, Invariance, PTL

\* Canceled intent is not retried, not even by a reconnect.
THEOREM WithdrawnIsNotRetried == Spec => []WithdrawnStaysOut
<1>1. MailInv => WithdrawnStaysOut
  BY DEF MailInv, WithdrawnIsGone, WithdrawnStaysOut
<1> QED BY <1>1, Invariance, PTL

\* A setpoint is sent only on the connection, and in the encoding, it was
\* validated for (loop(), _commandConnection and _commandEncoding).
THEOREM SetpointIsForThisUnit == Spec => SetpointForThisUnit
<1>1. MailInv /\ [Next]_vars =>
        [TransmitSet /\ staged.temp # None => tempHere /\ tempEncoding = encoding]_vars
  <2> SUFFICES ASSUME MailInv, TransmitSet, staged.temp # None
               PROVE  tempHere /\ tempEncoding = encoding
    OBVIOUS
  <2>1. rangeAware /\ cmdHere /\ cmdEncoding = encoding
    BY DEF TransmitSet, Foreign, MailInv, SetpointIsGuarded
  <2> QED BY <2>1 DEF MailInv, SetpointIsGuarded
<1> QED BY <1>1, Invariance, PTL DEF Spec, SetpointForThisUnit

-----------------------------------------------------------------------------
(* Types                                                                    *)

Observations == [here : BOOLEAN, encoding : LineEncodings, current : BOOLEAN,
                 mode : Modes, temp : Temps]
Refusals == [temp : Temps, answer : Temps, mode : Modes]
Ages == [OwnedFields -> 0 .. Grace]

\* TypeOK with the sets it is made of kept whole.
MailTypes ==
  /\ rep \in Settings /\ unit \in Settings
  /\ connected \in BOOLEAN /\ baselined \in BOOLEAN /\ sendRequested \in BOOLEAN
  /\ commandsHeld \in BOOLEAN /\ rangeAware \in BOOLEAN /\ cmdHere \in BOOLEAN
  /\ hasBeenSent \in BOOLEAN /\ external \in BOOLEAN /\ wallActed \in BOOLEAN
  /\ tempHere \in BOOLEAN
  /\ encoding \in LineEncodings /\ cmdEncoding \in LineEncodings /\ tempEncoding \in LineEncodings
  /\ staged \in Batch /\ wanted \in Batch /\ sent \in Batch /\ previous \in Batch
  /\ sentFlags \subseteq Fields /\ withdrawn \subseteq Fields
  /\ changeAge \in 0 .. Grace /\ supersededAge \in 0 .. Grace
  /\ sentAge \in Ages
  /\ tempAtSend \in Temps \cup {None} /\ superseded \in Temps \cup {None}
  /\ unconfirmed \in Temps \cup {None}
  /\ refused \in Refusals \cup {None}
  /\ deciding \in {"no", "observed", "held", "looking", "resuming"}
  /\ seen \in Observations \cup {None}
  /\ replies \in Seq(Settings) /\ exchanged \in BOOLEAN
  /\ lostInARow \in 0 .. 2

LEMMA TypesNamed == MailTypes <=> TypeOK
BY DEF MailTypes, TypeOK, Observations, Refusals, Ages

\* A batch is a value or nothing for each of the four fields.
LEMMA BatchType ==
  ASSUME NEW b, b = [f \in Fields |-> b[f]],
         b["power"] \in BOOLEAN \cup {None}, b["mode"] \in Modes \cup {None},
         b["temp"] \in Temps \cup {None}, b["fan"] \in Fans \cup {None}
  PROVE  b \in Batch
BY DEF Batch, Fields

LEMMA BatchValue ==
  ASSUME NEW b \in Batch
  PROVE  /\ b = [f \in Fields |-> b[f]]
         /\ b["power"] \in BOOLEAN \cup {None} /\ b["mode"] \in Modes \cup {None}
         /\ b["temp"] \in Temps \cup {None} /\ b["fan"] \in Fans \cup {None}
         /\ b.power = b["power"] /\ b.mode = b["mode"] /\ b.temp = b["temp"]
BY DEF Batch, Fields

LEMMA SettingsType ==
  ASSUME NEW s, s = [f \in Fields |-> s[f]],
         s["power"] \in BOOLEAN, s["mode"] \in Modes, s["temp"] \in Temps,
         s["fan"] \in Fans
  PROVE  s \in Settings
BY DEF Settings, Fields

LEMMA SettingsValue ==
  ASSUME NEW s \in Settings
  PROVE  /\ s = [f \in Fields |-> s[f]]
         /\ s["power"] \in BOOLEAN /\ s["mode"] \in Modes /\ s["temp"] \in Temps
         /\ s["fan"] \in Fans
BY DEF Settings, Fields

LEMMA NothingType == Nothing \in Batch
BY BatchType, NothingValue DEF Nothing, Fields

LEMMA UpdateType ==
  ASSUME NEW base \in Batch, NEW batch \in Batch
  PROVE  Update(base, batch) \in Batch
<1> DEFINE u == Update(base, batch)
<1>1. u = [f \in Fields |-> u[f]]
  BY UpdateShape
<1>2. \A f \in Fields : u[f] = batch[f] \/ u[f] = base[f]
  BY UpdateValue
<1>3. /\ u["power"] \in BOOLEAN \cup {None} /\ u["mode"] \in Modes \cup {None}
      /\ u["temp"] \in Temps \cup {None} /\ u["fan"] \in Fans \cup {None}
  <2> HIDE DEF u
  <2> QED BY <1>2, BatchValue DEF Fields
<1> HIDE DEF u
<1> QED BY <1>1, <1>3, BatchType DEF u

\* What a SET makes of the settings.
LEMMA TakenType ==
  ASSUME NEW base \in Settings, NEW batch \in Batch
  PROVE  Update(base, batch) \in Settings
<1> DEFINE u == Update(base, batch)
<1>1. u = [f \in Fields |-> u[f]]
  BY UpdateShape
<1>2. \A f \in Fields : (batch[f] # None /\ u[f] = batch[f]) \/ u[f] = base[f]
  BY UpdateValue
<1>3. /\ u["power"] \in BOOLEAN /\ u["mode"] \in Modes /\ u["temp"] \in Temps
      /\ u["fan"] \in Fans
  <2> HIDE DEF u
  <2> QED BY <1>2, BatchValue, SettingsValue DEF Fields
<1> HIDE DEF u
<1> QED BY <1>1, <1>3, SettingsType DEF u

LEMMA WithoutType ==
  ASSUME NEW batch \in Batch, NEW fields
  PROVE  Without(batch, fields) \in Batch
<1> DEFINE u == Without(batch, fields)
<1>1. u = [f \in Fields |-> u[f]]
  BY WithoutShape
<1>2. \A f \in Fields : u[f] = None \/ u[f] = batch[f]
  BY WithoutValue
<1>3. /\ u["power"] \in BOOLEAN \cup {None} /\ u["mode"] \in Modes \cup {None}
      /\ u["temp"] \in Temps \cup {None} /\ u["fan"] \in Fans \cup {None}
  <2> HIDE DEF u
  <2> QED BY <1>2, BatchValue DEF Fields
<1> HIDE DEF u
<1> QED BY <1>1, <1>3, BatchType DEF u

\* A batch keeps its type with another setpoint in it.
LEMMA WithTempType ==
  ASSUME NEW batch \in Batch, NEW t \in Temps \cup {None}
  PROVE  [batch EXCEPT !.temp = t] \in Batch
BY DEF Batch

LEMMA GivenType == ASSUME NEW batch PROVE Given(batch) \subseteq Fields
BY DEF Given

\* The grid of a line leads from setpoints to setpoints.
LEMMA QuantizeType ==
  ASSUME NEW t \in Temps, NEW enc \in LineEncodings
  PROVE  Quantize(t, enc) \in Temps
BY ValuesAssumption

LEMMA OnGridType ==
  ASSUME NEW t \in Temps, NEW enc \in LineEncodings
  PROVE  OnGrid(t, enc) \in Temps
BY ValuesAssumption DEF OnGrid

\* A command is normalized against an observation.
LEMMA NormalizedType ==
  ASSUME NEW cmd \in Batch, seen \in Observations
  PROVE  Normalized(cmd) \in Batch
<1> DEFINE target == IF cmd.temp # None THEN cmd.temp ELSE seen.temp
<1>1. target \in Temps /\ seen.encoding \in LineEncodings
  BY BatchValue DEF Observations
<1>2. OnGrid(target, seen.encoding) \in Temps
  BY <1>1, OnGridType
<1> QED BY <1>2, WithTempType DEF Normalized

LEMMA MergedType ==
  ASSUME NEW old \in Batch, NEW new \in Batch
  PROVE  Merged(old, new) \in Batch
BY NothingType, WithoutType, UpdateType DEF Merged

\* The refused setpoint is one the unit can be told.
LEMMA OlderType ==
  ASSUME NEW age \in 0 .. Grace
  PROVE  Older(age) \in 0 .. Grace
BY ValuesAssumption DEF Older

LEMMA TypesInit == Init => MailTypes
<1> SUFFICES ASSUME Init PROVE MailTypes
  OBVIOUS
<1>1. [power |-> FALSE, mode |-> "auto", temp |-> 44, fan |-> "quiet"] \in Settings
  BY ValuesAssumption DEF Settings, Modes, Fans
<1>2. rep \in Settings /\ unit \in Settings
  BY <1>1, InputsAssumption DEF Init
<1>3. staged \in Batch /\ wanted \in Batch /\ sent \in Batch /\ previous \in Batch
  BY NothingType DEF Init
<1>4. encoding \in LineEncodings /\ cmdEncoding \in LineEncodings /\ tempEncoding \in LineEncodings
  BY DEF Init, LineEncodings
<1>5. changeAge \in 0 .. Grace /\ supersededAge \in 0 .. Grace /\ sentAge \in Ages
  BY ValuesAssumption DEF Init, Ages
<1>6. replies \in Seq(Settings)
  BY DEF Init
<1>7. /\ connected \in BOOLEAN /\ baselined \in BOOLEAN /\ sendRequested \in BOOLEAN
      /\ commandsHeld \in BOOLEAN /\ rangeAware \in BOOLEAN /\ cmdHere \in BOOLEAN
      /\ hasBeenSent \in BOOLEAN /\ external \in BOOLEAN /\ wallActed \in BOOLEAN
      /\ tempHere \in BOOLEAN /\ exchanged \in BOOLEAN
  BY DEF Init
<1>8. /\ sentFlags \subseteq Fields /\ withdrawn \subseteq Fields
      /\ tempAtSend \in Temps \cup {None} /\ superseded \in Temps \cup {None}
      /\ unconfirmed \in Temps \cup {None} /\ refused \in Refusals \cup {None}
      /\ deciding \in {"no", "observed", "held", "looking", "resuming"}
      /\ seen \in Observations \cup {None} /\ lostInARow \in 0 .. 2
  BY DEF Init
<1> QED BY <1>2, <1>3, <1>4, <1>5, <1>6, <1>7, <1>8 DEF MailTypes

\* What the coordinator looks at has its type.
LEMMA ObservationType ==
  ASSUME MailTypes
  PROVE  /\ [here |-> TRUE, encoding |-> encoding, current |-> TRUE,
             mode |-> Intended("mode"), temp |-> Intended("temp")] \in Observations
         /\ [here |-> TRUE, encoding |-> encoding, current |-> TRUE,
             mode |-> rep.mode, temp |-> rep.temp] \in Observations
         /\ seen \in Observations =>
              [seen EXCEPT !.mode = rep.mode, !.temp = rep.temp] \in Observations
<1>1. /\ rep["mode"] \in Modes /\ rep["temp"] \in Temps
      /\ rep.mode = rep["mode"] /\ rep.temp = rep["temp"] /\ encoding \in LineEncodings
  BY SettingsValue DEF MailTypes
<1>2. Intended("mode") \in Modes /\ Intended("temp") \in Temps
  <2>1. staged \in Batch /\ wanted \in Batch
    BY DEF MailTypes
  <2> QED BY <1>1, <2>1, BatchValue DEF Intended, Effective, Masked
<1>3. seen \in Observations =>
        [seen EXCEPT !.mode = rep.mode, !.temp = rep.temp] \in Observations
  BY <1>1 DEF Observations
<1>4. /\ [here |-> TRUE, encoding |-> encoding, current |-> TRUE,
          mode |-> Intended("mode"), temp |-> Intended("temp")] \in Observations
      /\ [here |-> TRUE, encoding |-> encoding, current |-> TRUE,
          mode |-> rep.mode, temp |-> rep.temp] \in Observations
  BY <1>1, <1>2 DEF Observations
<1> QED BY <1>3, <1>4

\* A decision is made on an observation.
Looked == deciding # "no" => seen \in Observations

TypesInv == MailTypes /\ Looked

LEMMA ResumeTypes ==
  ASSUME TypesInv, NEW cmd \in Batch, seen \in Observations, ResumeCommands(cmd)
  PROVE  TypesInv'
<1> DEFINE gone == Canceled(cmd)
           kept == Kept(gone)
           supersedes == /\ cmd.temp # None /\ kept.wanted.temp # None
                         /\ "temp" \in kept.sentFlags
                         /\ cmd.temp # kept.wanted.temp
           echo == IF supersedes THEN <<kept.wanted.temp, changeAge>> ELSE kept.echo
<1>1. /\ deciding' = "no" /\ seen' = None /\ previous' = Nothing
      /\ staged' = Update(Nothing, cmd) /\ wanted' = Update(kept.wanted, cmd)
      /\ sentFlags' = kept.sentFlags \ Given(cmd)
      /\ superseded' = echo[1] /\ supersededAge' = echo[2]
      /\ sendRequested' = (cmd # Nothing) /\ cmdHere' = seen.here
      /\ cmdEncoding' = seen.encoding /\ commandsHeld' = StaysHeld(cmd)
      /\ withdrawn' = (withdrawn \cup gone) \ Given(cmd)
      /\ UNCHANGED <<linkVars, tempAtSend, sent, sentAge, refusalVars, external, lineVars,
                     wallActed, lostInARow>>
  BY DEF ResumeCommands, Decided, Queue
<1>2. kept.wanted = Without(wanted, gone) /\ kept.sentFlags = sentFlags \ gone
      /\ kept.echo \in {<<wanted.temp, changeAge>>, <<superseded, supersededAge>>}
  BY DEF Kept
<1>3. /\ wanted \in Batch /\ wanted.temp \in Temps \cup {None}
      /\ changeAge \in 0 .. Grace /\ supersededAge \in 0 .. Grace
      /\ superseded \in Temps \cup {None}
      /\ sentFlags \subseteq Fields /\ withdrawn \subseteq Fields
  BY BatchValue DEF TypesInv, MailTypes
<1>4. kept.wanted \in Batch /\ kept.wanted.temp \in Temps \cup {None}
  <2>1. Without(wanted, gone) \in Batch
    BY <1>3, WithoutType
  <2> QED BY <1>2, <2>1, BatchValue
<1>5. gone \subseteq Fields /\ Given(cmd) \subseteq Fields
  BY DEF Canceled, Given, Fields
<1>6. seen.here \in BOOLEAN /\ seen.encoding \in LineEncodings
  BY DEF Observations
<1> HIDE DEF gone, kept, supersedes
<1>7. superseded' \in Temps \cup {None} /\ supersededAge' \in 0 .. Grace
  <2>1. CASE supersedes
    BY <1>1, <1>3, <1>4, <2>1
  <2>2. CASE ~supersedes
    BY <1>1, <1>2, <1>3, <2>2
  <2> QED BY <2>1, <2>2
<1>8. /\ hasBeenSent' \in BOOLEAN /\ changeAge' \in 0 .. Grace /\ rangeAware' \in BOOLEAN
  <2>1. \/ UNCHANGED <<hasBeenSent, changeAge, rangeAware>>
        \/ Await
    BY DEF ResumeCommands, Queue
  <2>2. 0 \in 0 .. Grace
    BY ValuesAssumption
  <2>3. CASE Await
    BY <2>2, <2>3 DEF Await
  <2>4. CASE UNCHANGED <<hasBeenSent, changeAge, rangeAware>>
    BY <2>4 DEF TypesInv, MailTypes
  <2> QED BY <2>1, <2>3, <2>4
<1>9. tempHere' \in BOOLEAN /\ tempEncoding' \in LineEncodings
  BY <1>6 DEF ResumeCommands, TypesInv, MailTypes
<1>10. /\ staged' \in Batch /\ wanted' \in Batch /\ previous' \in Batch
       /\ sentFlags' \subseteq Fields /\ withdrawn' \subseteq Fields
  BY <1>1, <1>2, <1>3, <1>4, <1>5, NothingType, UpdateType
<1>11. sendRequested' \in BOOLEAN /\ commandsHeld' \in BOOLEAN
  BY <1>1 DEF StaysHeld
<1> QED BY <1>1, <1>6, <1>7, <1>8, <1>9, <1>10, <1>11
        DEF TypesInv, MailTypes, Looked, linkVars, refusalVars, lineVars

\* The decisions keep the types.
LEMMA CoordinatorTypes == TypesInv /\ Coordinator => TypesInv'
<1> SUFFICES ASSUME TypesInv, Coordinator PROVE TypesInv'
  OBVIOUS
<1>1. CASE Observe
  <2>1. seen' \in Observations /\ deciding' = "observed"
    BY <1>1, ObservationType DEF Observe, TypesInv
  <2> QED BY <1>1, <2>1 DEF Observe, TypesInv, MailTypes, Looked, linkVars, mailVars,
             wantedVars, sentVars, refusalVars, lineVars, historyVars
<1>2. CASE LookAround
  <2>1. seen' \in Observations /\ deciding' = "looking"
    BY <1>2, ObservationType DEF LookAround, TypesInv
  <2> QED BY <1>2, <2>1 DEF LookAround, TypesInv, MailTypes, Looked, linkVars, mailVars,
             wantedVars, sentVars, refusalVars, lineVars, historyVars
<1>3. CASE FindHeld
  <2>1. seen' \in Observations /\ deciding' = "resuming" /\ previous' = staged
    BY <1>3, ObservationType DEF FindHeld, TypesInv, Looked
  <2> QED BY <1>3, <2>1 DEF FindHeld, TypesInv, MailTypes, Looked, linkVars, mailVars,
             wantedVars, sentVars, refusalVars, lineVars, historyVars
<1>4. CASE HoldCommands
  BY <1>4 DEF HoldCommands, TypesInv, MailTypes, Looked, linkVars, wantedVars, sentVars,
     refusalVars, lineVars, historyVars
<1>5. CASE GiveUp
  BY <1>5, NothingType DEF GiveUp, Decided, TypesInv, MailTypes, Looked, linkVars,
     mailVars, wantedVars, sentVars, refusalVars, lineVars, historyVars
<1>6. ASSUME NEW input \in Inputs, Submit(input) PROVE TypesInv'
  <2>1. seen \in Observations /\ previous \in Batch /\ input \in Batch
    BY <1>6, InputsAssumption DEF Submit, TypesInv, MailTypes, Looked
  <2>2. Normalized(input) \in Batch
    BY <2>1, NormalizedType
  <2>3. Merged(previous, Normalized(input)) \in Batch
    BY <2>1, <2>2, MergedType
  <2>4. Normalized(Merged(previous, Normalized(input))) \in Batch
    BY <2>1, <2>3, NormalizedType
  <2>5. ResumeCommands(Normalized(Merged(previous, Normalized(input))))
    BY <1>6 DEF Submit
  <2> QED BY <2>1, <2>4, <2>5, ResumeTypes
<1>7. CASE StorageFailure
  BY <1>7, ResumeTypes DEF StorageFailure, TypesInv, MailTypes, Looked
<1>8. CASE ResumeHeld
  <2>1. seen \in Observations /\ previous \in Batch
    BY <1>8 DEF ResumeHeld, TypesInv, MailTypes, Looked
  <2>2. Normalized(previous) \in Batch
    BY <2>1, NormalizedType
  <2>3. ResumeCommands(Normalized(previous))
    BY <1>8 DEF ResumeHeld
  <2> QED BY <2>1, <2>2, <2>3, ResumeTypes
<1>9. ASSUME NEW target \in AutoTargets, QueueAutoTarget(target) PROVE TypesInv'
  <2> DEFINE cmd == [Nothing EXCEPT !.temp = target]
             kept == Kept({})
             supersedes == /\ cmd.temp # None /\ kept.wanted.temp # None
                           /\ "temp" \in kept.sentFlags
                           /\ cmd.temp # kept.wanted.temp
             echo == IF supersedes THEN <<kept.wanted.temp, changeAge>> ELSE kept.echo
  <2>1. cmd \in Batch
    BY InputsAssumption, NothingType, WithTempType
  <2>2. /\ deciding' = "no" /\ seen' = None /\ previous' = Nothing
        /\ staged' = Update(staged, cmd) /\ wanted' = Update(kept.wanted, cmd)
        /\ sentFlags' = kept.sentFlags \ Given(cmd)
        /\ superseded' = echo[1] /\ supersededAge' = echo[2]
        /\ sendRequested' = TRUE /\ cmdHere' = TRUE /\ cmdEncoding' = encoding
        /\ tempHere' = TRUE /\ tempEncoding' = encoding
        /\ withdrawn' = withdrawn \ {"temp"}
        /\ UNCHANGED <<linkVars, commandsHeld, tempAtSend, sent, sentAge, refusalVars,
                       external, lineVars, wallActed, lostInARow>>
    BY <1>9 DEF QueueAutoTarget, Decided, Queue
  <2>3. \/ UNCHANGED <<hasBeenSent, changeAge, rangeAware>>
        \/ Await
    BY <1>9 DEF QueueAutoTarget, Queue
  <2>4. kept.wanted = Without(wanted, {}) /\ kept.sentFlags = sentFlags \ {}
        /\ kept.echo = <<superseded, supersededAge>>
    BY DEF Kept
  <2>5. /\ wanted \in Batch /\ staged \in Batch /\ encoding \in LineEncodings
        /\ changeAge \in 0 .. Grace /\ supersededAge \in 0 .. Grace
        /\ superseded \in Temps \cup {None}
        /\ sentFlags \subseteq Fields /\ withdrawn \subseteq Fields
    BY DEF TypesInv, MailTypes
  <2> HIDE DEF cmd
  <2>6. kept.wanted \in Batch /\ kept.wanted.temp \in Temps \cup {None}
    <3>1. Without(wanted, {}) \in Batch
      BY <2>5, WithoutType
    <3> QED BY <2>4, <3>1, BatchValue
  <2> HIDE DEF kept, supersedes
  <2>7. superseded' \in Temps \cup {None} /\ supersededAge' \in 0 .. Grace
    <3>1. CASE supersedes
      BY <2>2, <2>5, <2>6, <3>1
    <3>2. CASE ~supersedes
      BY <2>2, <2>4, <2>5, <3>2
    <3> QED BY <3>1, <3>2
  <2>8. hasBeenSent' \in BOOLEAN /\ changeAge' \in 0 .. Grace /\ rangeAware' \in BOOLEAN
    <3>1. 0 \in 0 .. Grace
      BY ValuesAssumption
    <3>2. CASE Await
      BY <3>1, <3>2 DEF Await
    <3>3. CASE UNCHANGED <<hasBeenSent, changeAge, rangeAware>>
      BY <3>3 DEF TypesInv, MailTypes
    <3> QED BY <2>3, <3>2, <3>3
  <2>9. /\ staged' \in Batch /\ wanted' \in Batch /\ previous' \in Batch
        /\ sentFlags' \subseteq Fields /\ withdrawn' \subseteq Fields
    BY <2>1, <2>2, <2>4, <2>5, <2>6, NothingType, UpdateType
  <2> QED BY <2>2, <2>5, <2>7, <2>8, <2>9
          DEF TypesInv, MailTypes, Looked, linkVars, refusalVars, lineVars
<1> QED BY <1>1, <1>2, <1>3, <1>4, <1>5, <1>6, <1>7, <1>8, <1>9 DEF Coordinator

\* What the unit makes of a SET, and what of it is remembered.
LEMMA TransmitTypes == TypesInv /\ TransmitSet => TypesInv'
<1> SUFFICES ASSUME TypesInv, TransmitSet PROVE TypesInv'
  OBVIOUS
<1> DEFINE onWire == IF staged.temp = None THEN staged
                     ELSE [staged EXCEPT !.temp = Quantize(staged.temp, encoding)]
           owned == Given(staged) \cap OwnedFields
<1>1. /\ unit \in Settings /\ staged \in Batch /\ sent \in Batch /\ encoding \in LineEncodings
      /\ staged.temp \in Temps \cup {None} /\ sentAge \in Ages /\ rep \in Settings
      /\ sentFlags \subseteq Fields /\ lostInARow \in 0 .. 2
      /\ tempAtSend \in Temps \cup {None}
  BY BatchValue DEF TypesInv, MailTypes
<1>2. onWire \in Batch
  BY <1>1, QuantizeType, WithTempType
<1>3. /\ exchanged' = FALSE /\ staged' = Nothing /\ sendRequested' = FALSE
      /\ hasBeenSent' = TRUE /\ sentFlags' = sentFlags \cup Given(staged)
      /\ tempAtSend' = (IF staged.temp # None THEN rep.temp ELSE tempAtSend)
      /\ sent' = [f \in Fields |-> IF f \in owned THEN onWire[f] ELSE sent[f]]
      /\ sentAge' = [f \in OwnedFields |-> IF f \in owned THEN 0 ELSE sentAge[f]]
  BY DEF TransmitSet
<1>3a. unit' \in UnitAnswers(onWire) \/ unit' = unit
  BY DEF TransmitSet
<1>3b. lostInARow' \in 0 .. 2
  BY <1>1 DEF TransmitSet
<1>4. UNCHANGED <<linkVars, commandsHeld, rangeAware, cmdHere, cmdEncoding, wanted,
                  changeAge, superseded, supersededAge, refusalVars, external,
                  decideVars, replies, wallActed, tempHere, tempEncoding, withdrawn>>
  BY DEF TransmitSet
<1> HIDE DEF onWire, owned
<1>5. unit' \in Settings
  <2>1. Update(unit, onWire) \in Settings
    BY <1>1, <1>2, TakenType
  <2>2. \A t \in Temps : [Update(unit, onWire) EXCEPT !.temp = t] \in Settings
    BY <2>1 DEF Settings
  <2>3. unit.temp \in Temps
    BY <1>1 DEF Settings
  <2> QED BY <1>1, <1>3a, <2>1, <2>2, <2>3 DEF UnitAnswers
<1>6. sent' \in Batch
  <2>1. \A f \in Fields : sent'[f] = onWire[f] \/ sent'[f] = sent[f]
    BY <1>3
  <2>2. sent' = [f \in Fields |-> sent'[f]]
    BY <1>3
  <2>3. /\ sent'["power"] \in BOOLEAN \cup {None} /\ sent'["mode"] \in Modes \cup {None}
        /\ sent'["temp"] \in Temps \cup {None} /\ sent'["fan"] \in Fans \cup {None}
    BY <1>1, <1>2, <2>1, BatchValue DEF Fields
  <2> QED BY <2>2, <2>3, BatchType
<1>7. sentAge' \in Ages
  <2>1. 0 \in 0 .. Grace
    BY ValuesAssumption
  <2> QED BY <1>1, <1>3, <2>1 DEF Ages
<1>8. sentFlags' \subseteq Fields
  BY <1>1, <1>3, GivenType
<1>9. tempAtSend' \in Temps \cup {None}
  BY <1>1, <1>3 DEF Settings
<1>10. Looked'
  BY <1>4 DEF TypesInv, Looked, decideVars
<1>11. /\ exchanged' \in BOOLEAN /\ staged' \in Batch /\ sendRequested' \in BOOLEAN
       /\ hasBeenSent' \in BOOLEAN
  BY <1>3, NothingType
<1> QED BY <1>11, <1>4, <1>5, <1>6, <1>7, <1>8, <1>9, <1>10, <1>3b
        DEF TypesInv, MailTypes, linkVars, refusalVars, decideVars

\* The answer is one of the settings, and what it says of a setpoint is kept.
LEMMA ReceiveTypes == TypesInv /\ ReceiveSettings => TypesInv'
<1> SUFFICES ASSUME TypesInv, ReceiveSettings PROVE TypesInv'
  OBVIOUS
<1> DEFINE next == Head(replies)
           asked == Quantize(wanted.temp, UnitEncoding)
<1>1. /\ replies \in Seq(Settings) /\ replies # <<>> /\ sent \in Batch /\ wanted \in Batch
      /\ wanted.temp \in Temps \cup {None} /\ unconfirmed \in Temps \cup {None}
      /\ refused \in Refusals \cup {None} /\ external \in BOOLEAN
  BY BatchValue DEF TypesInv, MailTypes, ReceiveSettings
<1>2. next \in Settings /\ Tail(replies) \in Seq(Settings)
  BY <1>1
<1>3. UnitEncoding \in LineEncodings
  BY ValuesAssumption DEF LineEncodings
<1>4. /\ replies' = Tail(replies) /\ exchanged' = TRUE /\ rep' = next
      /\ encoding' = UnitEncoding /\ baselined' = TRUE
      /\ sent' = Without(sent, Attributed(next))
      /\ external' = (external \/ ExternalChange(next))
  BY DEF ReceiveSettings
<1>5. UNCHANGED <<connected, mailVars, hasBeenSent, sentFlags, changeAge, tempAtSend,
                  sentAge, superseded, supersededAge, deciding, previous, unit,
                  historyVars>>
  BY DEF ReceiveSettings
<1>6. PICK settled : wanted' = Without(wanted, settled)
  BY DEF ReceiveSettings
<1>7. wanted' \in Batch /\ sent' \in Batch
  BY <1>1, <1>4, <1>6, WithoutType
<1>8. external' \in BOOLEAN
  BY <1>1, <1>4
<1>9. Declines(next) => asked \in Temps
  <2>1. Declines(next) => wanted.temp # None
    BY DEF Declines
  <2> QED BY <1>1, <1>3, <2>1, QuantizeType
<1>10. refused' \in Refusals \cup {None} /\ unconfirmed' \in Temps \cup {None}
  <2>1. \/ /\ Declines(next)
           /\ refused' = [temp |-> asked, answer |-> next.temp, mode |-> next.mode]
           /\ unconfirmed' = None
        \/ Declines(next) /\ refused' \in {None, refused} /\ unconfirmed' = asked
        \/ refused' \in {None, refused} /\ unconfirmed' \in {None, unconfirmed}
    BY DEF ReceiveSettings
  <2>2. next.temp \in Temps /\ next.mode \in Modes
    BY <1>2 DEF Settings
  <2> HIDE DEF next, asked
  <2>3. CASE /\ Declines(next)
             /\ refused' = [temp |-> asked, answer |-> next.temp, mode |-> next.mode]
             /\ unconfirmed' = None
    BY <1>9, <2>2, <2>3 DEF Refusals
  <2> QED BY <1>1, <1>9, <2>1, <2>3
<1>11. seen' \in Observations \cup {None} /\ (seen \in Observations => seen' \in Observations)
  <2>1. seen' = IF seen = None THEN None ELSE [seen EXCEPT !.current = FALSE]
    BY DEF ReceiveSettings
  <2>2. CASE seen \in Observations
    BY <2>1, <2>2 DEF Observations
  <2>3. CASE seen = None
    BY <2>1, <2>3
  <2> QED BY <2>2, <2>3 DEF TypesInv, MailTypes
<1>12. Looked'
  BY <1>5, <1>11 DEF Looked, TypesInv
<1> HIDE DEF next, asked
<1> QED BY <1>2, <1>3, <1>4, <1>5, <1>7, <1>8, <1>10, <1>11, <1>12
        DEF TypesInv, MailTypes, mailVars, historyVars

\* Both ends of a connection.
LEMMA ReconnectTypes == TypesInv /\ (RestartHandshake \/ ConnectOk) => TypesInv'
<1> SUFFICES ASSUME TypesInv, RestartHandshake \/ ConnectOk PROVE TypesInv'
  OBVIOUS
<1>1. /\ encoding' = "unknown" /\ baselined' = FALSE /\ refused' = None
      /\ unconfirmed' = None /\ cmdHere' = FALSE /\ tempHere' = FALSE
      /\ seen' = IF seen = None THEN None ELSE [seen EXCEPT !.here = FALSE]
  BY DEF RestartHandshake, ConnectOk, OtherConnection
<1>2. seen' \in Observations \cup {None} /\ (seen \in Observations => seen' \in Observations)
  <2>1. CASE seen \in Observations
    BY <1>1, <2>1 DEF Observations
  <2>2. CASE seen = None
    BY <1>1, <2>2
  <2> QED BY <2>1, <2>2 DEF TypesInv, MailTypes
<1>3. encoding' \in LineEncodings
  BY <1>1 DEF LineEncodings
<1>4. CASE ConnectOk
  <2>1. /\ connected' = TRUE /\ exchanged' = TRUE /\ sent' = Nothing
        /\ UNCHANGED <<rep, staged, sendRequested, commandsHeld, rangeAware, cmdEncoding,
                       wantedVars, sentAge, superseded, supersededAge, external, deciding,
                       previous, unit, replies, wallActed, tempEncoding, withdrawn,
                       lostInARow>>
    BY <1>4 DEF ConnectOk
  <2>2. /\ hasBeenSent' \in BOOLEAN /\ sentFlags' \subseteq Fields
        /\ changeAge' \in 0 .. Grace /\ tempAtSend' \in Temps \cup {None}
        /\ wanted' \in Batch /\ sent' \in Batch
    BY <2>1, NothingType DEF TypesInv, MailTypes, wantedVars
  <2>3. Looked'
    BY <1>2, <2>1 DEF TypesInv, Looked
  <2>4. refused' \in Refusals \cup {None} /\ unconfirmed' \in Temps \cup {None}
        /\ connected' \in BOOLEAN /\ exchanged' \in BOOLEAN /\ baselined' \in BOOLEAN
        /\ cmdHere' \in BOOLEAN /\ tempHere' \in BOOLEAN
    BY <1>1, <2>1
  <2> QED BY <1>2, <1>3, <2>1, <2>2, <2>3, <2>4 DEF TypesInv, MailTypes
<1>5. CASE RestartHandshake
  <2>1. /\ connected' = FALSE /\ exchanged' = TRUE /\ superseded' = None
        /\ UNCHANGED <<rep, rangeAware, cmdEncoding, sent, sentAge, supersededAge,
                       external, deciding, previous, unit, wallActed, tempEncoding,
                       withdrawn, lostInARow>>
    BY <1>5 DEF RestartHandshake
  <2>2. replies' \in Seq(Settings)
    BY <1>5 DEF RestartHandshake, TypesInv, MailTypes
  <2>3. /\ staged' \in Batch /\ wanted' \in Batch /\ sendRequested' \in BOOLEAN
        /\ commandsHeld' \in BOOLEAN /\ hasBeenSent' \in BOOLEAN
        /\ sentFlags' \subseteq Fields /\ changeAge' \in 0 .. Grace
        /\ tempAtSend' \in Temps \cup {None}
    <3>1. CASE rangeAware
      <4>1. /\ staged' = Update(staged, [wanted EXCEPT !.fan = None])
            /\ sendRequested' = (staged' # Nothing) /\ commandsHeld' = TRUE
            /\ wanted' = Nothing /\ hasBeenSent' = FALSE /\ sentFlags' = {}
            /\ changeAge' = Grace /\ tempAtSend' = None
        BY <1>5, <3>1 DEF RestartHandshake
      <4>2. [wanted EXCEPT !.fan = None] \in Batch /\ staged \in Batch
        BY DEF TypesInv, MailTypes, Batch
      <4>3. Update(staged, [wanted EXCEPT !.fan = None]) \in Batch
        BY <4>2, UpdateType
      <4>4. Grace \in 0 .. Grace
        BY ValuesAssumption
      <4> QED BY <4>1, <4>3, <4>4, NothingType
    <3>2. CASE ~rangeAware
      BY <1>5, <3>2 DEF RestartHandshake, wantedVars, TypesInv, MailTypes
    <3> QED BY <3>1, <3>2
  <2> QED BY <1>1, <1>2, <1>3, <2>1, <2>2, <2>3 DEF TypesInv, MailTypes, Looked
<1> QED BY <1>4, <1>5

\* TypesInv is inductive.
LEMMA TypesStep == TypesInv /\ [Next]_vars => TypesInv'
<1> SUFFICES ASSUME TypesInv, [Next]_vars PROVE TypesInv'
  OBVIOUS
<1>1. CASE HoldForeign
  BY <1>1 DEF HoldForeign, TypesInv, MailTypes, Looked, linkVars, wantedVars, sentVars,
     refusalVars, decideVars, lineVars, historyVars
<1>2. CASE PollSettings
  <2>1. replies' \in Seq(Settings)
    BY <1>2 DEF PollSettings, TypesInv, MailTypes
  <2> QED BY <1>2, <2>1 DEF PollSettings, TypesInv, MailTypes, Looked, linkVars, mailVars,
             wantedVars, sentVars, refusalVars, decideVars, historyVars
<1>3. CASE LoseReply
  <2>1. replies' \in Seq(Settings)
    BY <1>3 DEF LoseReply, TypesInv, MailTypes
  <2> QED BY <1>3, <2>1 DEF LoseReply, TypesInv, MailTypes, Looked, linkVars, mailVars,
             wantedVars, sentVars, refusalVars, decideVars, historyVars
<1>4. CASE WallController
  <2>1. unit' \in Settings
    <3>1. PICK move \in WallMoves : unit' = Update(unit, move)
      BY <1>4 DEF WallController
    <3> QED BY <3>1, InputsAssumption, TakenType DEF TypesInv, MailTypes
  <2>2. wallActed' \in BOOLEAN
    BY <1>4 DEF WallController, TypesInv, MailTypes
  <2> QED BY <1>4, <2>1, <2>2 DEF WallController, TypesInv, MailTypes, Looked, linkVars,
             mailVars, wantedVars, sentVars, refusalVars, decideVars
<1>5. CASE Tick
  <2>1. /\ changeAge' \in 0 .. Grace
        /\ supersededAge' \in 0 .. Grace
    <3>1. Grace \in 0 .. Grace
      BY ValuesAssumption
    <3> QED BY <1>5, <3>1, OlderType DEF Tick, TypesInv, MailTypes
  <2>2. sentAge' \in Ages
    BY <1>5, OlderType DEF Tick, TypesInv, MailTypes, Ages
  <2> QED BY <1>5, <2>1, <2>2 DEF Tick, TypesInv, MailTypes, Looked, linkVars, mailVars,
             refusalVars, decideVars, lineVars
<1>6. CASE UNCHANGED vars
  BY <1>6 DEF vars, TypesInv, MailTypes, Looked, linkVars, mailVars, wantedVars, sentVars,
     refusalVars, decideVars, lineVars, historyVars
<1> QED BY <1>1, <1>2, <1>3, <1>4, <1>5, <1>6, CoordinatorTypes, TransmitTypes,
           ReceiveTypes, ReconnectTypes DEF Next, Driver

LEMMA TypesHold == Spec => []TypesInv
<1>1. Init => TypesInv
  BY TypesInit DEF TypesInv, Looked, Init
<1> QED BY <1>1, TypesStep, PTL DEF Spec

\* Every variable keeps its type: what the coordinator decides and what the
\* unit answers are batches and settings, for any setpoints and any commands.
THEOREM MailTypeCorrect == Spec => []TypeOK
<1>1. TypesInv => TypeOK
  BY TypesNamed DEF TypesInv
<1> QED BY <1>1, TypesHold, PTL
-----------------------------------------------------------------------------
(* Whose change it is: OnlyOthersAreExternal                                *)

\* What the unit reports next is what it does: nothing is sent behind an answer.
AnswerIsCurrent ==
  replies # <<>> =>
    /\ replies = <<Head(replies)>>
    /\ wallActed \/ \A f \in OwnedFields : Head(replies)[f] = unit[f]

\* The unit takes every SET that is sent, and every SET arrives.
Faithful == Declined = {} /\ ~LosesSets

\* Evidence that a change of the field is the driver's doing: the SET it is
\* awaiting the answer to, or any earlier one if the unit does all it is told.
Evidence(f) ==
  /\ sent[f] # None
  /\ IF Faithful THEN sent[f] = unit[f]
     ELSE ~exchanged /\ (sent[f] = unit[f] \/ (f = "temp" /\ ~Expired("temp")))

\* As long as nobody else acts, the unit differs from what it last reported only
\* where there is evidence.
OwnDoing ==
  baselined /\ ~wallActed =>
    \A f \in OwnedFields : unit[f] = rep[f] \/ Evidence(f)

\* Answers outlive neither a SET nor the next request, and one that is lost
\* loses nothing that the next does not say.
LineAssumption == ~LateReplies /\ (LosesReplies => Faithful)

OwnInv == AnswerIsCurrent /\ OwnDoing /\ OnlyOthersAreExternal

\* What the invariant reads.
Traces == <<unit, rep, sent, sentAge, exchanged, replies, baselined, wallActed, external>>

\* A step that touches none of it keeps it.
LEMMA TracesKeepOwn == OwnInv /\ UNCHANGED Traces => OwnInv'
BY DEF OwnInv, AnswerIsCurrent, OwnDoing, OnlyOthersAreExternal, Evidence, Expired, Traces

\* The decisions do not reach the line.
LEMMA CoordinatorKeepsOwn == OwnInv /\ Coordinator => OwnInv'
<1> SUFFICES ASSUME OwnInv, Coordinator PROVE OwnInv'
  OBVIOUS
<1>1. CASE Observe \/ LookAround \/ GiveUp \/ FindHeld
  BY <1>1, TracesKeepOwn DEF Observe, LookAround, GiveUp, FindHeld, Traces, linkVars,
     sentVars, lineVars, historyVars
<1>2. CASE HoldCommands
  BY <1>2, TracesKeepOwn DEF HoldCommands, Traces, linkVars, sentVars, lineVars,
     historyVars
<1>3. ASSUME NEW cmd, ResumeCommands(cmd) PROVE OwnInv'
  BY <1>3, TracesKeepOwn DEF ResumeCommands, Traces, linkVars, lineVars
<1>4. CASE (\E input \in Inputs : Submit(input)) \/ StorageFailure \/ ResumeHeld
  BY <1>3, <1>4 DEF Submit, StorageFailure, ResumeHeld
<1>5. ASSUME NEW target \in AutoTargets, QueueAutoTarget(target) PROVE OwnInv'
  BY <1>5, TracesKeepOwn DEF QueueAutoTarget, Traces, linkVars, lineVars
<1> QED BY <1>1, <1>2, <1>4, <1>5 DEF Coordinator

\* The fields a SET gives a value for, and what it leaves alone.
LEMMA TakenValue ==
  ASSUME NEW base, NEW batch, NEW f \in Fields
  PROVE  Update(base, batch)[f] = IF batch[f] # None THEN batch[f] ELSE base[f]
BY DEF Update

\* What a SET leaves in the unit: all it says, except a setpoint it declines.
LEMMA AnswersKeep ==
  ASSUME NEW set, unit \in Settings, NEW f \in OwnedFields, unit' \in UnitAnswers(set),
         ~(f = "temp" /\ set.temp \in Declined)
  PROVE  unit'[f] = IF set[f] # None THEN set[f] ELSE unit[f]
<1> DEFINE taken == Update(unit, set)
<1>1. f \in Fields /\ "temp" \in Fields
  BY DEF OwnedFields, Fields
<1>2. taken[f] = IF set[f] # None THEN set[f] ELSE unit[f]
  BY <1>1, TakenValue
<1>3. taken = [g \in Fields |-> taken[g]]
  BY DEF Update
<1> HIDE DEF taken
<1>4. CASE set.temp \notin Declined
  <2>1. unit' = taken
    BY <1>4 DEF UnitAnswers, taken
  <2> QED BY <1>2, <2>1
<1>5. CASE set.temp \in Declined /\ f # "temp"
  <2>1. PICK t : unit' = [taken EXCEPT !.temp = t]
    BY <1>5 DEF UnitAnswers, taken
  <2>2. unit'[f] = taken[f]
    BY <1>1, <1>3, <1>5, <2>1
  <2> QED BY <1>2, <2>2
<1> QED BY <1>4, <1>5

\* A SET leaves evidence for every field it changes; while the answer to an
\* earlier one may be missing, only a faithful unit is told more.
LEMMA TransmitKeepsOwn ==
  ASSUME LineAssumption, TypesInv, OwnInv, TransmitSet
  PROVE  OwnInv'
<1> DEFINE onWire == IF staged.temp = None THEN staged
                     ELSE [staged EXCEPT !.temp = Quantize(staged.temp, encoding)]
           owned == Given(staged) \cap OwnedFields
<1>1. /\ exchanged /\ exchanged' = FALSE /\ replies = <<>> /\ replies' = <<>>
      /\ rep' = rep /\ baselined' = baselined /\ wallActed' = wallActed
      /\ external' = external
  BY DEF TransmitSet, LineAssumption, linkVars
<1>2. /\ sent' = [f \in Fields |-> IF f \in owned THEN onWire[f] ELSE sent[f]]
      /\ sentAge' = [f \in OwnedFields |-> IF f \in owned THEN 0 ELSE sentAge[f]]
  BY DEF TransmitSet
<1>3. unit' \in UnitAnswers(onWire) \/ (LosesSets /\ unit' = unit)
  BY DEF TransmitSet
<1>4. OwnedFields \subseteq Fields /\ "temp" \in OwnedFields /\ "temp" \in Fields
  BY DEF OwnedFields, Fields
<1>5. /\ staged \in Batch /\ encoding \in LineEncodings /\ unit \in Settings
      /\ staged.temp \in Temps \cup {None} /\ staged = [f \in Fields |-> staged[f]]
      /\ staged.temp = staged["temp"]
  BY BatchValue DEF TypesInv, MailTypes
<1>6. \A f \in OwnedFields : f \in owned <=> onWire[f] # None
  <2> SUFFICES ASSUME NEW f \in OwnedFields PROVE f \in owned <=> onWire[f] # None
    OBVIOUS
  <2>1. f \in Fields /\ (f \in owned <=> staged[f] # None)
    BY <1>4 DEF Given
  <2>2. CASE staged.temp = None
    BY <2>1, <2>2
  <2>3. CASE staged.temp # None /\ f # "temp"
    BY <1>5, <2>1, <2>3
  <2>4. CASE staged.temp # None /\ f = "temp"
    <3>1. Quantize(staged.temp, encoding) \in Temps
      BY <1>5, <2>4, QuantizeType
    <3>2. onWire[f] = Quantize(staged.temp, encoding)
      BY <1>4, <1>5, <2>4
    <3>3. None \notin Temps
      BY ValuesAssumption
    <3> QED BY <1>5, <2>1, <2>4, <3>1, <3>2, <3>3
  <2> QED BY <2>2, <2>3, <2>4
<1> HIDE DEF onWire, owned
<1>7. None \notin Declined /\ Grace \in Nat /\ ~(0 >= Grace)
  <2>1. None \notin Declined
    BY ValuesAssumption
  <2>2. Grace \in Nat /\ Grace # 0
    BY ValuesAssumption
  <2>3. ~(0 >= Grace)
    BY <2>2
  <2> QED BY <2>1, <2>2, <2>3
<1>8. onWire.temp = onWire["temp"]
  OBVIOUS
<1>9. ASSUME NEW f \in OwnedFields, baselined, ~wallActed
      PROVE  unit'[f] = rep[f] \/ Evidence(f)'
  <2>1. unit[f] = rep[f] \/ Evidence(f)
    BY <1>9 DEF OwnInv, OwnDoing
  <2>2. /\ f \in owned => sent'[f] = onWire[f] /\ sent'[f] # None /\ sentAge'[f] = 0
        /\ f \notin owned => sent'[f] = sent[f]
    BY <1>2, <1>4, <1>6
  <2>3. CASE f \in owned /\ unit' \in UnitAnswers(onWire)
             /\ ~(f = "temp" /\ onWire.temp \in Declined)
    <3>1. unit'[f] = onWire[f]
      BY <1>5, <1>6, <2>3, AnswersKeep
    <3> QED BY <1>1, <2>2, <2>3, <3>1 DEF Evidence
  <2>4. CASE f \in owned /\ f = "temp" /\ onWire.temp \in Declined
    <3>1. ~Faithful
      BY <2>4 DEF Faithful
    <3>2. ~(sentAge'["temp"] >= Grace)
      BY <1>7, <2>2, <2>4
    <3> QED BY <1>1, <2>2, <2>4, <3>1, <3>2 DEF Evidence, Expired
  <2>5. CASE f \notin owned /\ unit' \in UnitAnswers(onWire)
    <3>1. onWire[f] = None
      BY <1>6, <2>5
    <3>2. ~(f = "temp" /\ onWire.temp \in Declined)
      BY <1>7, <1>8, <3>1
    <3>3. unit'[f] = unit[f]
      BY <1>5, <2>5, <3>1, <3>2, AnswersKeep
    <3>4. Evidence(f) => Evidence(f)'
      BY <1>1, <2>2, <2>5, <3>3 DEF Evidence
    <3> QED BY <2>1, <3>3, <3>4
  <2>6. CASE LosesSets /\ unit' = unit
    <3>1. ~Faithful
      BY <2>6 DEF Faithful
    <3>2. ~Evidence(f)
      BY <1>1, <3>1 DEF Evidence
    <3> QED BY <2>1, <2>6, <3>2
  <2> QED BY <1>3, <2>3, <2>4, <2>5, <2>6
<1> QED BY <1>1, <1>9 DEF OwnInv, AnswerIsCurrent, OwnDoing, OnlyOthersAreExternal

\* A difference that is reported has evidence, so it is attributed.
LEMMA ReportIsAttributed ==
  ASSUME TypesInv, OwnInv, replies # <<>>, ~wallActed
  PROVE  ~ExternalChange(Head(replies))
<1> DEFINE next == Head(replies)
<1>1. \A f \in OwnedFields : next[f] = unit[f]
  BY DEF OwnInv, AnswerIsCurrent
<1>2. next \in Settings /\ rep \in Settings
  BY DEF TypesInv, MailTypes
<1>3. /\ next.power = next["power"] /\ next.mode = next["mode"] /\ next.temp = next["temp"]
      /\ rep.power = rep["power"] /\ rep.mode = rep["mode"] /\ rep.temp = rep["temp"]
      /\ sent.temp = sent["temp"] /\ rep["power"] \in BOOLEAN /\ next["power"] \in BOOLEAN
  BY <1>2 DEF Settings
<1> HIDE DEF next
<1>4. /\ "power" \in OwnedFields /\ "mode" \in OwnedFields /\ "temp" \in OwnedFields
  BY DEF OwnedFields
<1>5. SUFFICES ASSUME baselined, AutoIn(next)
               PROVE  IF AutoIn(rep) THEN next.temp = rep.temp \/ OurTemp(next)
                      ELSE OurEntry(next)
  BY <1>5 DEF ExternalChange, next
<1>6. \A f \in OwnedFields :
        next[f] = rep[f] \/ /\ sent[f] # None
                            /\ sent[f] = next[f] \/ (f = "temp" /\ ~Expired("temp"))
  BY <1>1, <1>5 DEF OwnInv, OwnDoing, Evidence
<1>7. next.temp = rep.temp \/ OurTemp(next)
  BY <1>3, <1>4, <1>6 DEF OurTemp
<1>8. OurEntry(next)
  <2>1. next.power /\ next.mode = "auto"
    BY <1>5 DEF AutoIn
  <2>2. rep.power \/ Ours("power", next)
    BY <1>3, <1>4, <1>6, <2>1 DEF Ours
  <2>3. rep.mode = "auto" \/ Ours("mode", next)
    BY <1>3, <1>4, <1>6, <2>1 DEF Ours
  <2> QED BY <2>2, <2>3 DEF OurEntry
<1> QED BY <1>7, <1>8

\* An answer makes the view what the unit does.
LEMMA ReceiveKeepsOwn ==
  ASSUME TypesInv, OwnInv, ReceiveSettings
  PROVE  OwnInv'
<1>1. /\ replies # <<>> /\ replies' = Tail(replies) /\ rep' = Head(replies)
      /\ external' = (external \/ ExternalChange(Head(replies)))
      /\ unit' = unit /\ wallActed' = wallActed
  BY DEF ReceiveSettings, historyVars
<1>2. /\ replies = <<Head(replies)>>
      /\ wallActed \/ \A f \in OwnedFields : Head(replies)[f] = unit[f]
  BY <1>1 DEF OwnInv, AnswerIsCurrent
<1>3. replies' = <<>>
  <2> DEFINE h == Head(replies)
  <2>1. replies = <<h>>
    BY <1>2
  <2> HIDE DEF h
  <2>2. Tail(<<h>>) = <<>>
    OBVIOUS
  <2> QED BY <1>1, <2>1, <2>2
<1>4. AnswerIsCurrent'
  BY <1>3 DEF AnswerIsCurrent
<1>5. OwnDoing'
  BY <1>1, <1>2 DEF OwnDoing
<1>6. OnlyOthersAreExternal'
  BY <1>1, ReportIsAttributed DEF OwnInv, OnlyOthersAreExternal
<1> QED BY <1>4, <1>5, <1>6 DEF OwnInv

\* Requests, losses, connections, the wall and the clock.
LEMMA LineKeepsOwn ==
  ASSUME LineAssumption, TypesInv, OwnInv,
         HoldForeign \/ PollSettings \/ LoseReply \/ RestartHandshake \/ ConnectOk
           \/ WallController \/ Tick
  PROVE  OwnInv'
<1>1. CASE HoldForeign
  BY <1>1, TracesKeepOwn DEF HoldForeign, Traces, linkVars, sentVars, lineVars, historyVars
<1>2. CASE PollSettings
  <2>1. replies = <<>> /\ replies' = <<unit>>
    <3>1. replies \in Seq(Settings) /\ Len(replies) < 1
      BY <1>2 DEF PollSettings, LineAssumption, TypesInv, MailTypes
    <3>2. replies = <<>>
      BY <3>1
    <3> QED BY <1>2, <3>2 DEF PollSettings
  <2>2. AnswerIsCurrent'
    <3>1. Head(replies') = unit /\ unit' = unit
      BY <1>2, <2>1 DEF PollSettings
    <3> QED BY <2>1, <3>1 DEF AnswerIsCurrent
  <2>3. UNCHANGED <<unit, rep, sent, sentAge, exchanged, baselined, wallActed, external>>
    BY <1>2 DEF PollSettings, linkVars, sentVars, historyVars
  <2>4. (OwnDoing /\ OnlyOthersAreExternal)'
    BY <2>3 DEF OwnInv, OwnDoing, Evidence, Expired, OnlyOthersAreExternal
  <2> QED BY <2>2, <2>4 DEF OwnInv
<1>3. CASE LoseReply
  <2>1. /\ Faithful /\ replies # <<>> /\ replies' = Tail(replies)
        /\ UNCHANGED <<unit, rep, sent, baselined, wallActed, external>>
    BY <1>3 DEF LoseReply, LineAssumption, linkVars, sentVars, historyVars
  <2>2. replies' = <<>>
    <3> DEFINE h == Head(replies)
    <3>1. replies = <<h>>
      BY <2>1 DEF OwnInv, AnswerIsCurrent
    <3> HIDE DEF h
    <3>2. Tail(<<h>>) = <<>>
      OBVIOUS
    <3> QED BY <2>1, <3>1, <3>2
  <2>3. Faithful'
    BY <2>1 DEF Faithful
  <2> QED BY <2>1, <2>2, <2>3 DEF OwnInv, AnswerIsCurrent, OwnDoing, Evidence,
             OnlyOthersAreExternal
<1>4. CASE RestartHandshake
  <2>1. baselined' = FALSE /\ replies' = <<>> /\ UNCHANGED <<wallActed, external>>
    BY <1>4 DEF RestartHandshake, OtherConnection, LineAssumption
  <2> QED BY <2>1 DEF OwnInv, AnswerIsCurrent, OwnDoing, OnlyOthersAreExternal
<1>5. CASE ConnectOk
  <2>1. baselined' = FALSE /\ UNCHANGED <<replies, unit, wallActed, external>>
    BY <1>5 DEF ConnectOk, OtherConnection
  <2> QED BY <2>1 DEF OwnInv, AnswerIsCurrent, OwnDoing, OnlyOthersAreExternal
<1>6. CASE WallController
  <2>1. /\ UNCHANGED <<rep, sent, sentAge, exchanged, replies, baselined, external>>
        /\ wallActed' = (wallActed \/ \E f \in OwnedFields : unit'[f] # unit[f])
    BY <1>6 DEF WallController, linkVars, sentVars
  <2>2. CASE wallActed'
    BY <2>1, <2>2 DEF OwnInv, AnswerIsCurrent, OwnDoing, OnlyOthersAreExternal
  <2>3. CASE ~wallActed'
    <3>1. ~wallActed /\ \A f \in OwnedFields : unit'[f] = unit[f]
      BY <2>1, <2>3
    <3> QED BY <2>1, <2>3, <3>1 DEF OwnInv, AnswerIsCurrent, OwnDoing, Evidence, Expired,
               OnlyOthersAreExternal
  <2> QED BY <2>2, <2>3
<1>7. CASE Tick
  <2>1. /\ exchanged /\ replies = <<>>
        /\ UNCHANGED <<unit, rep, sent, exchanged, replies, baselined, wallActed, external>>
    BY <1>7 DEF Tick, LineAssumption, linkVars, lineVars
  <2>2. \A f \in OwnedFields : Evidence(f) => Evidence(f)'
    BY <2>1 DEF Evidence, Faithful
  <2>3. OwnDoing'
    BY <2>1, <2>2 DEF OwnInv, OwnDoing
  <2> QED BY <2>1, <2>3 DEF OwnInv, AnswerIsCurrent, OnlyOthersAreExternal
<1> QED BY <1>1, <1>2, <1>3, <1>4, <1>5, <1>6, <1>7

\* OwnInv is inductive.
LEMMA OwnStep == LineAssumption /\ TypesInv /\ OwnInv /\ [Next]_vars => OwnInv'
<1> SUFFICES ASSUME LineAssumption, TypesInv, OwnInv, [Next]_vars PROVE OwnInv'
  OBVIOUS
<1>1. CASE UNCHANGED vars
  BY <1>1, TracesKeepOwn DEF vars, Traces, linkVars, sentVars, lineVars, historyVars
<1> QED BY <1>1, CoordinatorKeepsOwn, TransmitKeepsOwn, ReceiveKeepsOwn, LineKeepsOwn
        DEF Next, Driver

\* A change of the unit counts as somebody else's only after somebody else
\* changed it: every answer that comes back is attributed to the SETs before it,
\* whatever the coordinator decides, holds and replaces meanwhile, whatever the
\* unit declines and however connections begin and end.
THEOREM OnlyOthersCount ==
  ASSUME LineAssumption
  PROVE  Spec => []OnlyOthersAreExternal
<1>1. Init => OwnInv
  BY DEF Init, OwnInv, AnswerIsCurrent, OwnDoing, OnlyOthersAreExternal
<1>2. OwnInv => OnlyOthersAreExternal
  BY DEF OwnInv
<1>3. TypesInv /\ OwnInv /\ [Next]_vars => OwnInv'
  BY OwnStep
<1> QED BY <1>1, <1>2, <1>3, TypesHold, PTL DEF Spec
-----------------------------------------------------------------------------
(* Why a setpoint is refused: RefusalIsEarned                               *)

\* What the unit is told of the commanded setpoint, and what it is asked to
\* confirm.
Asked == Quantize(wanted.temp, UnitEncoding)

\* A commanded setpoint has been sent, nobody else has acted, and the unit takes
\* it when it gets it.
Awaited ==
  wanted.temp # None /\ "temp" \in sentFlags /\ ~wallActed /\ Asked \notin Declined

\* The setpoint that is sent is the one that is waited for.
OneSetpoint == staged.temp # None => wanted.temp \in {None, staged.temp}

\* A setpoint validated for this connection before the unit spoke stays held.
KnownEncoding ==
  staged.temp # None /\ cmdHere /\ cmdEncoding = "unknown" => commandsHeld

\* The encoding becomes known with the first answer, and a refusal needs one.
EncodingIs ==
  /\ encoding \in {"unknown", UnitEncoding}
  /\ encoding # "unknown" => baselined
  /\ encoding = "unknown" => unconfirmed = None

CommandedAware == ~rangeAware => wanted.temp = None

\* An awaited setpoint is in the unit, or its SET was lost and the unit is where
\* it was when it was sent.
LostOrTaken ==
  Awaited => unit.temp = Asked \/ (LosesSets /\ lostInARow >= 1 /\ unit.temp = tempAtSend)

\* One refusal that is not final yet stands for one loss, as long as the unit
\* does not move.
AskedBefore ==
  unconfirmed # None /\ ~wallActed /\ unconfirmed \notin Declined =>
    ~Faithful /\ (unit.temp = rep.temp => lostInARow >= 1)

\* The same setpoint awaited again is in the unit, or lost for a second time.
AskedAgain ==
  unconfirmed # None /\ Awaited /\ unconfirmed = Asked /\ unit.temp = rep.temp =>
    unit.temp = Asked \/ lostInARow >= 2

RefInv ==
  /\ OneSetpoint /\ KnownEncoding /\ EncodingIs /\ CommandedAware
  /\ LostOrTaken /\ AskedBefore /\ AskedAgain

\* What the invariant reads.
Waits == <<staged, wanted, rangeAware, cmdHere, cmdEncoding, commandsHeld, encoding,
           baselined, unconfirmed, sentFlags, wallActed, unit, tempAtSend, lostInARow, rep>>

\* A step that touches none of it keeps it.
LEMMA WaitsKeepRef == RefInv /\ UNCHANGED Waits => RefInv'
<1> SUFFICES ASSUME RefInv, UNCHANGED Waits PROVE RefInv'
  OBVIOUS
<1>1. Asked' = Asked /\ (Awaited' <=> Awaited)
  BY DEF Waits, Asked, Awaited
<1>2. (OneSetpoint /\ KnownEncoding /\ EncodingIs /\ CommandedAware)'
  BY DEF RefInv, Waits, OneSetpoint, KnownEncoding, EncodingIs, CommandedAware
<1>3. (LostOrTaken /\ AskedBefore /\ AskedAgain)'
  BY <1>1 DEF RefInv, Waits, LostOrTaken, AskedBefore, AskedAgain, Faithful
<1> QED BY <1>2, <1>3 DEF RefInv

\* Nothing new is awaited, and the unit stays where it is or is not ours to tell.
LEMMA LessIsAwaited ==
  ASSUME RefInv,
         Awaited' => Awaited /\ wanted'.temp = wanted.temp /\ tempAtSend' = tempAtSend,
         unconfirmed' \in {None, unconfirmed},
         wallActed => wallActed',
         wallActed' \/ unit'.temp = unit.temp,
         lostInARow' = lostInARow, rep' = rep
  PROVE  (LostOrTaken /\ AskedBefore /\ AskedAgain)'
<1>1. Awaited' => Asked' = Asked /\ ~wallActed'
  BY DEF Asked, Awaited
<1>2. LostOrTaken'
  BY <1>1 DEF RefInv, LostOrTaken
<1>3. AskedBefore'
  BY DEF RefInv, AskedBefore, Faithful
<1>4. AskedAgain'
  BY <1>1 DEF RefInv, AskedAgain
<1> QED BY <1>2, <1>3, <1>4

\* A replaced batch holds a setpoint that the unit has not spoken of, and one
\* that is commanded anew has not been sent.
LEMMA ResumeKeepsRef ==
  ASSUME RefInv, NEW cmd, ResumeCommands(cmd)
  PROVE  RefInv'
<1> DEFINE gone == Canceled(cmd)
<1>1. /\ staged' = Update(Nothing, cmd)
      /\ wanted' = Update(Without(wanted, gone), cmd)
      /\ sentFlags' = (sentFlags \ gone) \ Given(cmd)
      /\ cmdHere' = seen.here /\ cmdEncoding' = seen.encoding
      /\ commandsHeld' = StaysHeld(cmd)
      /\ UNCHANGED <<encoding, baselined, rep, unconfirmed, wallActed, unit, tempAtSend,
                     lostInARow>>
  BY DEF ResumeCommands, Queue, Kept, linkVars, refusalVars, lineVars
<1> HIDE DEF gone
<1>2. /\ cmd["temp"] # None => /\ staged'["temp"] = cmd["temp"]
                               /\ wanted'["temp"] = cmd["temp"]
                               /\ "temp" \notin sentFlags'
      /\ cmd["temp"] = None => /\ staged'["temp"] = None
                               /\ wanted'["temp"] \in {None, wanted["temp"]}
                               /\ "temp" \in sentFlags' => "temp" \in sentFlags
  BY <1>1, UpdateValue, WithoutValue, NothingValue, GivenValue, FieldNames
<1>3. OneSetpoint'
  BY <1>2 DEF OneSetpoint
<1>4. KnownEncoding'
  <2> SUFFICES ASSUME staged'.temp # None, cmdEncoding' = "unknown"
               PROVE  commandsHeld'
    BY DEF KnownEncoding
  <2> QED BY <1>1, <1>2 DEF StaysHeld
<1>5. EncodingIs'
  BY <1>1 DEF RefInv, EncodingIs
<1>6. CommandedAware'
  <2>1. CASE cmd = Nothing
    <3>1. rangeAware' = rangeAware /\ cmd["temp"] = None
      BY <2>1, NothingValue, FieldNames DEF ResumeCommands, Queue
    <3> QED BY <1>2, <3>1 DEF RefInv, CommandedAware
  <2>2. CASE cmd # Nothing
    BY <2>2 DEF ResumeCommands, Queue, Await, CommandedAware
  <2> QED BY <2>1, <2>2
<1>7. Awaited' => Awaited /\ wanted'.temp = wanted.temp
  BY <1>1, <1>2 DEF Awaited, Asked
<1>8. (LostOrTaken /\ AskedBefore /\ AskedAgain)'
  BY <1>1, <1>7, LessIsAwaited
<1> QED BY <1>3, <1>4, <1>5, <1>6, <1>8 DEF RefInv

LEMMA CoordinatorKeepsRef == RefInv /\ Coordinator => RefInv'
<1> SUFFICES ASSUME RefInv, Coordinator PROVE RefInv'
  OBVIOUS
<1>1. CASE Observe \/ LookAround \/ GiveUp \/ FindHeld
  BY <1>1, WaitsKeepRef DEF Observe, LookAround, GiveUp, FindHeld, Waits, linkVars, mailVars,
     wantedVars, refusalVars, lineVars, historyVars
<1>2. CASE HoldCommands
  <2>1. /\ commandsHeld' = TRUE
        /\ UNCHANGED <<staged, wanted, rangeAware, cmdHere, cmdEncoding, encoding, baselined,
                       unconfirmed, sentFlags, wallActed, unit, tempAtSend, lostInARow, rep>>
    BY <1>2 DEF HoldCommands, linkVars, wantedVars, refusalVars, lineVars, historyVars
  <2>2. (OneSetpoint /\ KnownEncoding /\ EncodingIs /\ CommandedAware)'
    BY <2>1 DEF RefInv, OneSetpoint, KnownEncoding, EncodingIs, CommandedAware
  <2>3. (LostOrTaken /\ AskedBefore /\ AskedAgain)'
    BY <2>1, LessIsAwaited DEF Awaited, Asked
  <2> QED BY <2>2, <2>3 DEF RefInv
<1>3. CASE (\E input \in Inputs : Submit(input)) \/ StorageFailure \/ ResumeHeld
  BY <1>3, ResumeKeepsRef DEF Submit, StorageFailure, ResumeHeld
<1>4. ASSUME NEW target \in AutoTargets, QueueAutoTarget(target) PROVE RefInv'
  <2> DEFINE cmd == [Nothing EXCEPT !.temp = target]
  <2>1. target # None
    BY ValuesAssumption, InputsAssumption
  <2>2. cmd["temp"] = target /\ cmd # Nothing
    BY <2>1, NothingValue, FieldNames DEF Nothing
  <2>3. /\ staged' = Update(staged, cmd)
        /\ wanted' = Update(Without(wanted, {}), cmd)
        /\ sentFlags' = (sentFlags \ {}) \ Given(cmd)
        /\ rangeAware' = TRUE /\ cmdEncoding' = encoding /\ encoding # "unknown"
        /\ UNCHANGED <<encoding, baselined, rep, unconfirmed, wallActed, unit, tempAtSend,
                       lostInARow>>
    BY <1>4, <2>2 DEF QueueAutoTarget, Queue, Kept, Await, linkVars, refusalVars, lineVars
  <2> HIDE DEF cmd
  <2>4. staged'["temp"] = target /\ wanted'["temp"] = target /\ "temp" \notin sentFlags'
    BY <2>1, <2>2, <2>3, UpdateValue, GivenValue, FieldNames
  <2>5. (OneSetpoint /\ KnownEncoding /\ EncodingIs /\ CommandedAware)'
    BY <2>3, <2>4 DEF RefInv, OneSetpoint, KnownEncoding, EncodingIs, CommandedAware
  <2>6. ~Awaited'
    BY <2>4 DEF Awaited
  <2>7. (LostOrTaken /\ AskedBefore /\ AskedAgain)'
    BY <2>3, <2>6, LessIsAwaited
  <2> QED BY <2>5, <2>7 DEF RefInv
<1> QED BY <1>1, <1>2, <1>3, <1>4 DEF Coordinator

\* A SET that carries the setpoint puts it into the unit or is lost, and one that
\* is lost finds the unit where it was reported; another leaves the setpoint alone.
LEMMA TransmitKeepsRef ==
  ASSUME LineAssumption, TypesInv, MailInv, OwnInv, RefInv, TransmitSet
  PROVE  RefInv'
<1> DEFINE onWire == IF staged.temp = None THEN staged
                     ELSE [staged EXCEPT !.temp = Quantize(staged.temp, encoding)]
<1>1. /\ staged' = Nothing /\ sentFlags' = sentFlags \cup Given(staged)
      /\ tempAtSend' = IF staged.temp # None THEN rep.temp ELSE tempAtSend
      /\ exchanged /\ ~Foreign /\ ~commandsHeld
      /\ UNCHANGED <<rep, wanted, encoding, baselined, commandsHeld, rangeAware, cmdHere,
                     cmdEncoding, unconfirmed, wallActed>>
  BY DEF TransmitSet, LineAssumption, linkVars, refusalVars
<1>2. \/ /\ unit' \in UnitAnswers(onWire)
         /\ lostInARow' = IF unit'.temp # unit.temp THEN 0 ELSE lostInARow
      \/ /\ LosesSets /\ unit' = unit
         /\ lostInARow' = IF staged.temp # None /\ lostInARow < 2
                          THEN lostInARow + 1 ELSE lostInARow
  BY DEF TransmitSet
<1>3. /\ staged \in Batch /\ wanted \in Batch /\ unit \in Settings /\ lostInARow \in 0 .. 2
      /\ staged = [f \in Fields |-> staged[f]] /\ staged["temp"] \in Temps \cup {None}
      /\ wanted["temp"] \in Temps \cup {None} /\ encoding \in LineEncodings
  BY BatchValue DEF TypesInv, MailTypes
<1>4. "temp" \in Fields /\ "temp" \in OwnedFields /\ None \notin Declined
  BY ValuesAssumption DEF Fields, OwnedFields
<1> HIDE DEF onWire
<1>5. Asked' = Asked /\ staged'["temp"] = None
  BY <1>1, <1>4, NothingValue DEF Asked
<1>6. (OneSetpoint /\ KnownEncoding /\ EncodingIs /\ CommandedAware)'
  BY <1>1, <1>5 DEF RefInv, OneSetpoint, KnownEncoding, EncodingIs, CommandedAware
<1>7. CASE staged["temp"] = None
  <2>1. Awaited' => Awaited /\ wanted'.temp = wanted.temp /\ tempAtSend' = tempAtSend
    BY <1>1, <1>4, <1>5, <1>7, GivenValue DEF Awaited
  <2>2. unit'.temp = unit.temp
    <3>1. onWire["temp"] = None
      BY <1>7 DEF onWire
    <3>2. CASE unit' \in UnitAnswers(onWire)
      <4>1. unit'["temp"] = unit["temp"]
        BY <1>3, <1>4, <3>1, <3>2, AnswersKeep
      <4> QED BY <4>1
    <3> QED BY <1>2, <3>2
  <2>3. lostInARow' = lostInARow
    BY <1>2, <1>7, <2>2
  <2>4. (LostOrTaken /\ AskedBefore /\ AskedAgain)'
    BY <1>1, <2>1, <2>2, <2>3, LessIsAwaited
  <2> QED BY <1>6, <2>4 DEF RefInv
<1>8. CASE staged["temp"] # None
  <2>1. encoding = UnitEncoding /\ baselined
    <3>1. cmdHere /\ cmdEncoding = encoding
      BY <1>1, <1>8 DEF Foreign, MailInv, SetpointIsGuarded
    <3>2. encoding # "unknown"
      BY <1>1, <1>8, <3>1 DEF RefInv, KnownEncoding
    <3> QED BY <3>2 DEF RefInv, EncodingIs
  <2>2. ~Faithful /\ ~wallActed => unit.temp = rep.temp
    <3> SUFFICES ASSUME ~Faithful, ~wallActed PROVE unit["temp"] = rep["temp"]
      OBVIOUS
    <3>1. ~Evidence("temp")
      BY <1>1 DEF Evidence
    <3> QED BY <1>4, <2>1, <3>1 DEF OwnInv, OwnDoing
  <2>3. onWire["temp"] = Quantize(staged.temp, UnitEncoding)
        /\ onWire["temp"] \in Temps /\ onWire["temp"] # None
    <3>1. Quantize(staged.temp, UnitEncoding) \in Temps
      BY <1>3, <1>8, <2>1, QuantizeType
    <3>2. onWire["temp"] = Quantize(staged.temp, UnitEncoding)
      BY <1>3, <1>4, <1>8, <2>1 DEF onWire
    <3> QED BY <3>1, <3>2, ValuesAssumption
  <2>4. Awaited' => onWire["temp"] = Asked /\ Asked \notin Declined /\ ~wallActed
    <3> SUFFICES ASSUME Awaited' PROVE onWire["temp"] = Asked
      BY <1>1, <1>5 DEF Awaited
    <3>1. wanted["temp"] = staged["temp"]
      BY <1>1, <1>8 DEF Awaited, RefInv, OneSetpoint
    <3> QED BY <2>3, <3>1 DEF Asked
  <2>5. Awaited' /\ unit' \in UnitAnswers(onWire) => unit'.temp = Asked
    <3> SUFFICES ASSUME Awaited', unit' \in UnitAnswers(onWire) PROVE unit'["temp"] = Asked
      OBVIOUS
    <3>1. onWire.temp \notin Declined
      BY <2>4
    <3>2. unit'["temp"] = onWire["temp"]
      BY <1>3, <1>4, <2>3, <3>1, AnswersKeep
    <3> QED BY <2>4, <3>2
  <2>6. LosesSets => ~Faithful
    BY DEF Faithful
  <2>7. LostOrTaken'
    <3> SUFFICES ASSUME Awaited', unit'.temp # Asked
                 PROVE  LosesSets /\ lostInARow' >= 1 /\ unit'.temp = tempAtSend'
      BY <1>5 DEF LostOrTaken
    <3>1. LosesSets /\ unit' = unit
          /\ lostInARow' = IF lostInARow < 2 THEN lostInARow + 1 ELSE lostInARow
      BY <1>2, <1>8, <2>5
    <3>2. lostInARow' >= 1
      BY <1>3, <3>1
    <3>3. unit.temp = rep.temp /\ tempAtSend' = rep.temp
      BY <1>1, <1>8, <2>2, <2>4, <2>6, <3>1
    <3> QED BY <3>1, <3>2, <3>3
  <2>8. AskedBefore'
    <3> SUFFICES ASSUME unconfirmed # None, ~wallActed, unconfirmed \notin Declined,
                        unit'.temp = rep.temp
                 PROVE  ~Faithful /\ lostInARow' >= 1
      BY <1>1, <1>3 DEF AskedBefore, Faithful, RefInv
    <3>1. ~Faithful /\ (unit.temp = rep.temp => lostInARow >= 1)
      BY DEF RefInv, AskedBefore
    <3>2. unit.temp = rep.temp /\ lostInARow >= 1
      BY <2>2, <3>1
    <3>3. lostInARow' >= lostInARow
      BY <1>2, <1>3, <3>2
    <3> QED BY <1>2, <1>3, <3>1, <3>2, <3>3
  <2>9. AskedAgain'
    <3> SUFFICES ASSUME unconfirmed # None, Awaited', unconfirmed = Asked,
                        unit'.temp = rep.temp, unit'.temp # Asked
                 PROVE  lostInARow' >= 2
      BY <1>1, <1>5 DEF AskedAgain
    <3>1. unit' = unit
          /\ lostInARow' = IF lostInARow < 2 THEN lostInARow + 1 ELSE lostInARow
      BY <1>2, <1>8, <2>5
    <3>2. lostInARow >= 1
      BY <2>4, <3>1 DEF RefInv, AskedBefore
    <3> QED BY <1>3, <3>1, <3>2
  <2> QED BY <1>6, <2>7, <2>8, <2>9 DEF RefInv
<1> QED BY <1>7, <1>8

\* The answer that ends waiting for a setpoint: nothing the unit would take is
\* refused but after two losses.
LEMMA AnswerRefuses ==
  ASSUME LineAssumption, TypesInv, OwnInv, RefInv, ReceiveSettings, refused' # None,
         refused' # refused
  PROVE  refused'.temp \in Declined \/ wallActed \/ lostInARow >= 2
<1> DEFINE next == Head(replies)
           moved == next.temp # rep.temp \/ next.mode # rep.mode
           earlier == IF moved THEN None ELSE unconfirmed
<1>1. /\ Declines(next) /\ baselined /\ FinalAnswer(next, Asked, earlier)
      /\ refused' = [temp |-> Asked, answer |-> next.temp, mode |-> next.mode]
  BY DEF ReceiveSettings, Asked
<1>2. wallActed \/ next["temp"] = unit["temp"]
  BY DEF ReceiveSettings, OwnInv, AnswerIsCurrent, OwnedFields
<1> HIDE DEF next
<1>3. /\ wanted.temp # None /\ "temp" \in sentFlags /\ next.temp # Asked
  BY <1>1 DEF Declines, Confirmed, Asked
<1>4. SUFFICES ASSUME Asked \notin Declined, ~wallActed PROVE lostInARow >= 2
  BY <1>1
<1>5. Awaited
  BY <1>3, <1>4 DEF Awaited
<1>6. unit.temp = tempAtSend
  BY <1>2, <1>3, <1>4, <1>5 DEF RefInv, LostOrTaken
<1>7. Asked = earlier
  BY <1>1, <1>2, <1>4, <1>6 DEF FinalAnswer
<1>8. Asked # None
  <2>1. wanted.temp \in Temps /\ UnitEncoding \in LineEncodings
    BY <1>3, BatchValue, ValuesAssumption DEF TypesInv, MailTypes, LineEncodings
  <2>2. Quantize(wanted.temp, UnitEncoding) \in Temps
    BY <2>1, QuantizeType
  <2> QED BY <2>2, ValuesAssumption DEF Asked
<1>9. ~moved /\ unconfirmed = Asked
  BY <1>7, <1>8
<1>10. unit.temp = rep.temp
  BY <1>2, <1>4, <1>9
<1> QED BY <1>2, <1>3, <1>4, <1>5, <1>8, <1>9, <1>10 DEF RefInv, AskedAgain

\* An answer makes the view what the unit does; a refusal that is not final yet
\* is one loss.
LEMMA ReceiveKeepsRef ==
  ASSUME LineAssumption, TypesInv, OwnInv, RefInv, ReceiveSettings
  PROVE  RefInv'
<1> DEFINE next == Head(replies)
           moved == next.temp # rep.temp \/ next.mode # rep.mode
           earlier == IF moved THEN None ELSE unconfirmed
           settled == Confirmed(next) \cup (IF Declines(next) THEN {"temp"} ELSE {})
<1>1. /\ rep' = next /\ encoding' = UnitEncoding /\ baselined' = TRUE
      /\ wanted' = Without(wanted, settled)
      /\ \/ Declines(next) /\ unconfirmed' = None
         \/ Declines(next) /\ unconfirmed' = Asked
         \/ unconfirmed' \in {None, earlier}
      /\ UNCHANGED <<staged, rangeAware, cmdHere, cmdEncoding, commandsHeld, sentFlags,
                     wallActed, unit, tempAtSend, lostInARow>>
  BY DEF ReceiveSettings, Asked, mailVars, historyVars
<1>2. wallActed \/ next["temp"] = unit["temp"]
  BY DEF ReceiveSettings, OwnInv, AnswerIsCurrent, OwnedFields
<1>3. UnitEncoding # "unknown"
  BY ValuesAssumption
<1>4. Declines(next) => /\ wanted.temp # None /\ "temp" \in sentFlags
                        /\ next.temp # Asked /\ "temp" \in settled
  BY DEF Declines, Confirmed, Asked, settled
<1> HIDE DEF next, settled
<1>5. /\ wanted'["temp"] \in {None, wanted["temp"]}
      /\ "temp" \in settled => wanted'["temp"] = None
  BY <1>1, WithoutValue, FieldNames
<1>6. (OneSetpoint /\ KnownEncoding /\ EncodingIs /\ CommandedAware)'
  BY <1>1, <1>3, <1>5 DEF RefInv, OneSetpoint, KnownEncoding, EncodingIs, CommandedAware
<1>7. Awaited' => Awaited /\ Asked' = Asked /\ ~Declines(next)
  BY <1>1, <1>4, <1>5 DEF Awaited, Asked
<1>8. LostOrTaken'
  BY <1>1, <1>7 DEF RefInv, LostOrTaken
<1>9. earlier # None => earlier = unconfirmed /\ next.temp = rep.temp
  OBVIOUS
<1> HIDE DEF moved, earlier
<1>10. AskedBefore'
  <2> SUFFICES ASSUME unconfirmed' # None, ~wallActed, unconfirmed' \notin Declined
               PROVE  ~Faithful /\ lostInARow >= 1
    BY <1>1 DEF AskedBefore, Faithful
  <2>1. CASE unconfirmed' = earlier
    <3>1. unconfirmed = unconfirmed' /\ unit.temp = rep.temp
      BY <1>2, <1>9, <2>1
    <3> QED BY <3>1 DEF RefInv, AskedBefore
  <2>2. CASE Declines(next) /\ unconfirmed' = Asked
    <3>1. Awaited /\ unit.temp # Asked
      BY <1>2, <1>4, <2>2 DEF Awaited
    <3> QED BY <3>1 DEF RefInv, LostOrTaken, Faithful
  <2> QED BY <1>1, <2>1, <2>2
<1>11. AskedAgain'
  <2> SUFFICES ASSUME unconfirmed' # None, Awaited', unconfirmed' = Asked
               PROVE  unit.temp = Asked \/ lostInARow >= 2
    BY <1>1, <1>7 DEF AskedAgain
  <2>1. unconfirmed' = earlier /\ Awaited /\ ~wallActed
    BY <1>1, <1>7 DEF Awaited
  <2>2. unconfirmed = Asked /\ unconfirmed # None /\ unit.temp = rep.temp
    BY <1>2, <1>9, <2>1
  <2> QED BY <2>1, <2>2 DEF RefInv, AskedAgain
<1> QED BY <1>6, <1>8, <1>10, <1>11 DEF RefInv

\* A new connection asks for every refusal anew.
LEMMA ReconnectKeepsRef ==
  ASSUME RefInv, RestartHandshake \/ ConnectOk
  PROVE  RefInv'
<1>1. CASE RestartHandshake
  <2>1. /\ encoding' = "unknown" /\ unconfirmed' = None /\ cmdHere' = FALSE
        /\ UNCHANGED <<rep, rangeAware, unit, wallActed, lostInARow>>
    BY <1>1 DEF RestartHandshake, OtherConnection
  <2>2. CASE rangeAware
    <3>1. wanted' = Nothing /\ rangeAware' = TRUE
      BY <1>1, <2>1, <2>2 DEF RestartHandshake
    <3>2. wanted'["temp"] = None
      BY <3>1, NothingValue, FieldNames
    <3>3. ~Awaited'
      BY <3>2 DEF Awaited
    <3>4. (LostOrTaken /\ AskedBefore /\ AskedAgain)'
      BY <2>1, <3>3, LessIsAwaited
    <3> QED BY <2>1, <3>1, <3>2, <3>4 DEF RefInv, OneSetpoint, KnownEncoding, EncodingIs,
               CommandedAware
  <2>3. CASE ~rangeAware
    <3>1. UNCHANGED <<staged, wanted, sentFlags, tempAtSend>>
      BY <1>1, <2>3 DEF RestartHandshake, wantedVars
    <3>2. (LostOrTaken /\ AskedBefore /\ AskedAgain)'
      BY <2>1, <3>1, LessIsAwaited DEF Awaited, Asked
    <3> QED BY <2>1, <3>1, <3>2 DEF RefInv, OneSetpoint, KnownEncoding, EncodingIs,
               CommandedAware
  <2> QED BY <2>2, <2>3
<1>2. CASE ConnectOk
  <2>1. /\ encoding' = "unknown" /\ unconfirmed' = None /\ cmdHere' = FALSE
        /\ UNCHANGED <<rep, rangeAware, unit, wallActed, lostInARow, staged, wanted,
                       sentFlags, tempAtSend>>
    BY <1>2 DEF ConnectOk, OtherConnection, wantedVars
  <2>2. (LostOrTaken /\ AskedBefore /\ AskedAgain)'
    BY <2>1, LessIsAwaited DEF Awaited, Asked
  <2> QED BY <2>1, <2>2 DEF RefInv, OneSetpoint, KnownEncoding, EncodingIs, CommandedAware
<1> QED BY <1>1, <1>2

\* RefInv is inductive.
LEMMA RefStep ==
  LineAssumption /\ TypesInv /\ MailInv /\ OwnInv /\ RefInv /\ [Next]_vars => RefInv'
<1> SUFFICES ASSUME LineAssumption, TypesInv, MailInv, OwnInv, RefInv, [Next]_vars
             PROVE  RefInv'
  OBVIOUS
<1>1. CASE HoldForeign
  <2>1. /\ commandsHeld' = TRUE
        /\ UNCHANGED <<staged, wanted, rangeAware, cmdHere, cmdEncoding, encoding, baselined,
                       unconfirmed, sentFlags, wallActed, unit, tempAtSend, lostInARow, rep>>
    BY <1>1 DEF HoldForeign, linkVars, wantedVars, refusalVars, lineVars, historyVars
  <2>2. (LostOrTaken /\ AskedBefore /\ AskedAgain)'
    BY <2>1, LessIsAwaited DEF Awaited, Asked
  <2> QED BY <2>1, <2>2 DEF RefInv, OneSetpoint, KnownEncoding, EncodingIs, CommandedAware
<1>2. CASE PollSettings \/ LoseReply
  BY <1>2, WaitsKeepRef DEF PollSettings, LoseReply, Waits, linkVars, mailVars, wantedVars,
     refusalVars, historyVars
<1>3. CASE WallController
  <2>1. /\ wallActed' = (wallActed \/ \E f \in OwnedFields : unit'[f] # unit[f])
        /\ UNCHANGED <<staged, wanted, rangeAware, cmdHere, cmdEncoding, commandsHeld,
                       encoding, baselined, unconfirmed, sentFlags, tempAtSend, lostInARow,
                       rep>>
    BY <1>3 DEF WallController, linkVars, mailVars, wantedVars, refusalVars
  <2>2. wallActed' \/ unit'["temp"] = unit["temp"]
    BY <2>1 DEF OwnedFields
  <2>3. wallActed => wallActed'
    BY <2>1
  <2>4. Awaited' => Awaited /\ wanted'.temp = wanted.temp /\ tempAtSend' = tempAtSend
    BY <2>1, <2>3 DEF Awaited, Asked
  <2>5. (LostOrTaken /\ AskedBefore /\ AskedAgain)'
    BY <2>1, <2>2, <2>3, <2>4, LessIsAwaited
  <2> QED BY <2>1, <2>5 DEF RefInv, OneSetpoint, KnownEncoding, EncodingIs, CommandedAware
<1>4. CASE Tick
  BY <1>4, WaitsKeepRef DEF Tick, Waits, linkVars, mailVars, refusalVars, lineVars
<1>5. CASE UNCHANGED vars
  BY <1>5, WaitsKeepRef DEF vars, Waits, linkVars, mailVars, wantedVars, refusalVars,
     lineVars, historyVars
<1> QED BY <1>1, <1>2, <1>3, <1>4, <1>5, CoordinatorKeepsRef, TransmitKeepsRef,
           ReceiveKeepsRef, ReconnectKeepsRef DEF Next, Driver

\* Only an answer refuses.
LEMMA RefusalComesWithAnswer ==
  ASSUME [Next]_vars, refused' # None, refused' # refused
  PROVE  ReceiveSettings
<1>1. ASSUME NEW cmd, ResumeCommands(cmd) PROVE refused' = refused
  BY <1>1 DEF ResumeCommands, refusalVars
<1>2. CASE Coordinator
  BY <1>1, <1>2 DEF Coordinator, Observe, HoldCommands, GiveUp, Submit, StorageFailure,
     LookAround, FindHeld, ResumeHeld, QueueAutoTarget, refusalVars
<1>3. CASE HoldForeign \/ TransmitSet \/ PollSettings \/ RestartHandshake \/ ConnectOk
  BY <1>3 DEF HoldForeign, TransmitSet, PollSettings, RestartHandshake, ConnectOk,
     OtherConnection, refusalVars
<1>4. CASE LoseReply \/ WallController \/ Tick \/ UNCHANGED vars
  BY <1>4 DEF LoseReply, WallController, Tick, vars, refusalVars
<1> QED BY <1>2, <1>3, <1>4 DEF Next, Driver

\* A setpoint the unit would take is refused only after two setpoint SETs were
\* lost and none in between moved the unit, or after somebody else acted
\* (handleInfoResponse(), _unconfirmedTemp), however commands are replaced, held
\* and released and connections begin and end meanwhile.
THEOREM RefusalsAreEarned ==
  ASSUME LineAssumption
  PROVE  Spec => RefusalIsEarned
<1>1. Init => OwnInv
  BY DEF Init, OwnInv, AnswerIsCurrent, OwnDoing, OnlyOthersAreExternal
<1>2. Init => RefInv
  <2> SUFFICES ASSUME Init PROVE RefInv
    OBVIOUS
  <2>1. staged["temp"] = None /\ wanted["temp"] = None
    BY NothingValue, FieldNames DEF Init
  <2>2. unconfirmed = None /\ encoding = "unknown"
    BY DEF Init
  <2> QED BY <2>1, <2>2 DEF RefInv, OneSetpoint, KnownEncoding, EncodingIs, CommandedAware,
             LostOrTaken, AskedBefore, AskedAgain, Awaited
<1>3. TypesInv /\ OwnInv /\ [Next]_vars => OwnInv'
  BY OwnStep
<1>4. TypesInv /\ MailInv /\ OwnInv /\ RefInv /\ [Next]_vars => RefInv'
  BY RefStep
<1>5. TypesInv /\ OwnInv /\ RefInv /\ [Next]_vars => [RefusalEarned]_vars
  BY AnswerRefuses, RefusalComesWithAnswer DEF RefusalEarned
<1> QED BY <1>1, <1>2, <1>3, <1>4, <1>5, TypesHold, Invariance, PTL
        DEF Spec, RefusalIsEarned
=============================================================================
