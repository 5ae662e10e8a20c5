------------------------------ MODULE MCSettle ------------------------------
(***************************************************************************)
(* What may be asked for, and that it settles, in two instances that one   *)
(* run takes in turn: "mail" is Cn105Mailbox with lost SETs, lost replies  *)
(* and reconnects, "ranges" is SetpointRanges, by which targets are        *)
(* accepted before they are mailed.  The variables of the other stay as    *)
(* they are.                                                               *)
(***************************************************************************)
EXTENDS MCCn105Mailbox, SetpointRanges

VARIABLE part

MCManualRanges == {Span(31, 45)}
MCReportedRanges == {Span(33, 55)}
MCMasks == {{"cool", "dry"}, {"heat", "cool", "dry", "fan", "auto"}}
MCBand(heat, cool) == [heat |-> heat, cool |-> cool]
MCBands == {MCBand(30, 61), MCBand(44, 45), MCBand(62, 40)}

PartsInit ==
  /\ part \in {"mail", "ranges"}
  /\ Init /\ RangesInit
  /\ part = "mail" => preferences["auto"].selection = "automatic"

\* A step of either part, which leaves the other as it is.
OfMail(step) == part = "mail" /\ step /\ UNCHANGED <<part, rangeVars>>
OfRanges(step) == part = "ranges" /\ step /\ UNCHANGED <<part, vars>>

PartsNext == OfMail(Next) \/ OfRanges(RangesNext)

allVars == <<part, vars, rangeVars>>

\* DriverFairness and CoordinatorFairness
PartsSpec ==
  /\ PartsInit /\ [][PartsNext]_allVars
  /\ SF_allVars(OfMail(Tick))
  /\ WF_allVars(OfMail(PollSettings \/ (~connected /\ ConnectOk)))
  /\ SF_allVars(OfMail(ReceiveSettings))
  /\ SF_allVars(OfMail(LookAround))
  /\ WF_allVars(OfMail(FindHeld \/ ResumeHeld \/ GiveUp))
=============================================================================
