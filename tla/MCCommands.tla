----------------------------- MODULE MCCommands -----------------------------
(***************************************************************************)
(* Commands on their way to the unit, in four instances that one run takes *)
(* in turn.  "steer" is Cn105Mailbox under the constants of the cfg: two   *)
(* targets, one of which the unit declines, on a line that loses SETs.     *)
(* "auto" is Cn105Mailbox with modes in and out of Auto on the same line,  *)
(* "mail" with setpoints and power and a reconnect at every step.  "owner" *)
(* is AutoOwnership.  The variables of the others stay as they are.        *)
(***************************************************************************)
EXTENDS MCCn105Mailbox, AutoOwnership

VARIABLE part

Auto == INSTANCE Cn105Mailbox WITH Inputs <- MCAutoInputs, AutoTargets <- {42}

Mail == INSTANCE Cn105Mailbox WITH
  Compatibility <- TRUE, Declined <- {}, Inputs <- MCMailInputs, AutoTargets <- {},
  MayReconnect <- TRUE, LosesSets <- FALSE

MCInitialUnits == {[auto |-> FALSE, set |-> 46]}
MCUserBands == {[heat |-> 43, cool |-> 47]}
MCAutoRange == Span(42, 50)

PartsInit ==
  /\ part \in {"mail", "auto", "steer", "owner"}
  /\ Init /\ OwnInit
  /\ part # "owner" => ~stored.byUnit /\ ~stored.single

PartsNext ==
  \/ part = "mail" /\ Mail!Next /\ UNCHANGED <<part, ownVars>>
  \/ part = "auto" /\ Auto!Next /\ UNCHANGED <<part, ownVars>>
  \/ part = "steer" /\ Next /\ UNCHANGED <<part, ownVars>>
  \/ part = "owner" /\ OwnNext /\ UNCHANGED <<part, vars>>

PartsSpec == PartsInit /\ [][PartsNext]_<<part, vars, ownVars>>
=============================================================================
