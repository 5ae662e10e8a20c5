----------------------------- MODULE NetworkStore -----------------------------
(***************************************************************************)
(* What trial connections promise about the stored network: it is replaced *)
(* only by credentials that were joined, and by nobody else's.  A write    *)
(* may be cut short, which leaves one network's name with another's        *)
(* password.                                                               *)
(***************************************************************************)
CONSTANTS
  Nets,        \* credentials
  None,
  Mixed,       \* what an interrupted write leaves
  MayMistake   \* whether a trial may take another network's join for its own

VARIABLES
  kept,        \* in flash
  tried,       \* on trial, or None
  proven       \* whether a join is credited to the trial

vars == <<kept, tried, proven>>

Init == kept \in Nets \union {None} /\ tried = None /\ proven = FALSE

\* A new trial replaces the one before.
Try(net) ==
  /\ tried' = net
  /\ proven' \in {FALSE, MayMistake}
  /\ UNCHANGED kept

Join ==
  /\ tried # None
  /\ proven' = TRUE
  /\ UNCHANGED <<kept, tried>>

Keep ==
  /\ proven
  /\ kept' = tried
  /\ tried' = None /\ proven' = FALSE

KeepFails ==
  /\ proven
  /\ kept' \in {kept, Mixed, tried}
  /\ UNCHANGED <<tried, proven>>

\* The deadline, the same network again, or a restart.
GiveUp == tried' = None /\ proven' = FALSE /\ UNCHANGED kept

\* The user erases the credentials.
Forget == kept' = None /\ tried' = None /\ proven' = FALSE

Next == (\E net \in Nets : Try(net)) \/ Join \/ Keep \/ KeepFails \/ GiveUp \/ Forget

Spec == Init /\ [][Next]_vars
=============================================================================
