------------------------------ MODULE MCDevice ------------------------------
(***************************************************************************)
(* What comes back after a restart, in two instances that one run takes in *)
(* turn: "image" is Firmware, what the device boots, and "heads" is        *)
(* DialFanout, what its dials show.  The variables of the other stay as    *)
(* they are.                                                               *)
(***************************************************************************)
EXTENDS Firmware, DialFanout

VARIABLE part

PartsInit ==
  /\ part \in {"image", "heads"}
  /\ FwInit /\ FanInit
  /\ part = "image" => \A d \in Viewers : ~viewer[d].awake /\ viewer[d].copy = Unset
  /\ part = "heads" => flash[0] = "good"

\* A step of either part, which leaves the other as it is.
OfImage(step) == part = "image" /\ step /\ UNCHANGED <<part, fanVars>>
OfHeads(step) == part = "heads" /\ step /\ UNCHANGED <<part, fwVars>>

PartsNext == OfImage(FwNext) \/ OfHeads(FanNext)

allVars == <<part, fwVars, fanVars>>

\* The fairness of each part; there is one dial.
PartsSpec ==
  /\ PartsInit /\ [][PartsNext]_allVars
  /\ WF_allVars(\/ OfImage(Start \/ CountBoot \/ RecordBoot \/ NetworkReady)
                \/ OfHeads(\E lost \in SUBSET Viewers : CoreLoop(lost)))
  /\ WF_allVars(OfImage(Validate) \/ OfHeads(Compare \/ Raise \/ Store))
  /\ WF_allVars(OfImage(EarlyCrash) \/ OfHeads(\E d \in Viewers : Rest(d)))
  /\ WF_allVars(OfImage(Upload) \/ OfHeads(\E d \in Viewers : ProbeLink(d)))

\* It comes to rest in an image that works, or in safe mode.
DeviceComesUp == part = "image" => ComesUp

\* Its dials come to show what it says.
DialsFollow == part = "heads" => HeadsConverge
=============================================================================
