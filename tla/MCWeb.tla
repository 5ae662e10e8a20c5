------------------------------- MODULE MCWeb -------------------------------
(***************************************************************************)
(* Add Sensor, from the page to the radio, in two instances that one run   *)
(* takes in turn: "web" is WebDiscovery with the transport below it,       *)
(* "radio" is BleScan.  The variables of the other stay as they are.       *)
(***************************************************************************)
EXTENDS WebDiscovery

CONSTANT MaxArrivals   \* bound: connections and commands together

VARIABLES part, target, radio, radioSession, faults, toggles

Radio == INSTANCE BleScan WITH
  session <- radioSession, MaxScans <- 2, MaxFaults <- 3, MaxToggles <- 3

radioVars == <<target, radio, radioSession, faults, toggles>>

PartsInit ==
  /\ part \in {"web", "radio"}
  /\ Init /\ Radio!Init
  /\ part = "web" => ~target /\ ~radio.on

WebNext == Next /\ asks' + opened' <= MaxArrivals

\* A step of either part, which leaves the other as it is.
OfWeb(step) == part = "web" /\ step /\ UNCHANGED <<part, radioVars>>
OfRadio(step) == part = "radio" /\ step /\ UNCHANGED <<part, vars>>

PartsNext == OfWeb(WebNext) \/ OfRadio(Radio!Next)

allVars == <<part, vars, radioVars>>

\* The FairSpec of each part.  SF is WF for the radio: its bounds let nothing
\* come and go for ever.
PartsSpec ==
  /\ PartsInit /\ [][PartsNext]_allVars
  /\ WF_allVars(OfWeb(Transport(Scheduler)) \/ OfRadio(Radio!ScanLoop(TRUE)))
  /\ WF_allVars(OfWeb(Transport(Httpd)) \/ OfRadio(Radio!HostSync))
  /\ SF_allVars(OfWeb(Transport(QueueWork /\ jobs' > 0)) \/ OfRadio(Radio!PollComplete(TRUE, TRUE)))
  /\ SF_allVars(OfWeb(WebLoop(TRUE, FALSE) /\ ~web'.pushPending))

\* The radio follows what is asked of it.
RadioListens == part = "radio" => Radio!RadioListens
=============================================================================
