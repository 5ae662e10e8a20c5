-------------------------- MODULE Cn105Link_proofs --------------------------
(***************************************************************************)
(* Theorems about Cn105Link, for every poll sequence, every timing and     *)
(* every set of producers that its assumptions admit.                      *)
(*                                                                         *)
(* The invariant LinkInv strengthens the type invariant by what the code   *)
(* relies on without saying so: the phase of a running cycle is a real     *)
(* one, nothing is written while a reply may still resume the cycle, and a *)
(* write is followed by the quiet period unless the unit greets anew.      *)
(***************************************************************************)
EXTENDS Cn105Link, Integers, TLAPS

\* A running cycle waits for the answer to one of the phases.
PhaseInRange == cycleRunning => pollPhase <= NPhases

\* Nothing was written after the request whose reply may still move the cycle.
CycleUndisturbed == cycleRunning \/ replyDeferred => ~wroteSinceRequest

\* After a write the quiet period is pending or over, or a handshake ended it.
QuietPending == wroteSinceRequest => writeDeferred \/ greeted \/ writeAge >= DeferDelay

LinkInv == TypeOK /\ PhaseInRange /\ CycleUndisturbed /\ QuietPending

-----------------------------------------------------------------------------
(* The operators *)

\* The constants as the steps use them.
LEMMA Constants ==
  /\ ReplyDeadline \in Nat \ {0} /\ DeferDelay \in Nat \ {0}
  /\ UpdateInterval \in Nat \ {0} /\ ConfirmInterval \in Nat \ {0}
  /\ ConnectInterval \in Nat \ {0} /\ MaxRetries \in Nat \ {0}
  /\ CommsTimeout \in Nat \ {0} /\ IdentifyTimeout \in Nat \ {0}
  /\ MaxWire \in Nat \ {0}
BY TimingAssumption

\* loop() runs more than once in a poll period.
LEMMA PollIsSlow == UpdateInterval > 1
BY TimingAssumption

\* There is a first phase, and every phase is asked for with a packet of its own.
LEMMA PhaseTypes ==
  /\ NPhases \in Nat \ {0}
  /\ \A i \in 1 .. NPhases : Phases[i] \in Packets
BY PhasesAssumption DEF NPhases, Packets, InfoTypes

\* An age stays within its cap.
LEMMA AtMostType ==
  ASSUME NEW n \in Nat, NEW cap \in Nat
  PROVE  AtMost(n, cap) \in 0 .. cap
BY DEF AtMost

LEMMA AgedType ==
  ASSUME NEW n \in Nat, NEW cap \in Nat, NEW isRead \in BOOLEAN
  PROVE  Aged(n, cap, isRead) \in 0 .. cap
BY AtMostType DEF Aged

\* What the unit answers is a packet.
LEMMA AnsweredType ==
  ASSUME NEW w \in Seq(Packets), NEW p \in Packets
  PROVE  Answered(w, p) \in Seq(Packets)
BY DEF Answered

LEMMA TailType ==
  ASSUME NEW w \in Seq(Packets), w # <<>>
  PROVE  Tail(w) \in Seq(Packets)
OBVIOUS

\* A cycle that goes on goes on with a phase, one that ends with none.
LEMMA NextPhaseType ==
  ASSUME NEW skipError, TypeOK, pollPhase <= NPhases
  PROVE  NextPhase(skipError) \in 1 .. NPhases + 1
BY PhaseTypes DEF NextPhase, TypeOK

-----------------------------------------------------------------------------
(* The invariant holds initially, and every step keeps it *)

LEMMA InitInv == Init => LinkInv
<1> SUFFICES ASSUME Init PROVE LinkInv
  OBVIOUS
<1>1. TypeOK
  <2>1. wire \in Seq(Packets)
    BY DEF Init
  <2>2. attemptAge \in 0 .. 3 * ConnectInterval
    BY Constants DEF Init
  <2>3. 0 \in 0 .. ResponseCap /\ 0 \in 0 .. WaitCap
    BY Constants DEF ResponseCap, WaitCap
  <2>4. {connected, cycleRunning, replyDeferred, writeDeferred, confirmSettings,
         baselined, errorDisabled, sendRequested, commandsHeld, rangeAware,
         remoteWritten, pendingBaud, passed, wroteSinceRequest, greeted}
        \subseteq BOOLEAN
    BY DEF Init
  <2>5. /\ retries \in 0 .. MaxRetries /\ pollPhase \in 1 .. NPhases + 1
        /\ requestAge \in 0 .. ReplyDeadline /\ cycleStartAge \in 0 .. ReplyDeadline
        /\ cycleEndAge \in 0 .. UpdateInterval /\ timeoutAge \in 0 .. DeferDelay
        /\ writeAge \in 0 .. DeferDelay /\ confirmAge \in 0 .. ConfirmInterval
        /\ discoveryAge \in 0 .. IdentifyTimeout
    BY Constants, PhaseTypes DEF Init
  <2>6. /\ discovery \in {"idle", "waiting", "done"} /\ errorFailures \in 0 .. 3
        /\ bootClear \in {"idle", "armed", "polling", "done"}
        /\ {remote, lastAsked, lastSent} \subseteq {"none", "feed", "clear"}
    BY DEF Init
  <2>7. responseAge \in 0 .. ResponseCap /\ waitAge \in 0 .. WaitCap
    BY <2>3 DEF Init
  <2> QED BY <2>1, <2>2, <2>4, <2>5, <2>6, <2>7 DEF TypeOK
<1>2. PhaseInRange /\ CycleUndisturbed /\ QuietPending
  BY DEF Init, PhaseInRange, CycleUndisturbed, QuietPending
<1> QED BY <1>1, <1>2 DEF LinkInv

\* The producers touch the mailbox only.
LEMMA ProducersKeepInv ==
  ASSUME LinkInv,
         ResumeCommands \/ QueueAutoTarget \/ HoldCommands \/ SetBaudRate
           \/ \E kind \in {"feed", "clear"} : AskRemote(kind)
  PROVE  LinkInv'
<1> USE DEF LinkInv
<1>1. CASE ResumeCommands
  <2>1. TypeOK'
    BY <1>1, Constants DEF ResumeCommands, TypeOK, connVars, cycleVars, writeVars,
       optVars, remoteVars, ResponseCap, WaitCap
  <2>2. PhaseInRange' /\ CycleUndisturbed' /\ QuietPending'
    BY <1>1 DEF ResumeCommands, PhaseInRange, CycleUndisturbed, QuietPending,
       cycleVars, writeVars
  <2> QED BY <2>1, <2>2
<1>2. CASE QueueAutoTarget
  <2>1. TypeOK'
    BY <1>2 DEF QueueAutoTarget, TypeOK, connVars, cycleVars, writeVars, optVars,
       remoteVars, historyVars, ResponseCap, WaitCap
  <2>2. PhaseInRange' /\ CycleUndisturbed' /\ QuietPending'
    BY <1>2 DEF QueueAutoTarget, PhaseInRange, CycleUndisturbed, QuietPending,
       cycleVars, writeVars, historyVars
  <2> QED BY <2>1, <2>2
<1>3. CASE HoldCommands
  <2>1. TypeOK'
    BY <1>3, Constants DEF HoldCommands, TypeOK, connVars, cycleVars, writeVars,
       optVars, remoteVars, ResponseCap, WaitCap
  <2>2. PhaseInRange' /\ CycleUndisturbed' /\ QuietPending'
    BY <1>3 DEF HoldCommands, PhaseInRange, CycleUndisturbed, QuietPending,
       cycleVars, writeVars
  <2> QED BY <2>1, <2>2
<1>4. CASE SetBaudRate
  <2>1. TypeOK'
    BY <1>4 DEF SetBaudRate, TypeOK, connVars, cycleVars, writeVars, optVars,
       commandVars, remoteVars, historyVars, ResponseCap, WaitCap
  <2>2. PhaseInRange' /\ CycleUndisturbed' /\ QuietPending'
    BY <1>4 DEF SetBaudRate, PhaseInRange, CycleUndisturbed, QuietPending,
       cycleVars, writeVars, historyVars
  <2> QED BY <2>1, <2>2
<1>5. ASSUME NEW kind \in {"feed", "clear"}, AskRemote(kind) PROVE LinkInv'
  <2>1. TypeOK'
    BY <1>5 DEF AskRemote, TypeOK, connVars, cycleVars, writeVars, optVars,
       commandVars, historyVars, ResponseCap, WaitCap
  <2>2. PhaseInRange' /\ CycleUndisturbed' /\ QuietPending'
    BY <1>5 DEF AskRemote, PhaseInRange, CycleUndisturbed, QuietPending,
       cycleVars, writeVars, historyVars
  <2> QED BY <2>1, <2>2
<1> QED BY <1>1, <1>2, <1>3, <1>4, <1>5

\* Losing a reply only shortens the line.
LEMMA LoseKeepsInv == LinkInv /\ Lose => LinkInv'
<1> SUFFICES ASSUME LinkInv, Lose PROVE LinkInv'
  OBVIOUS
<1> USE DEF LinkInv
<1>1. wire' \in Seq(Packets)
  BY TailType DEF Lose, TypeOK
<1>2. TypeOK'
  BY <1>1 DEF Lose, TypeOK, connVars, cycleVars, writeVars, optVars, commandVars,
     remoteVars, historyVars, ResponseCap, WaitCap
<1>3. PhaseInRange' /\ CycleUndisturbed' /\ QuietPending'
  BY DEF Lose, PhaseInRange, CycleUndisturbed, QuietPending, cycleVars, writeVars,
     historyVars
<1> QED BY <1>2, <1>3

\* A new line rate abandons the cycle and the reply that was waited for.
LEMMA ApplyBaudRateKeepsInv == LinkInv /\ ApplyBaudRate => LinkInv'
<1> SUFFICES ASSUME LinkInv, ApplyBaudRate PROVE LinkInv'
  OBVIOUS
<1> USE DEF LinkInv
<1>1. wire' \in Seq(Packets) /\ requestAge' \in 0 .. ReplyDeadline
  BY Constants DEF ApplyBaudRate
<1>2. /\ retries' \in 0 .. MaxRetries /\ responseAge' \in 0 .. ResponseCap
      /\ waitAge' \in 0 .. WaitCap
  BY Constants DEF ApplyBaudRate, RestartHandshake, ResponseCap, WaitCap
<1>3. {sendRequested', commandsHeld'} \subseteq BOOLEAN
  BY DEF ApplyBaudRate, RestartHandshake, TypeOK
<1>4. TypeOK'
  BY <1>1, <1>2, <1>3 DEF ApplyBaudRate, RestartHandshake, TypeOK, remoteVars
<1>5. PhaseInRange' /\ CycleUndisturbed' /\ QuietPending'
  BY DEF ApplyBaudRate, RestartHandshake, PhaseInRange, CycleUndisturbed, QuietPending
<1> QED BY <1>4, <1>5

LEMMA KeepBaudRateKeepsInv == LinkInv /\ KeepBaudRate => LinkInv'
<1> SUFFICES ASSUME LinkInv, KeepBaudRate PROVE LinkInv'
  OBVIOUS
<1> USE DEF LinkInv, KeepBaudRate, connVars, cycleVars, writeVars, optVars, commandVars,
        remoteVars, historyVars
<1>1. TypeOK'
  BY DEF TypeOK, ResponseCap, WaitCap
<1>2. PhaseInRange' /\ CycleUndisturbed' /\ QuietPending'
  BY DEF PhaseInRange, CycleUndisturbed, QuietPending
<1> QED BY <1>1, <1>2

\* The handshake writes connect packets only.
LEMMA PassDisconnectedKeepsInv == LinkInv /\ PassDisconnected => LinkInv'
<1> SUFFICES ASSUME LinkInv, PassDisconnected PROVE LinkInv'
  OBVIOUS
<1> USE DEF LinkInv
<1>1. wire' \in Seq(Packets)
  <2>1. "connectOk" \in Packets
    BY DEF Packets
  <2> QED BY <2>1, AnsweredType DEF PassDisconnected, TypeOK
<1>2. retries' \in 0 .. MaxRetries /\ attemptAge' \in 0 .. 3 * ConnectInterval
  BY Constants DEF PassDisconnected, ConnectDue, TypeOK
<1>3. TypeOK'
  BY <1>1, <1>2 DEF PassDisconnected, TypeOK, cycleVars, writeVars, optVars,
     commandVars, remoteVars, historyVars, ResponseCap, WaitCap
<1>4. PhaseInRange' /\ CycleUndisturbed' /\ QuietPending'
  BY DEF PassDisconnected, PhaseInRange, CycleUndisturbed, QuietPending, cycleVars,
     writeVars, historyVars
<1> QED BY <1>3, <1>4

\* Booking an overdue request keeps its counters in range.
LEMMA BookOverdueType ==
  ASSUME TypeOK, BookOverdue
  PROVE  /\ errorFailures' \in 0 .. 3 /\ errorDisabled' \in BOOLEAN
         /\ timeoutAge' \in 0 .. DeferDelay /\ replyDeferred' \in BOOLEAN
<1>1. errorFailures' \in 0 .. 3
  <2>1. errorFailures \in 0 .. 3
    BY DEF TypeOK
  <2> QED BY <2>1 DEF BookOverdue, AtMost
<1>2. timeoutAge' \in 0 .. DeferDelay
  <2>1. timeoutAge \in 0 .. DeferDelay
    BY DEF TypeOK
  <2>2. timeoutAge' = 0 \/ timeoutAge' = timeoutAge
    BY DEF BookOverdue
  <2> QED BY <2>1, <2>2, Constants
<1>3. errorDisabled' \in BOOLEAN /\ replyDeferred' \in BOOLEAN
  BY ZenonT(30) DEF BookOverdue, TypeOK, ErrorPhaseFailed, Draining, TimedOut
<1> QED BY <1>1, <1>2, <1>3

\* A write happens outside a cycle and outside the drain, and starts the quiet
\* period.
LEMMA WriteKeepsParts ==
  ASSUME LinkInv, CanWrite, BookOverdue, Wrote, UNCHANGED pollPhase
  PROVE  /\ PhaseInRange' /\ CycleUndisturbed' /\ QuietPending'
         /\ wire' \in Seq(Packets) /\ writeDeferred' \in BOOLEAN
         /\ writeAge' \in 0 .. DeferDelay /\ cycleRunning' \in BOOLEAN
         /\ cycleEndAge' \in 0 .. UpdateInterval
         /\ wroteSinceRequest' \in BOOLEAN /\ greeted' \in BOOLEAN
<1>1. cycleRunning' = FALSE /\ replyDeferred' = FALSE
  BY DEF CanWrite, BookOverdue, Wrote
<1>2. PhaseInRange' /\ CycleUndisturbed' /\ QuietPending'
  BY <1>1 DEF Wrote, PhaseInRange, CycleUndisturbed, QuietPending
<1>3. wire' \in Seq(Packets)
  <2>1. "setAck" \in Packets
    BY DEF Packets
  <2> QED BY <2>1, AnsweredType DEF Wrote, LinkInv, TypeOK
<1>4. cycleEndAge' \in 0 .. UpdateInterval
  BY Constants DEF Wrote, EndAge, LinkInv, TypeOK
<1>5. writeAge' \in 0 .. DeferDelay
  BY Constants DEF Wrote
<1> QED BY <1>1, <1>2, <1>3, <1>4, <1>5 DEF Wrote

LEMMA TransmitSetKeepsInv == LinkInv /\ TransmitSet => LinkInv'
<1> SUFFICES ASSUME LinkInv, TransmitSet PROVE LinkInv'
  OBVIOUS
<1>1. CanWrite /\ BookOverdue /\ Wrote /\ UNCHANGED pollPhase
  BY DEF TransmitSet, SendNow
<1>2. TypeOK
  BY DEF LinkInv
<1>3. discovery' \in {"idle", "waiting", "done"}
  BY <1>2 DEF TransmitSet, DiscoveryNow, TypeOK
<1>4. confirmAge' \in 0 .. ConfirmInterval /\ waitAge' \in 0 .. WaitCap
  BY Constants DEF TransmitSet, WaitCap
<1>rest. /\ sendRequested' = FALSE /\ confirmSettings' = TRUE /\ passed' = TRUE
         /\ UNCHANGED <<connVars, pollPhase, requestAge, cycleStartAge, discoveryAge, baselined,
                        bootClear, commandsHeld, rangeAware, remoteVars, responseAge, pendingBaud>>
  BY DEF TransmitSet
<1>booked. /\ errorFailures' \in 0 .. 3 /\ errorDisabled' \in BOOLEAN
           /\ timeoutAge' \in 0 .. DeferDelay /\ replyDeferred' \in BOOLEAN
  BY <1>1, <1>2, BookOverdueType
<1>wrote. /\ wire' \in Seq(Packets) /\ writeDeferred' \in BOOLEAN
          /\ writeAge' \in 0 .. DeferDelay /\ cycleRunning' \in BOOLEAN
          /\ cycleEndAge' \in 0 .. UpdateInterval
          /\ wroteSinceRequest' \in BOOLEAN /\ greeted' \in BOOLEAN
  BY <1>1, WriteKeepsParts
<1>5. TypeOK'
  BY <1>2, <1>rest, <1>3, <1>4, <1>booked, <1>wrote DEF TypeOK, connVars, remoteVars, ResponseCap
<1> QED BY <1>1, <1>5, WriteKeepsParts DEF LinkInv

LEMMA TransmitRemoteKeepsInv == LinkInv /\ TransmitRemote => LinkInv'
<1> SUFFICES ASSUME LinkInv, TransmitRemote PROVE LinkInv'
  OBVIOUS
<1>1. CanWrite /\ BookOverdue /\ Wrote /\ UNCHANGED pollPhase
  BY DEF TransmitRemote
<1>2. TypeOK
  BY DEF LinkInv
<1>3. discovery' \in {"idle", "waiting", "done"}
  BY <1>2 DEF TransmitRemote, DiscoveryNow, TypeOK
<1>4. /\ lastSent' \in {"none", "feed", "clear"} /\ remote' \in {"none", "feed", "clear"}
      /\ bootClear' \in {"idle", "armed", "polling", "done"}
  BY <1>2 DEF TransmitRemote, RemoteNow, TypeOK
<1>5. TypeOK'
  BY <1>1, <1>2, <1>3, <1>4, BookOverdueType, WriteKeepsParts DEF TransmitRemote,
     TypeOK, connVars, commandVars, ResponseCap, WaitCap
<1> QED BY <1>1, <1>5, WriteKeepsParts DEF LinkInv

\* A pass that writes nothing may start a cycle, at phase 1 and after the quiet
\* period, or find the link dead.
LEMMA PassPollKeepsInv == LinkInv /\ PassPoll => LinkInv'
<1> SUFFICES ASSUME LinkInv, PassPoll PROVE LinkInv'
  OBVIOUS
<1>1. TypeOK
  BY DEF LinkInv
<1>2. wire' \in Seq(Packets)
  <2>1. "identify" \in Packets /\ Phases[1] \in Packets
    BY PhaseTypes DEF Packets
  <2> QED BY <1>1, <2>1, AnsweredType DEF PassPoll, TypeOK
<1>3. /\ errorFailures' \in 0 .. 3 /\ errorDisabled' \in BOOLEAN
      /\ timeoutAge' \in 0 .. DeferDelay
  <2>1. errorFailures' \in 0 .. 3
    BY <1>1 DEF PassPoll, TypeOK, AtMost
  <2>2. timeoutAge' \in 0 .. DeferDelay
    BY <1>1, Constants DEF PassPoll, TypeOK
  <2>3. errorDisabled' \in BOOLEAN
    BY ZenonT(30), <1>1 DEF PassPoll, TypeOK, ErrorPhaseFailed
  <2> QED BY <2>1, <2>2, <2>3
<1>4. /\ cycleEndAge' \in 0 .. UpdateInterval /\ pollPhase' \in 1 .. NPhases + 1
      /\ requestAge' \in 0 .. ReplyDeadline /\ cycleStartAge' \in 0 .. ReplyDeadline
      /\ confirmAge' \in 0 .. ConfirmInterval /\ discoveryAge' \in 0 .. IdentifyTimeout
  BY <1>1, Constants, PhaseTypes DEF PassPoll, TypeOK, EndAge
<1>5. /\ bootClear' \in {"idle", "armed", "polling", "done"}
      /\ remote' \in {"none", "feed", "clear"}
      /\ discovery' \in {"idle", "waiting", "done"}
  BY <1>1 DEF PassPoll, RestartHandshake, RemoteNow, DiscoveryNow, TypeOK
<1>6. /\ retries' \in 0 .. MaxRetries /\ responseAge' \in 0 .. ResponseCap
      /\ waitAge' \in 0 .. WaitCap
  <2>1. 0 \in 0 .. MaxRetries /\ 0 \in 0 .. ResponseCap /\ 0 \in 0 .. WaitCap
    BY Constants DEF ResponseCap, WaitCap
  <2>2. CASE CommsLost
    BY <2>1, <2>2 DEF PassPoll, RestartHandshake
  <2>3. CASE ~CommsLost
    BY <1>1, <2>3 DEF PassPoll, TypeOK
  <2> QED BY <2>2, <2>3
<1>7. {connected', cycleRunning', replyDeferred', writeDeferred', confirmSettings',
       baselined', sendRequested', commandsHeld', wroteSinceRequest', passed',
       greeted'} \subseteq BOOLEAN
  BY <1>1 DEF PassPoll, RestartHandshake, TypeOK, Running, Draining, StillDeferred,
     StartCycle, Idle, TimedOut, StartIdentify
<1>8. TypeOK'
  BY <1>1, <1>2, <1>3, <1>4, <1>5, <1>6, <1>7 DEF PassPoll, TypeOK
<1>9. PhaseInRange'
  <2>1. CASE StartCycle
    <3>1. pollPhase' = 1
      BY <2>1 DEF PassPoll
    <3> QED BY <3>1, PhaseTypes DEF PhaseInRange
  <2>2. CASE ~StartCycle
    <3>1. pollPhase' = pollPhase /\ (cycleRunning' => cycleRunning)
      BY <2>2 DEF PassPoll, RestartHandshake, Running
    <3> QED BY <3>1 DEF LinkInv, PhaseInRange
  <2> QED BY <2>1, <2>2
<1>10. CycleUndisturbed'
  <2>1. cycleRunning' \/ replyDeferred' => ~wroteSinceRequest'
    BY DEF PassPoll, RestartHandshake, LinkInv, CycleUndisturbed, Running, Draining,
       TimedOut
  <2> QED BY <2>1 DEF CycleUndisturbed
<1>11. QuietPending'
  BY DEF PassPoll, LinkInv, QuietPending, StillDeferred
<1> QED BY <1>8, <1>9, <1>10, <1>11 DEF LinkInv

LEMMA ReceiveConnectOkKeepsInv == LinkInv /\ ReceiveConnectOk => LinkInv'
<1> SUFFICES ASSUME LinkInv, ReceiveConnectOk PROVE LinkInv'
  OBVIOUS
<1> USE DEF LinkInv
<1>1. wire' \in Seq(Packets)
  BY TailType DEF ReceiveConnectOk, Arrives, TypeOK
<1>2. bootClear' \in {"idle", "armed", "polling", "done"}
  BY DEF ReceiveConnectOk, BootClearRearmed, TypeOK
<1>3. /\ retries' \in 0 .. MaxRetries /\ cycleEndAge' \in 0 .. UpdateInterval
      /\ responseAge' \in 0 .. ResponseCap
  BY Constants DEF ReceiveConnectOk, ResponseCap
<1>4. TypeOK'
  BY <1>1, <1>2, <1>3 DEF ReceiveConnectOk, TypeOK, commandVars, remoteVars, WaitCap
<1>5. PhaseInRange' /\ CycleUndisturbed' /\ QuietPending'
  BY DEF ReceiveConnectOk, PhaseInRange, CycleUndisturbed, QuietPending
<1> QED BY <1>4, <1>5

\* Acknowledgements and the identify answer leave the cycle alone.
LEMMA ReceiveAsidesKeepInv == LinkInv /\ (ReceiveSetAck \/ ReceiveIdentify) => LinkInv'
<1> SUFFICES ASSUME LinkInv, ReceiveSetAck \/ ReceiveIdentify PROVE LinkInv'
  OBVIOUS
<1> USE DEF LinkInv
<1>1. wire' \in Seq(Packets)
  BY TailType DEF ReceiveSetAck, ReceiveIdentify, Arrives, TypeOK
<1>2. CASE ReceiveSetAck
  <2>1. TypeOK'
    BY <1>1, <1>2, Constants DEF ReceiveSetAck, TypeOK, connVars, cycleVars,
       writeVars, optVars, commandVars, remoteVars, historyVars, ResponseCap, WaitCap
  <2>2. PhaseInRange' /\ CycleUndisturbed' /\ QuietPending'
    BY <1>2 DEF ReceiveSetAck, PhaseInRange, CycleUndisturbed, QuietPending,
       cycleVars, writeVars, historyVars
  <2> QED BY <2>1, <2>2
<1>3. CASE ReceiveIdentify
  <2>1. TypeOK'
    BY <1>1, <1>3 DEF ReceiveIdentify, TypeOK, connVars, cycleVars, writeVars,
       commandVars, remoteVars, historyVars, ResponseCap, WaitCap
  <2>2. PhaseInRange' /\ CycleUndisturbed' /\ QuietPending'
    BY <1>3 DEF ReceiveIdentify, PhaseInRange, CycleUndisturbed, QuietPending,
       cycleVars, writeVars, historyVars
  <2> QED BY <2>1, <2>2
<1> QED BY <1>2, <1>3

\* An info reply ends or advances the cycle only when it is expected, and then
\* nothing has been written since the request it answers.
LEMMA ReceiveInfoKeepsInv ==
  ASSUME LinkInv, NEW type \in InfoTypes, ReceiveInfo(type)
  PROVE  LinkInv'
<1>1. TypeOK
  BY DEF LinkInv
<1> DEFINE expected == AwaitingExpected(type) \/ LateExpected(type)
           next == NextPhase(errorDisabled')
<1>2. Tail(wire) \in Seq(Packets)
  BY <1>1, TailType DEF ReceiveInfo, Arrives, TypeOK
<1>3. responseAge' \in 0 .. ResponseCap
  BY Constants DEF ReceiveInfo, ResponseCap
<1>4. /\ baselined' \in BOOLEAN /\ confirmSettings' \in BOOLEAN
      /\ errorDisabled' \in BOOLEAN /\ errorFailures' \in 0 .. 3
  <2>1. errorFailures' \in 0 .. 3
    BY <1>1 DEF ReceiveInfo, TypeOK
  <2>2. baselined' \in BOOLEAN /\ confirmSettings' \in BOOLEAN
    BY <1>1 DEF ReceiveInfo, TypeOK
  <2>3. errorDisabled' \in BOOLEAN
    BY <1>1 DEF ReceiveInfo, TypeOK
  <2> QED BY <2>1, <2>2, <2>3
<1>5. expected => pollPhase <= NPhases
  BY DEF AwaitingExpected, LateExpected, LinkInv, PhaseInRange
<1>6. expected => next \in 1 .. NPhases + 1
  BY <1>1, <1>5, NextPhaseType
<1>7. expected => ~wroteSinceRequest
  BY DEF AwaitingExpected, LateExpected, LinkInv, CycleUndisturbed
<1>rest. UNCHANGED <<connVars, cycleStartAge, timeoutAge, writeDeferred, writeAge,
                     confirmAge, discovery, discoveryAge, bootClear, commandVars,
                     remoteVars, waitAge, pendingBaud, passed>>
  BY DEF ReceiveInfo
<1>8. CASE expected /\ next <= NPhases /\ ~SlowCycle
  <2>1. /\ cycleRunning' = TRUE /\ pollPhase' = next /\ requestAge' = 0
        /\ wire' = Answered(Tail(wire), Phases[next]) /\ replyDeferred' = FALSE
        /\ wroteSinceRequest' = FALSE /\ greeted' = FALSE
        /\ cycleEndAge' = cycleEndAge
    BY <1>8 DEF ReceiveInfo
  <2>2. wire' \in Seq(Packets)
    <3>1. next \in 1 .. NPhases
      BY <1>6, <1>8, PhaseTypes
    <3>2. Phases[next] \in Packets
      BY <3>1, PhaseTypes
    <3> HIDE DEF next
    <3> QED BY <1>2, <2>1, <3>2, AnsweredType
  <2>3. pollPhase' \in 1 .. NPhases + 1 /\ requestAge' \in 0 .. ReplyDeadline
    BY <1>6, <1>8, <2>1, Constants
  <2>4. TypeOK'
    BY <1>1, <1>rest, <1>3, <1>4, <2>1, <2>2, <2>3 DEF TypeOK, connVars,
       commandVars, remoteVars, WaitCap
  <2>5. PhaseInRange' /\ CycleUndisturbed' /\ QuietPending'
    BY <1>8, <2>1 DEF PhaseInRange, CycleUndisturbed, QuietPending
  <2> QED BY <2>4, <2>5 DEF LinkInv
<1>9. CASE expected /\ ~(next <= NPhases /\ ~SlowCycle)
  <2>1. /\ cycleRunning' = FALSE /\ pollPhase' = next /\ cycleEndAge' = 0
        /\ wire' = Tail(wire)
        /\ replyDeferred' = (replyDeferred /\ ~LateExpected(type))
        /\ UNCHANGED <<requestAge, wroteSinceRequest, greeted>>
    BY <1>9 DEF ReceiveInfo
  <2>2. pollPhase' \in 1 .. NPhases + 1 /\ cycleEndAge' \in 0 .. UpdateInterval
    BY <1>6, <1>9, <2>1, Constants
  <2>3. replyDeferred' \in BOOLEAN
    BY <1>1, <2>1 DEF TypeOK
  <2>4. cycleRunning' = FALSE /\ wire' = Tail(wire) /\ UNCHANGED <<requestAge, wroteSinceRequest, greeted>>
    BY <2>1
  <2>5. TypeOK'
    BY <1>1, <1>rest, <1>2, <1>3, <1>4, <2>2, <2>3, <2>4 DEF TypeOK, connVars,
       commandVars, remoteVars, WaitCap
  <2>6. PhaseInRange' /\ CycleUndisturbed' /\ QuietPending'
    BY <1>7, <1>9, <2>1 DEF ReceiveInfo, PhaseInRange, CycleUndisturbed, QuietPending
  <2> QED BY <2>5, <2>6 DEF LinkInv
<1>10. CASE ~expected
  <2>1. /\ wire' = Tail(wire)
        /\ UNCHANGED <<cycleRunning, pollPhase, requestAge, cycleEndAge, replyDeferred,
                       wroteSinceRequest, greeted>>
    BY <1>10 DEF ReceiveInfo
  <2>2. TypeOK'
    BY <1>1, <1>rest, <1>2, <1>3, <1>4, <2>1 DEF TypeOK, connVars, commandVars,
       remoteVars, WaitCap
  <2>3. PhaseInRange' /\ CycleUndisturbed' /\ QuietPending'
    BY <2>1 DEF ReceiveInfo, LinkInv, PhaseInRange, CycleUndisturbed, QuietPending
  <2> QED BY <2>2, <2>3 DEF LinkInv
<1> QED BY <1>8, <1>9, <1>10

\* Time only ages; a quiet period that is over stays over.
LEMMA TickKeepsInv == LinkInv /\ Tick => LinkInv'
<1> SUFFICES ASSUME LinkInv, Tick PROVE LinkInv'
  OBVIOUS
<1>1. TypeOK
  BY DEF LinkInv
<1>2. writeAge' = AtMost(writeAge + 1, DeferDelay)
  BY DEF Tick, Aged
<1>3. attemptAge' \in 0 .. 3 * ConnectInterval
  BY <1>1, Constants DEF Tick, TypeOK, Aged, AtMost
<1>4. /\ requestAge' \in 0 .. ReplyDeadline /\ cycleStartAge' \in 0 .. ReplyDeadline
      /\ cycleEndAge' \in 0 .. UpdateInterval
      /\ timeoutAge' \in 0 .. DeferDelay /\ writeAge' \in 0 .. DeferDelay
      /\ confirmAge' \in 0 .. ConfirmInterval /\ discoveryAge' \in 0 .. IdentifyTimeout
  BY <1>1, Constants DEF Tick, TypeOK, Aged, AtMost
<1>5. responseAge' \in 0 .. ResponseCap /\ waitAge' \in 0 .. WaitCap
  <2>1. ResponseCap \in Nat /\ WaitCap \in Nat
    BY Constants DEF ResponseCap, WaitCap
  <2> responseAge + 1 \in Nat /\ waitAge + 1 \in Nat
    BY <1>1, <2>1 DEF TypeOK
  <2>2. AtMost(responseAge + 1, ResponseCap) \in 0 .. ResponseCap
    BY <2>1, AtMostType
  <2>3. AtMost(waitAge + 1, WaitCap) \in 0 .. WaitCap
    BY <2>1, AtMostType
  <2> QED BY <2>1, <2>2, <2>3 DEF Tick
<1>6. TypeOK'
  BY <1>1, <1>3, <1>4, <1>5 DEF Tick, TypeOK, commandVars, remoteVars
<1>7. PhaseInRange' /\ CycleUndisturbed'
  BY DEF Tick, LinkInv, PhaseInRange, CycleUndisturbed
<1>8. QuietPending'
  <2>1. writeAge >= DeferDelay => writeAge' >= DeferDelay
    BY <1>1, <1>2, Constants DEF TypeOK, AtMost
  <2> QED BY <2>1 DEF Tick, LinkInv, QuietPending
<1> QED BY <1>6, <1>7, <1>8 DEF LinkInv

LEMMA StutterKeepsInv == LinkInv /\ UNCHANGED vars => LinkInv'
BY DEF LinkInv, TypeOK, PhaseInRange, CycleUndisturbed, QuietPending, vars, connVars,
   cycleVars, writeVars, optVars, commandVars, remoteVars, historyVars, ResponseCap,
   WaitCap

\* LinkInv is inductive.
LEMMA StepKeepsInv == LinkInv /\ [Next]_vars => LinkInv'
<1> SUFFICES ASSUME LinkInv, [Next]_vars PROVE LinkInv'
  OBVIOUS
<1>1. CASE Pass
  BY <1>1, ApplyBaudRateKeepsInv, KeepBaudRateKeepsInv, PassDisconnectedKeepsInv, TransmitSetKeepsInv,
     TransmitRemoteKeepsInv, PassPollKeepsInv DEF Pass
<1>2. CASE Receive
  BY <1>2, ReceiveConnectOkKeepsInv, ReceiveAsidesKeepInv, ReceiveInfoKeepsInv
     DEF Receive
<1>3. CASE Tick \/ Lose
  BY <1>3, TickKeepsInv, LoseKeepsInv
<1>4. CASE \/ ResumeCommands \/ QueueAutoTarget \/ HoldCommands \/ SetBaudRate
           \/ \E kind \in {"feed", "clear"} : AskRemote(kind)
  BY <1>4, ProducersKeepInv
<1>5. CASE UNCHANGED vars
  BY <1>5, StutterKeepsInv
<1> QED BY <1>1, <1>2, <1>3, <1>4, <1>5 DEF Next

LEMMA Invariance == Spec => []LinkInv
BY InitInv, StepKeepsInv, PTL DEF Spec

-----------------------------------------------------------------------------
(* Theorems *)

\* Every variable keeps its type; in particular the phase index of the poll
\* cycle never leaves the phase table (processPacket(), loop()).
THEOREM TypeCorrect == Spec => []TypeOK
<1>1. LinkInv => TypeOK
  BY DEF LinkInv
<1> QED BY <1>1, Invariance, PTL

\* A late reply resumes a cycle only when nothing was written since the request
\* it answers, so a request is never sent right behind a SET (processPacket(),
\* lateExpected).
THEOREM ResumeIsSafe == Spec => []ResumeSafe
<1>1. LinkInv => ResumeSafe
  BY DEF LinkInv, CycleUndisturbed, ResumeSafe
<1> QED BY <1>1, Invariance, PTL

\* A poll request never follows a SET or a remote temperature within the quiet
\* period, unless the unit has greeted anew in between (loop(), _writeDeferred).
THEOREM QuietIsKept == Spec => QuietAfterWrite
<1>1. ASSUME LinkInv, [Next]_vars, wroteSinceRequest, ~wroteSinceRequest'
      PROVE  writeAge >= DeferDelay \/ greeted
  <2>1. CASE PassPoll
    <3>1. StartCycle
      BY <1>1, <2>1 DEF PassPoll, LinkInv, TypeOK
    <3> QED BY <1>1, <3>1 DEF StartCycle, StillDeferred, LinkInv, QuietPending
  <2>2. ASSUME NEW type \in InfoTypes, ReceiveInfo(type)
        PROVE  FALSE
    BY <1>1, <2>2 DEF ReceiveInfo, AwaitingExpected, LateExpected, LinkInv,
       CycleUndisturbed
  <2>3. CASE TransmitSet \/ TransmitRemote
    BY <1>1, <2>3 DEF TransmitSet, TransmitRemote, Wrote
  <2>4. CASE ApplyBaudRate \/ KeepBaudRate \/ PassDisconnected
    BY <1>1, <2>4 DEF ApplyBaudRate, KeepBaudRate, PassDisconnected, historyVars
  <2>5. CASE ReceiveConnectOk \/ ReceiveSetAck \/ ReceiveIdentify
    BY <1>1, <2>5 DEF ReceiveConnectOk, ReceiveSetAck, ReceiveIdentify, historyVars
  <2>6. CASE Tick \/ Lose
    BY <1>1, <2>6 DEF Tick, Lose, historyVars
  <2>7. CASE ResumeCommands \/ QueueAutoTarget \/ HoldCommands \/ SetBaudRate
    BY <1>1, <2>7 DEF ResumeCommands, QueueAutoTarget, HoldCommands, SetBaudRate,
       historyVars
  <2>8. CASE \E kind \in {"feed", "clear"} : AskRemote(kind)
    BY <1>1, <2>8 DEF AskRemote, historyVars
  <2>9. CASE UNCHANGED vars
    BY <1>1, <2>9 DEF vars, historyVars
  <2> QED BY <1>1, <2>1, <2>2, <2>3, <2>4, <2>5, <2>6, <2>7, <2>8, <2>9
          DEF Next, Pass, Receive
<1>2. LinkInv /\ [Next]_vars =>
        [wroteSinceRequest /\ ~wroteSinceRequest'
           => writeAge >= DeferDelay \/ greeted]_vars
  BY <1>1
<1> QED BY <1>2, Invariance, PTL DEF Spec, QuietAfterWrite

-----------------------------------------------------------------------------
(* The remote-temperature register *)

\* What is pending is the newest request; before any request it can only be the
\* first-connect clear, which is written once.
RemoteInv ==
  /\ remoteWritten => /\ remote = "none" => lastSent = lastAsked
                      /\ remote # "none" => remote = lastAsked
  /\ ~remoteWritten =>
       /\ remote # "none" => bootClear = "done" /\ remote = "clear" /\ lastSent = "none"
       /\ lastSent # "none" => bootClear = "done" /\ remote = "none"

LEMMA RemoteInit == Init => RemoteInv
BY DEF Init, RemoteInv

LEMMA RemoteStep == RemoteInv /\ [Next]_vars => RemoteInv'
<1> SUFFICES ASSUME RemoteInv, [Next]_vars PROVE RemoteInv'
  OBVIOUS
<1> USE DEF RemoteInv
<1>1. CASE TransmitRemote
  <2>1. CASE BootClearDue /\ ~remoteWritten
    <3>1. lastSent' = "clear" /\ remote' = "none" /\ bootClear' = "done"
      BY <1>1, <2>1 DEF TransmitRemote, RemoteNow
    <3> QED BY <1>1, <2>1, <3>1 DEF TransmitRemote
  <2>2. CASE ~(BootClearDue /\ ~remoteWritten)
    <3>1. lastSent' = remote /\ remote # "none" /\ remote' = "none"
      BY <1>1, <2>2 DEF TransmitRemote, RemoteNow
    <3> QED BY <1>1, <2>2, <3>1 DEF TransmitRemote
  <2> QED BY <2>1, <2>2
<1>2. CASE PassPoll
  <2>1. UNCHANGED <<remoteWritten, lastAsked, lastSent>>
    BY <1>2 DEF PassPoll
  <2>2. bootClear = "done" => bootClear' = "done"
    BY <1>2 DEF PassPoll, BootClearDue
  <2>3. CASE BootClearDue /\ ~remoteWritten
    <3>1. bootClear = "polling" /\ remote' = "clear" /\ bootClear' = "done"
      BY <1>2, <2>3 DEF PassPoll, BootClearDue, RemoteNow
    <3> QED BY <2>1, <2>3, <3>1
  <2>4. CASE ~(BootClearDue /\ ~remoteWritten)
    BY <1>2, <2>1, <2>2, <2>4 DEF PassPoll, RemoteNow
  <2> QED BY <2>3, <2>4
<1>3. CASE ReceiveConnectOk
  BY <1>3 DEF ReceiveConnectOk, BootClearRearmed, remoteVars
<1>4. CASE \E kind \in {"feed", "clear"} : AskRemote(kind)
  BY <1>4 DEF AskRemote, optVars
<1> DEFINE Untouched ==
             UNCHANGED <<bootClear, remote, remoteWritten, lastAsked, lastSent>>
<1>u. Untouched => RemoteInv'
  OBVIOUS
<1>5. CASE TransmitSet \/ PassDisconnected \/ ApplyBaudRate \/ KeepBaudRate
  <2>1. CASE TransmitSet
    BY <1>u, <2>1 DEF TransmitSet, remoteVars
  <2>2. CASE PassDisconnected
    BY <1>u, <2>2 DEF PassDisconnected, remoteVars, optVars
  <2>3. CASE ApplyBaudRate
    BY <1>u, <2>3 DEF ApplyBaudRate, remoteVars
  <2>4. CASE KeepBaudRate
    BY <1>u, <2>4 DEF KeepBaudRate, remoteVars, optVars
  <2> QED BY <1>5, <2>1, <2>2, <2>3, <2>4
<1>6. CASE ReceiveSetAck \/ ReceiveIdentify \/ \E type \in InfoTypes : ReceiveInfo(type)
  <2>1. CASE ReceiveSetAck
    BY <1>u, <2>1 DEF ReceiveSetAck, remoteVars, optVars
  <2>2. CASE ReceiveIdentify
    BY <1>u, <2>2 DEF ReceiveIdentify, remoteVars
  <2>3. ASSUME NEW type \in InfoTypes, ReceiveInfo(type) PROVE Untouched
    BY <2>3 DEF ReceiveInfo, remoteVars
  <2> QED BY <1>6, <1>u, <2>1, <2>2, <2>3
<1>7. CASE \/ Tick \/ Lose \/ ResumeCommands \/ QueueAutoTarget \/ HoldCommands
           \/ SetBaudRate
  <2>1. CASE Tick
    BY <1>u, <2>1 DEF Tick, remoteVars
  <2>2. CASE Lose \/ SetBaudRate
    BY <1>u, <2>2 DEF Lose, SetBaudRate, remoteVars, optVars
  <2>3. CASE ResumeCommands
    BY <1>u, <2>3 DEF ResumeCommands, remoteVars, optVars
  <2>4. CASE QueueAutoTarget \/ HoldCommands
    BY <1>u, <2>4 DEF QueueAutoTarget, HoldCommands, remoteVars, optVars
  <2> QED BY <1>7, <2>1, <2>2, <2>3, <2>4
<1>8. CASE UNCHANGED vars
  BY <1>8 DEF vars, remoteVars, optVars
<1> QED BY <1>1, <1>2, <1>3, <1>4, <1>5, <1>6, <1>7, <1>8 DEF Next, Pass, Receive

\* Once a room source has spoken, the register holds what the last one asked for.
THEOREM RemoteIsFollowed == Spec => []RemoteFollowsSource
<1>1. RemoteInv => RemoteFollowsSource
  BY DEF RemoteInv, RemoteFollowsSource
<1> QED BY <1>1, RemoteInit, RemoteStep, PTL DEF Spec

\* The first-connect clear is written at most once per boot, across reconnects.
THEOREM BootClearIsOnce == Spec => []BootClearOnce
<1>1. RemoteInv => BootClearOnce
  BY DEF RemoteInv, BootClearOnce
<1> QED BY <1>1, RemoteInit, RemoteStep, PTL DEF Spec

-----------------------------------------------------------------------------
(* Commands and silent units: no wait is unbounded                          *)

\* On a link that is up, a reply is waited for, or a late one still accepted, or
\* a write is settling: one of them at a time.
OneAtATime ==
  /\ cycleRunning => ~replyDeferred
  /\ cycleRunning \/ replyDeferred => connected /\ ~writeDeferred

\* A cycle is at least as old as its request, and one whose request was given up
\* is a slow one.
CycleOlder ==
  /\ cycleRunning => requestAge <= cycleStartAge
  /\ replyDeferred => cycleStartAge = ReplyDeadline

\* What a pass leaves is not yet due again.
PassedInTime ==
  passed =>
    /\ cycleRunning => requestAge < ReplyDeadline
    /\ connected /\ writeDeferred => writeAge < DeferDelay

\* Only a command that may be sent on this connection ages.
CommandWaits == waitAge > 0 => connected /\ sendRequested /\ ~commandsHeld

\* The ticks after which a command can be sent at the latest: a running cycle
\* yields at the end of a phase once it is slow, or is given up and drained; a
\* write settles and may let one cycle go first.
YieldsIn ==
  IF cycleRunning
  THEN DeferDelay + IF cycleStartAge < ReplyDeadline
                    THEN 2 * ReplyDeadline - 1 - cycleStartAge
                    ELSE ReplyDeadline - requestAge
  ELSE IF replyDeferred THEN DeferDelay - timeoutAge
  ELSE IF writeDeferred
  THEN (DeferDelay - writeAge) + (DeferDelay + 2 * ReplyDeadline - 1)
  ELSE 0

\* The wait so far and the wait still to come stay within the bound.
WaitBudget ==
  waitAge + YieldsIn + (IF passed /\ YieldsIn = 0 THEN 1 ELSE 0)
    < 2 * (ReplyDeadline + DeferDelay)

\* A cycle that has just ended was ended by a reply, or is still draining.
EndHeard ==
  ~cycleRunning /\ cycleEndAge = 0 =>
    responseAge = 0 \/ (replyDeferred /\ timeoutAge < DeferDelay)

\* Past the comms timeout the link stays up only while every pass writes, which
\* ends when the next poll is due.
SilentOnlyWriting ==
  connected /\ responseAge > CommsTimeout =>
    \/ ~passed /\ responseAge = CommsTimeout + 1
    \/ /\ writeDeferred
       /\ responseAge - CommsTimeout <= cycleEndAge
       /\ passed => responseAge = CommsTimeout + 1 \/ cycleEndAge < UpdateInterval

Waits ==
  /\ OneAtATime /\ CycleOlder /\ PassedInTime /\ CommandWaits
  /\ WaitBudget /\ EndHeard /\ SilentOnlyWriting

WaitInv == LinkInv /\ Waits

\* The ranges of the ages, as the steps use them.
LEMMA AgeTypes ==
  ASSUME TypeOK
  PROVE  /\ requestAge \in Nat /\ requestAge <= ReplyDeadline
         /\ cycleStartAge \in Nat /\ cycleStartAge <= ReplyDeadline
         /\ cycleEndAge \in Nat /\ cycleEndAge <= UpdateInterval
         /\ timeoutAge \in Nat /\ timeoutAge <= DeferDelay
         /\ writeAge \in Nat /\ writeAge <= DeferDelay
         /\ responseAge \in Nat /\ waitAge \in Nat
         /\ {connected, cycleRunning, replyDeferred, writeDeferred, confirmSettings,
             sendRequested, commandsHeld, passed} \subseteq BOOLEAN
BY Constants DEF TypeOK, ResponseCap, WaitCap

\* A command may have to wait for a quiet period and a cycle, no longer.
LEMMA YieldsInType ==
  ASSUME TypeOK
  PROVE  YieldsIn \in Nat /\ YieldsIn < 2 * (ReplyDeadline + DeferDelay)
BY AgeTypes, Constants DEF YieldsIn

\* A command that has not waited yet is within the bound.
LEMMA FreshBudget == TypeOK /\ waitAge = 0 => WaitBudget
BY YieldsInType, Constants DEF WaitBudget

\* Nor is one that is forgotten by a step.
LEMMA ForgottenBudget == (TypeOK /\ waitAge = 0 => WaitBudget)'
BY FreshBudget, PTL

LEMMA WaitInit == Init => WaitInv
<1> SUFFICES ASSUME Init PROVE WaitInv
  OBVIOUS
<1>1. LinkInv
  BY InitInv
<1>2. WaitBudget
  BY <1>1, FreshBudget DEF LinkInv, Init
<1>3. OneAtATime /\ CycleOlder /\ PassedInTime /\ CommandWaits
  BY DEF Init, OneAtATime, CycleOlder, PassedInTime, CommandWaits
<1>4. EndHeard /\ SilentOnlyWriting
  BY DEF Init, EndHeard, SilentOnlyWriting
<1> QED BY <1>1, <1>2, <1>3, <1>4 DEF WaitInv, Waits

\* What the invariant reads.
watched == <<connected, cycleRunning, requestAge, cycleStartAge, cycleEndAge,
             replyDeferred, timeoutAge, writeDeferred, writeAge, responseAge>>

\* A step that leaves the line and the age of the wait alone keeps it.
LEMMA AsideKeepsWaits ==
  ASSUME Waits, UNCHANGED <<watched, passed, waitAge>>,
         waitAge > 0 => connected /\ sendRequested' /\ ~commandsHeld'
  PROVE  Waits'
<1>1. YieldsIn' = YieldsIn
  BY DEF YieldsIn, watched
<1> QED
  BY <1>1 DEF Waits, OneAtATime, CycleOlder, PassedInTime, CommandWaits, WaitBudget,
     EndHeard, SilentOnlyWriting, watched

\* Neither does one after which no command waits.
LEMMA ForgottenKeepsWaits ==
  ASSUME Waits, TypeOK', UNCHANGED <<watched, passed>>, waitAge' = 0
  PROVE  Waits'
<1>1. WaitBudget'
  BY ForgottenBudget
<1> QED
  BY <1>1 DEF Waits, OneAtATime, CycleOlder, PassedInTime, CommandWaits, EndHeard,
     SilentOnlyWriting, watched

\* Ends of a wait, and of the connection.
LEMMA HangUpKeepsWaits ==
  ASSUME TypeOK', ~connected', ~cycleRunning', ~replyDeferred', responseAge' = 0,
         waitAge' = 0
  PROVE  Waits'
<1>1. WaitBudget'
  BY ForgottenBudget
<1>2. OneAtATime' /\ CycleOlder' /\ PassedInTime' /\ CommandWaits'
  BY DEF OneAtATime, CycleOlder, PassedInTime, CommandWaits
<1>3. EndHeard' /\ SilentOnlyWriting'
  BY DEF EndHeard, SilentOnlyWriting
<1> QED BY <1>1, <1>2, <1>3 DEF Waits

LEMMA ProducersKeepWaits ==
  ASSUME WaitInv, LinkInv',
         \/ ResumeCommands \/ QueueAutoTarget \/ HoldCommands \/ SetBaudRate
         \/ Lose \/ KeepBaudRate \/ ReceiveIdentify
         \/ \E kind \in {"feed", "clear"} : AskRemote(kind)
  PROVE  Waits'
<1>0. Waits /\ TypeOK /\ TypeOK' /\ CommandWaits
  BY DEF WaitInv, LinkInv, Waits
<1>1. CASE ResumeCommands
  <2>1. UNCHANGED <<watched, passed>>
    BY <1>1 DEF ResumeCommands, watched, connVars, cycleVars, writeVars
  <2>2. PICK any, elsewhere \in BOOLEAN :
          /\ sendRequested' = any /\ commandsHeld' = (any /\ elsewhere)
          /\ waitAge' = IF any /\ ~elsewhere THEN waitAge ELSE 0
    BY <1>1 DEF ResumeCommands
  <2>3. CASE any /\ ~elsewhere
    BY <1>0, <2>1, <2>2, <2>3, AsideKeepsWaits DEF CommandWaits
  <2>4. CASE ~(any /\ ~elsewhere)
    BY <1>0, <2>1, <2>2, <2>4, ForgottenKeepsWaits
  <2> QED BY <2>3, <2>4
<1>2. CASE QueueAutoTarget
  <2>1. UNCHANGED <<watched, passed, waitAge>> /\ sendRequested' /\ ~commandsHeld'
    BY <1>2 DEF QueueAutoTarget, watched, connVars, cycleVars, writeVars, historyVars
  <2> QED BY <1>0, <2>1, AsideKeepsWaits DEF CommandWaits
<1>3. CASE HoldCommands
  <2>1. UNCHANGED <<watched, passed>> /\ waitAge' = 0
    BY <1>3 DEF HoldCommands, watched, connVars, cycleVars, writeVars
  <2> QED BY <1>0, <2>1, ForgottenKeepsWaits
<1> DEFINE Aside == UNCHANGED <<watched, passed, waitAge, sendRequested, commandsHeld>>
<1>a. Aside => Waits'
  BY <1>0, AsideKeepsWaits DEF CommandWaits
<1>4. CASE SetBaudRate
  BY <1>a, <1>4 DEF SetBaudRate, watched, connVars, cycleVars, writeVars, historyVars,
     commandVars
<1>5. CASE Lose
  BY <1>a, <1>5 DEF Lose, watched, connVars, cycleVars, writeVars, historyVars,
     commandVars
<1>6. CASE KeepBaudRate
  BY <1>a, <1>6 DEF KeepBaudRate, watched, connVars, cycleVars, writeVars, historyVars,
     commandVars
<1>7. CASE ReceiveIdentify
  BY <1>a, <1>7 DEF ReceiveIdentify, watched, connVars, cycleVars, writeVars,
     historyVars, commandVars
<1>8. CASE \E kind \in {"feed", "clear"} : AskRemote(kind)
  BY <1>a, <1>8 DEF AskRemote, watched, connVars, cycleVars, writeVars, historyVars,
     commandVars
<1> QED BY <1>1, <1>2, <1>3, <1>4, <1>5, <1>6, <1>7, <1>8

\* A new line rate hangs up.
LEMMA ApplyBaudRateKeepsWaits ==
  ASSUME WaitInv, LinkInv', ApplyBaudRate
  PROVE  Waits'
BY HangUpKeepsWaits DEF ApplyBaudRate, RestartHandshake, LinkInv

\* While disconnected nothing waits.
LEMMA PassDisconnectedKeepsWaits ==
  ASSUME WaitInv, LinkInv', PassDisconnected
  PROVE  Waits'
<1>1. /\ UNCHANGED <<watched, waitAge>> /\ ~connected /\ ~connected'
      /\ waitAge' = 0 /\ TypeOK'
  <2>1. UNCHANGED <<watched, waitAge, sendRequested, commandsHeld>> /\ ~connected
    BY DEF PassDisconnected, watched, cycleVars, writeVars, historyVars, commandVars
  <2>2. waitAge = 0
    BY <2>1, AgeTypes DEF WaitInv, LinkInv, Waits, CommandWaits
  <2> QED BY <2>1, <2>2 DEF watched, LinkInv
<1>2. WaitBudget'
  BY <1>1, ForgottenBudget
<1>3. /\ OneAtATime' /\ CycleOlder' /\ PassedInTime' /\ CommandWaits' /\ EndHeard'
      /\ SilentOnlyWriting'
  BY <1>1 DEF WaitInv, Waits, OneAtATime, CycleOlder, PassedInTime, CommandWaits,
     EndHeard, SilentOnlyWriting, watched
<1> QED BY <1>1, <1>2, <1>3 DEF Waits

\* A write needs an idle line, and the silence before it has lasted a tick at least.
LEMMA WriteKeepsWaits ==
  ASSUME WaitInv, LinkInv', connected, connected', CanWrite, BookOverdue, Wrote,
         passed' = TRUE, waitAge' = 0,
         UNCHANGED <<requestAge, cycleStartAge, responseAge>>
  PROVE  Waits'
<1>1. ~cycleRunning /\ ~TimedOut /\ ~(replyDeferred /\ timeoutAge < DeferDelay)
  BY DEF CanWrite, Running, Draining, TimedOut
<1>2. /\ ~cycleRunning' /\ ~replyDeferred' /\ writeDeferred' /\ writeAge' = 0
      /\ cycleEndAge' = cycleEndAge /\ timeoutAge' = timeoutAge
  BY <1>1 DEF CanWrite, BookOverdue, Wrote, Running, EndAge
<1>3. cycleEndAge = 0 => responseAge = 0
  BY <1>1 DEF WaitInv, Waits, EndHeard
<1>4. WaitBudget'
  BY ForgottenBudget DEF LinkInv
<1>5. OneAtATime' /\ CycleOlder' /\ PassedInTime' /\ CommandWaits' /\ EndHeard'
  BY <1>2, <1>3, Constants
     DEF OneAtATime, CycleOlder, PassedInTime, CommandWaits, EndHeard
<1>6. SilentOnlyWriting'
  <2>1. responseAge \in Nat /\ cycleEndAge \in Nat
    BY AgeTypes DEF WaitInv, LinkInv
  <2> SUFFICES ASSUME responseAge > CommsTimeout
               PROVE  /\ responseAge - CommsTimeout <= cycleEndAge
                      /\ responseAge = CommsTimeout + 1 \/ cycleEndAge < UpdateInterval
    BY <1>2 DEF SilentOnlyWriting
  <2>2. CASE writeDeferred
    <3>1. cycleEndAge < UpdateInterval
      BY <1>1, <2>1, <2>2, Constants DEF CanWrite, PollDue, EndAge
    <3>2. CASE responseAge = CommsTimeout + 1
      BY <1>3, <2>1, <3>2, <3>1, Constants
    <3>3. CASE responseAge # CommsTimeout + 1
      BY <3>1, <3>3 DEF WaitInv, Waits, SilentOnlyWriting
    <3> QED BY <3>2, <3>3
  <2>3. CASE ~writeDeferred
    <3>1. responseAge = CommsTimeout + 1
      BY <2>3 DEF WaitInv, Waits, SilentOnlyWriting
    <3> QED BY <1>3, <2>1, <3>1, Constants
  <2> QED BY <2>2, <2>3
<1> QED BY <1>4, <1>5, <1>6 DEF Waits

LEMMA TransmitSetKeepsWaits ==
  ASSUME WaitInv, LinkInv', TransmitSet
  PROVE  Waits'
<1>1. /\ connected /\ connected' /\ CanWrite /\ BookOverdue /\ Wrote /\ passed' = TRUE
      /\ waitAge' = 0 /\ UNCHANGED <<requestAge, cycleStartAge, responseAge>>
  BY DEF TransmitSet, SendNow, connVars
<1> QED BY <1>1, WriteKeepsWaits

\* A remote temperature goes out only if no command waits.
LEMMA TransmitRemoteKeepsWaits ==
  ASSUME WaitInv, LinkInv', TransmitRemote
  PROVE  Waits'
<1>1. /\ connected /\ connected' /\ CanWrite /\ BookOverdue /\ Wrote /\ passed' = TRUE
      /\ UNCHANGED <<requestAge, cycleStartAge, responseAge, waitAge>>
  BY DEF TransmitRemote, connVars
<1>2. waitAge = 0
  <2>1. ~(waitAge > 0)
    BY DEF TransmitRemote, SendNow, WaitInv, Waits, CommandWaits
  <2> QED BY <2>1, AgeTypes DEF WaitInv, LinkInv
<1> QED BY <1>1, <1>2, WriteKeepsWaits

\* A pass that writes nothing although a command waits has a reason that is used
\* up: a cycle, a drain, or a quiet period after which one cycle may go first.
LEMMA PassPollKeepsWaits ==
  ASSUME WaitInv, LinkInv', PassPoll
  PROVE  Waits'
<1>1. /\ TypeOK /\ OneAtATime /\ CycleOlder /\ PassedInTime /\ CommandWaits
      /\ WaitBudget /\ EndHeard /\ SilentOnlyWriting
  BY DEF WaitInv, LinkInv, Waits
<1>2. CASE CommsLost
  BY <1>2, HangUpKeepsWaits DEF PassPoll, RestartHandshake, LinkInv
<1>3. CASE ~CommsLost
  <2>1. /\ connected /\ connected' /\ passed' = TRUE /\ writeAge' = writeAge
        /\ responseAge' = responseAge /\ waitAge' = waitAge
        /\ cycleRunning' = (Running \/ StartCycle) /\ replyDeferred' = Draining
        /\ writeDeferred' = StillDeferred /\ cycleEndAge' = EndAge
        /\ timeoutAge' = (IF TimedOut THEN 0 ELSE timeoutAge)
        /\ requestAge' = (IF StartCycle THEN 0 ELSE requestAge)
        /\ cycleStartAge' = (IF StartCycle THEN 0 ELSE cycleStartAge)
        /\ UNCHANGED <<sendRequested, commandsHeld>>
    BY <1>3 DEF PassPoll
  <2>2. /\ requestAge \in Nat /\ requestAge <= ReplyDeadline
        /\ cycleStartAge \in Nat /\ cycleStartAge <= ReplyDeadline
        /\ writeAge \in Nat /\ writeAge <= DeferDelay
        /\ timeoutAge \in Nat /\ timeoutAge <= DeferDelay
        /\ responseAge \in Nat /\ waitAge \in Nat
    BY <1>1, AgeTypes
  <2>3. SilentOnlyWriting'
    <3>1. ~(responseAge > CommsTimeout)
      BY <1>3 DEF CommsLost
    <3> QED BY <2>1, <3>1 DEF SilentOnlyWriting
  <2>4. CommandWaits'
    BY <1>1, <2>1 DEF CommandWaits
  <2>5. waitAge > 0 => ~CanWrite
    BY <1>1 DEF PassPoll, SendNow, CommandWaits
  <2>6. WaitBudget' /\ OneAtATime' /\ CycleOlder' /\ PassedInTime' /\ EndHeard'
    <3>1. CASE Running
      <4>1. cycleRunning /\ ~TimedOut /\ ~StartCycle /\ ~replyDeferred /\ ~writeDeferred
        BY <1>1, <3>1 DEF Running, StartCycle, Idle, OneAtATime
      <4>2. /\ cycleRunning' /\ ~replyDeferred' /\ ~writeDeferred' /\ cycleRunning
            /\ requestAge' = requestAge /\ cycleStartAge' = cycleStartAge
            /\ requestAge < ReplyDeadline
        <5>1. ~Draining /\ ~StillDeferred
          BY <4>1 DEF Draining, StillDeferred
        <5>2. requestAge < ReplyDeadline
          BY <2>2, <4>1, Constants DEF TimedOut
        <5> QED BY <2>1, <3>1, <4>1, <5>1, <5>2
      <4>3. YieldsIn' = YieldsIn /\ YieldsIn # 0
        <5>1. YieldsIn' = YieldsIn
          BY <4>2 DEF YieldsIn
        <5>2. YieldsIn # 0
          BY <2>2, <4>2, Constants DEF YieldsIn
        <5> QED BY <5>1, <5>2
      <4>4. WaitBudget'
        BY <1>1, <2>1, <4>3 DEF WaitBudget
      <4> QED BY <1>1, <2>1, <4>2, <4>4 DEF OneAtATime, CycleOlder, PassedInTime, EndHeard
    <3>2. CASE TimedOut
      <4>1. cycleRunning /\ ~Running /\ ~replyDeferred /\ ~writeDeferred /\ Draining
            /\ ~StartCycle /\ requestAge = ReplyDeadline /\ cycleStartAge = ReplyDeadline
        BY <1>1, <2>2, <3>2, Constants
           DEF TimedOut, Running, Draining, StartCycle, Idle, OneAtATime, CycleOlder
      <4>2. /\ ~cycleRunning' /\ replyDeferred' /\ ~writeDeferred' /\ timeoutAge' = 0
            /\ cycleStartAge' = ReplyDeadline
        BY <2>1, <3>2, <4>1 DEF StillDeferred
      <4>3. YieldsIn' = DeferDelay /\ YieldsIn = DeferDelay
        <5>1. YieldsIn' = DeferDelay
          BY <4>2, Constants DEF YieldsIn
        <5>2. YieldsIn = DeferDelay
          BY <4>1, Constants DEF YieldsIn
        <5> QED BY <5>1, <5>2
      <4>4. WaitBudget'
        BY <1>1, <2>1, <4>3, Constants DEF WaitBudget
      <4> QED BY <2>1, <4>2, <4>4, Constants
              DEF OneAtATime, CycleOlder, PassedInTime, EndHeard
    <3>3. CASE ~cycleRunning /\ replyDeferred /\ timeoutAge < DeferDelay
      <4>1. ~Running /\ ~TimedOut /\ Draining /\ ~StartCycle /\ ~writeDeferred
        BY <1>1, <3>3 DEF TimedOut, Running, Draining, StartCycle, Idle, OneAtATime
      <4>2. /\ ~cycleRunning' /\ replyDeferred' /\ ~writeDeferred'
            /\ timeoutAge' = timeoutAge /\ cycleStartAge' = cycleStartAge
        BY <2>1, <4>1 DEF StillDeferred
      <4>3. YieldsIn' = YieldsIn /\ YieldsIn # 0
        <5>1. YieldsIn' = YieldsIn
          BY <3>3, <4>2 DEF YieldsIn
        <5>2. YieldsIn # 0
          BY <2>2, <3>3, Constants DEF YieldsIn
        <5> QED BY <5>1, <5>2
      <4>4. WaitBudget'
        BY <1>1, <2>1, <4>3 DEF WaitBudget
      <4> QED BY <1>1, <2>1, <3>3, <4>2, <4>4
              DEF OneAtATime, CycleOlder, PassedInTime, EndHeard
    <3>4. CASE ~cycleRunning /\ ~(replyDeferred /\ timeoutAge < DeferDelay)
      <4>1. ~Running /\ ~TimedOut /\ ~Draining /\ Idle /\ EndAge = cycleEndAge
        BY <3>4 DEF TimedOut, Running, Draining, Idle, EndAge
      <4>2. ~replyDeferred' /\ cycleEndAge' = cycleEndAge
        BY <2>1, <4>1
      <4>3. EndHeard'
        BY <1>1, <2>1, <3>4, <4>2 DEF EndHeard
      <4>4. StillDeferred <=> writeDeferred /\ writeAge < DeferDelay
        BY <2>2, <4>1, Constants DEF StillDeferred
      <4>5. OneAtATime' /\ CycleOlder' /\ PassedInTime'
        <5>1. CASE StartCycle
          <6>1. ~writeDeferred' /\ requestAge' = 0 /\ cycleStartAge' = 0
            BY <2>1, <5>1 DEF StartCycle
          <6> QED BY <2>1, <4>2, <6>1, Constants DEF OneAtATime, CycleOlder, PassedInTime
        <5>2. CASE ~StartCycle
          <6>1. ~cycleRunning' /\ (writeDeferred' => writeAge' < DeferDelay)
            BY <2>1, <4>1, <4>4, <5>2
          <6> QED BY <4>2, <6>1 DEF OneAtATime, CycleOlder, PassedInTime
        <5> QED BY <5>1, <5>2
      <4>6. WaitBudget'
        <5>1. CASE waitAge = 0
          BY <2>1, <5>1, ForgottenBudget DEF LinkInv
        <5>2. CASE waitAge > 0
          <6>1. writeDeferred /\ ~replyDeferred
            BY <1>1, <2>5, <4>1, <5>2 DEF CanWrite, OneAtATime
          <6>2. YieldsIn = (DeferDelay - writeAge) + (DeferDelay + 2 * ReplyDeadline - 1)
            BY <3>4, <6>1 DEF YieldsIn
          <6>3. CASE StillDeferred
            <7>1. YieldsIn' = YieldsIn
              BY <2>1, <3>4, <4>1, <4>2, <6>1, <6>3 DEF YieldsIn, StartCycle
            <7> QED BY <1>1, <2>1, <2>2, <6>2, <7>1, Constants DEF WaitBudget
          <6>4. CASE ~StillDeferred /\ StartCycle
            <7>1. writeAge = DeferDelay
              BY <2>2, <4>4, <6>1, <6>4, Constants
            <7>2. YieldsIn' = DeferDelay + 2 * ReplyDeadline - 1
              <8>1. cycleRunning' /\ cycleStartAge' = 0
                BY <2>1, <6>4
              <8> QED BY <8>1, Constants DEF YieldsIn
            <7>3. YieldsIn = DeferDelay + 2 * ReplyDeadline - 1
              BY <6>2, <7>1, Constants
            <7> QED BY <1>1, <2>1, <2>2, <7>2, <7>3, Constants DEF WaitBudget
          <6>5. CASE ~StillDeferred /\ ~StartCycle
            <7>1. YieldsIn' = 0
              BY <2>1, <4>1, <4>2, <6>5 DEF YieldsIn
            <7>2. YieldsIn \in Nat /\ YieldsIn >= 1
              BY <2>2, <6>2, Constants
            <7> QED BY <1>1, <2>1, <2>2, <7>1, <7>2, Constants DEF WaitBudget
          <6> QED BY <6>3, <6>4, <6>5
        <5> QED BY <2>2, <5>1, <5>2
      <4> QED BY <4>3, <4>5, <4>6
    <3> QED BY <3>1, <3>2, <3>3, <3>4 DEF Running, TimedOut
  <2> QED BY <2>3, <2>4, <2>6 DEF Waits
<1> QED BY <1>2, <1>3

\* A greeting ends whatever the driver was waiting for.
LEMMA ReceiveConnectOkKeepsWaits ==
  ASSUME WaitInv, LinkInv', ReceiveConnectOk
  PROVE  Waits'
<1>1. /\ TypeOK /\ CommandWaits /\ WaitBudget
  BY DEF WaitInv, LinkInv, Waits
<1>2. /\ connected' /\ ~cycleRunning' /\ ~replyDeferred' /\ ~writeDeferred'
      /\ responseAge' = 0 /\ waitAge' = waitAge /\ passed' = passed
      /\ UNCHANGED <<sendRequested, commandsHeld>>
  BY DEF ReceiveConnectOk, commandVars
<1>3. WaitBudget'
  <2>1. YieldsIn' = 0 /\ YieldsIn \in Nat
    BY <1>1, <1>2, YieldsInType DEF YieldsIn
  <2> QED BY <1>1, <1>2, <2>1, AgeTypes, Constants DEF WaitBudget
<1>4. OneAtATime' /\ CycleOlder' /\ PassedInTime' /\ CommandWaits' /\ EndHeard'
  BY <1>1, <1>2 DEF OneAtATime, CycleOlder, PassedInTime, CommandWaits, EndHeard
<1>5. SilentOnlyWriting'
  BY <1>2, Constants DEF SilentOnlyWriting
<1> QED BY <1>3, <1>4, <1>5 DEF Waits

LEMMA ReceiveSetAckKeepsWaits ==
  ASSUME WaitInv, LinkInv', ReceiveSetAck
  PROVE  Waits'
<1>1. /\ UNCHANGED <<connected, cycleRunning, requestAge, cycleStartAge, cycleEndAge,
                     replyDeferred, timeoutAge, writeDeferred, writeAge, passed, waitAge,
                     sendRequested, commandsHeld>>
      /\ responseAge' = 0
  BY DEF ReceiveSetAck, connVars, cycleVars, writeVars, historyVars, commandVars
<1>2. YieldsIn' = YieldsIn
  BY <1>1 DEF YieldsIn
<1>3. SilentOnlyWriting'
  BY <1>1, Constants DEF SilentOnlyWriting
<1> QED
  BY <1>1, <1>2, <1>3 DEF WaitInv, Waits, OneAtATime, CycleOlder, PassedInTime,
     CommandWaits, WaitBudget, EndHeard

\* A reply starts the next phase only if no command waits or the cycle is not
\* slow yet; either way the command can go no later than before.
LEMMA ReceiveInfoKeepsWaits ==
  ASSUME WaitInv, LinkInv', NEW type \in InfoTypes, ReceiveInfo(type)
  PROVE  Waits'
<1>1. /\ TypeOK /\ OneAtATime /\ CycleOlder /\ PassedInTime /\ CommandWaits
      /\ WaitBudget
  BY DEF WaitInv, LinkInv, Waits
<1> DEFINE expected == AwaitingExpected(type) \/ LateExpected(type)
           goesOn == NextPhase(errorDisabled') <= NPhases /\ ~SlowCycle
<1>2. /\ UNCHANGED <<connected, cycleStartAge, timeoutAge, writeDeferred, writeAge,
                     passed, waitAge, sendRequested, commandsHeld>>
      /\ responseAge' = 0
  BY DEF ReceiveInfo, connVars, commandVars
<1>3. /\ requestAge \in Nat /\ requestAge <= ReplyDeadline
      /\ cycleStartAge \in Nat /\ cycleStartAge <= ReplyDeadline
      /\ waitAge \in Nat /\ timeoutAge \in Nat /\ timeoutAge <= DeferDelay
  BY <1>1, AgeTypes
<1>4. SilentOnlyWriting' /\ EndHeard' /\ CommandWaits'
  BY <1>1, <1>2, Constants DEF SilentOnlyWriting, EndHeard, CommandWaits
<1>5. expected => connected /\ ~writeDeferred /\ (cycleRunning \/ replyDeferred)
  BY <1>1 DEF AwaitingExpected, LateExpected, OneAtATime
<1>6. CASE expected /\ goesOn
  <2>1. cycleRunning' /\ requestAge' = 0 /\ ~replyDeferred'
    BY <1>6 DEF ReceiveInfo
  <2>2. OneAtATime' /\ CycleOlder' /\ PassedInTime'
    BY <1>2, <1>3, <1>5, <1>6, <2>1, Constants DEF OneAtATime, CycleOlder, PassedInTime
  <2>3. WaitBudget'
    <3>1. CASE waitAge = 0
      BY <1>2, <3>1, ForgottenBudget DEF LinkInv
    <3>2. CASE waitAge > 0
      <4>1. sendRequested
        BY <1>1, <3>2 DEF CommandWaits
      <4>2. cycleStartAge < ReplyDeadline
        BY <1>3, <1>6, <4>1, Constants DEF SlowCycle
      <4>3. cycleRunning
        BY <1>1, <1>5, <1>6, <4>2, Constants DEF CycleOlder
      <4>4. YieldsIn' = YieldsIn /\ YieldsIn # 0
        <5>1. YieldsIn' = DeferDelay + (2 * ReplyDeadline - 1 - cycleStartAge)
          BY <1>2, <2>1, <4>2 DEF YieldsIn
        <5>2. YieldsIn = DeferDelay + (2 * ReplyDeadline - 1 - cycleStartAge)
          BY <4>2, <4>3 DEF YieldsIn
        <5>3. YieldsIn # 0
          BY <1>3, <4>2, <5>2, Constants
        <5> QED BY <5>1, <5>2, <5>3
      <4> QED BY <1>1, <1>2, <4>4 DEF WaitBudget
    <3> QED BY <1>3, <3>1, <3>2
  <2> QED BY <1>4, <2>2, <2>3 DEF Waits
<1>7. CASE expected /\ ~goesOn
  <2>1. ~cycleRunning' /\ ~replyDeferred' /\ ~writeDeferred'
    <3>1. cycleRunning' = FALSE /\ replyDeferred' = (replyDeferred /\ ~LateExpected(type))
      BY <1>7 DEF ReceiveInfo
    <3>2. AwaitingExpected(type) => ~replyDeferred
      BY <1>1 DEF AwaitingExpected, OneAtATime
    <3> QED BY <1>2, <1>5, <1>7, <3>1, <3>2
  <2>2. OneAtATime' /\ CycleOlder' /\ PassedInTime'
    BY <2>1 DEF OneAtATime, CycleOlder, PassedInTime
  <2>3. WaitBudget'
    <3>1. YieldsIn' = 0 /\ YieldsIn \in Nat
      BY <1>1, <2>1, YieldsInType DEF YieldsIn
    <3> QED BY <1>1, <1>2, <1>3, <3>1, Constants DEF WaitBudget
  <2> QED BY <1>4, <2>2, <2>3 DEF Waits
<1>8. CASE ~expected
  <2>1. UNCHANGED <<cycleRunning, requestAge, replyDeferred>>
    BY <1>8 DEF ReceiveInfo
  <2>2. YieldsIn' = YieldsIn
    BY <1>2, <2>1 DEF YieldsIn
  <2>3. WaitBudget' /\ OneAtATime' /\ CycleOlder' /\ PassedInTime'
    BY <1>1, <1>2, <2>1, <2>2 DEF WaitBudget, OneAtATime, CycleOlder, PassedInTime
  <2> QED BY <1>4, <2>3 DEF Waits
<1> QED BY <1>6, <1>7, <1>8

\* A tick moves one unit from the wait to come to the wait so far.
LEMMA TickKeepsWaits ==
  ASSUME WaitInv, LinkInv', Tick
  PROVE  Waits'
<1>1. /\ TypeOK /\ OneAtATime /\ CycleOlder /\ PassedInTime /\ CommandWaits
      /\ WaitBudget /\ EndHeard /\ SilentOnlyWriting
  BY DEF WaitInv, LinkInv, Waits
<1>2. /\ passed /\ ~passed'
      /\ UNCHANGED <<connected, cycleRunning, replyDeferred, writeDeferred,
                     sendRequested, commandsHeld>>
  BY DEF Tick, commandVars
<1>3. /\ requestAge \in Nat /\ requestAge <= ReplyDeadline
      /\ cycleStartAge \in Nat /\ cycleStartAge <= ReplyDeadline
      /\ cycleEndAge \in Nat /\ cycleEndAge <= UpdateInterval
      /\ writeAge \in Nat /\ writeAge <= DeferDelay
      /\ timeoutAge \in Nat /\ timeoutAge <= DeferDelay
      /\ responseAge \in Nat /\ waitAge \in Nat
  BY <1>1, AgeTypes
<1>4. OneAtATime' /\ PassedInTime'
  BY <1>1, <1>2 DEF OneAtATime, PassedInTime
<1>5. CycleOlder'
  <2>1. CASE cycleRunning
    <3>1. /\ requestAge' = AtMost(requestAge + 1, ReplyDeadline)
          /\ cycleStartAge' = AtMost(cycleStartAge + 1, ReplyDeadline)
      BY <2>1 DEF Tick, Aged
    <3>2. requestAge <= cycleStartAge
      BY <1>1, <2>1 DEF CycleOlder
    <3>3. requestAge' <= cycleStartAge'
      BY <1>3, <3>1, <3>2, Constants DEF AtMost
    <3> QED BY <1>1, <1>2, <2>1, <3>3 DEF CycleOlder, OneAtATime
  <2>2. CASE ~cycleRunning
    <3>1. replyDeferred => cycleStartAge' = AtMost(cycleStartAge + 1, ReplyDeadline)
      BY DEF Tick, Aged
    <3>2. replyDeferred => cycleStartAge' = ReplyDeadline
      BY <1>1, <3>1, Constants DEF AtMost, CycleOlder
    <3> QED BY <1>2, <2>2, <3>2 DEF CycleOlder
  <2> QED BY <2>1, <2>2
<1>6. /\ waitAge' \in {0, waitAge + 1}
      /\ waitAge' # 0 => connected /\ sendRequested /\ ~commandsHeld
  <2>1. waitAge + 1 < WaitCap
    <3>1. waitAge < 2 * (ReplyDeadline + DeferDelay)
      BY <1>1, <1>3, YieldsInType, Constants DEF WaitBudget
    <3> QED BY <1>3, <3>1, Constants DEF WaitCap
  <2>2. AtMost(waitAge + 1, WaitCap) = waitAge + 1
    BY <1>3, <2>1 DEF AtMost
  <2> QED BY <2>2 DEF Tick
<1>7. CommandWaits'
  BY <1>2, <1>3, <1>6 DEF CommandWaits
<1>8. WaitBudget'
  <2>1. CASE waitAge' = 0
    BY <2>1, ForgottenBudget DEF LinkInv
  <2>2. CASE waitAge' = waitAge + 1 /\ connected
    <3>1. YieldsIn \in Nat
      BY <1>1, YieldsInType
    <3>2. CASE YieldsIn = 0
      <4>1. /\ ~cycleRunning /\ ~writeDeferred
            /\ replyDeferred => timeoutAge = DeferDelay
        <5>1. ~cycleRunning
          BY <1>3, <3>2, Constants DEF YieldsIn
        <5>2. replyDeferred => timeoutAge = DeferDelay
          BY <1>3, <3>2, <5>1, Constants DEF YieldsIn
        <5>3. writeDeferred => replyDeferred
          BY <1>3, <3>2, <5>1, Constants DEF YieldsIn
        <5> QED BY <1>1, <5>1, <5>2, <5>3 DEF OneAtATime
      <4>2. replyDeferred => timeoutAge' = AtMost(timeoutAge + 1, DeferDelay)
        BY DEF Tick, Aged
      <4>3. replyDeferred => timeoutAge' = DeferDelay
        BY <4>1, <4>2, Constants DEF AtMost
      <4>4. YieldsIn' = 0
        BY <1>2, <4>1, <4>3, Constants DEF YieldsIn
      <4> QED BY <1>1, <1>2, <1>3, <2>2, <3>2, <4>4, Constants DEF WaitBudget
    <3>3. CASE YieldsIn # 0
      <4>0. ASSUME YieldsIn' \in Int, YieldsIn' <= YieldsIn - 1
            PROVE  WaitBudget'
        <5>1. PICK n \in Int : YieldsIn' = n
          BY <4>0
        <5>2. n <= YieldsIn - 1
          BY <4>0, <5>1
        <5>3. waitAge + YieldsIn < 2 * (ReplyDeadline + DeferDelay)
          BY <1>1, <1>3, <3>1, <3>3, Constants DEF WaitBudget
        <5>4. waitAge + 1 + n + 0 < 2 * (ReplyDeadline + DeferDelay)
          BY <1>3, <3>1, <5>2, <5>3, Constants
        <5> QED BY <1>2, <2>2, <5>1, <5>4 DEF WaitBudget
      <4> SUFFICES YieldsIn' \in Int /\ YieldsIn' <= YieldsIn - 1
        BY <4>0
      <4>1. CASE cycleRunning
        <5>1. /\ requestAge' = AtMost(requestAge + 1, ReplyDeadline)
              /\ cycleStartAge' = AtMost(cycleStartAge + 1, ReplyDeadline)
          BY <4>1 DEF Tick, Aged
        <5>2. requestAge < ReplyDeadline
          BY <1>1, <1>2, <4>1 DEF PassedInTime
        <5>3. requestAge' = requestAge + 1
          BY <1>3, <5>1, <5>2, Constants DEF AtMost
        <5>4. CASE cycleStartAge + 1 < ReplyDeadline
          <6>1. cycleStartAge' = cycleStartAge + 1
            BY <1>3, <5>1, <5>4, Constants DEF AtMost
          <6>2. YieldsIn' = DeferDelay + (2 * ReplyDeadline - 1 - (cycleStartAge + 1))
            BY <1>2, <4>1, <5>4, <6>1 DEF YieldsIn
          <6>3. YieldsIn = DeferDelay + (2 * ReplyDeadline - 1 - cycleStartAge)
            BY <1>3, <4>1, <5>4, Constants DEF YieldsIn
          <6> QED BY <1>3, <6>2, <6>3, Constants
        <5>5. CASE cycleStartAge + 1 >= ReplyDeadline
          <6>1. cycleStartAge' = ReplyDeadline
            BY <1>3, <5>1, <5>5, Constants DEF AtMost
          <6>2. YieldsIn' = DeferDelay + (ReplyDeadline - (requestAge + 1))
            BY <1>2, <4>1, <5>3, <6>1, Constants DEF YieldsIn
          <6>3. CASE cycleStartAge = ReplyDeadline
            <7>1. YieldsIn = DeferDelay + (ReplyDeadline - requestAge)
              BY <4>1, <6>3, Constants DEF YieldsIn
            <7> QED BY <1>3, <6>2, <7>1, Constants
          <6>4. CASE cycleStartAge < ReplyDeadline
            <7>1. YieldsIn = DeferDelay + (2 * ReplyDeadline - 1 - cycleStartAge)
              BY <4>1, <6>4 DEF YieldsIn
            <7> QED BY <1>3, <5>5, <6>2, <6>4, <7>1, Constants
          <6> QED BY <1>3, <6>3, <6>4, Constants
        <5> QED BY <1>3, <5>4, <5>5, Constants
      <4>2. CASE ~cycleRunning /\ replyDeferred
        <5>1. timeoutAge' = AtMost(timeoutAge + 1, DeferDelay)
          BY <4>2 DEF Tick, Aged
        <5>2. YieldsIn = DeferDelay - timeoutAge
          BY <4>2 DEF YieldsIn
        <5>3. timeoutAge' = timeoutAge + 1
          BY <1>3, <3>3, <5>1, <5>2, Constants DEF AtMost
        <5>4. YieldsIn' = DeferDelay - (timeoutAge + 1)
          BY <1>2, <4>2, <5>3 DEF YieldsIn
        <5> QED BY <1>3, <5>2, <5>4, Constants
      <4>3. CASE ~cycleRunning /\ ~replyDeferred
        <5>1. writeDeferred
          BY <3>3, <4>3 DEF YieldsIn
        <5>2. writeAge < DeferDelay
          BY <1>1, <1>2, <2>2, <5>1 DEF PassedInTime
        <5>3. writeAge' = writeAge + 1
          BY <1>3, <5>2, Constants DEF Tick, Aged, AtMost
        <5>4. YieldsIn' = (DeferDelay - (writeAge + 1))
                            + (DeferDelay + 2 * ReplyDeadline - 1)
          BY <1>2, <4>3, <5>1, <5>3 DEF YieldsIn
        <5>5. YieldsIn = (DeferDelay - writeAge) + (DeferDelay + 2 * ReplyDeadline - 1)
          BY <4>3, <5>1 DEF YieldsIn
        <5> QED BY <1>3, <5>4, <5>5, Constants
      <4> QED BY <4>1, <4>2, <4>3
    <3> QED BY <3>2, <3>3
  <2> QED BY <1>6, <2>1, <2>2
<1>9. cycleEndAge' = AtMost(cycleEndAge + 1, UpdateInterval) \/ cycleRunning
  BY DEF Tick, Aged
<1>10. EndHeard'
  BY <1>2, <1>3, <1>9, Constants DEF EndHeard, AtMost
<1>11. SilentOnlyWriting'
  <2> SUFFICES ASSUME connected, responseAge' > CommsTimeout,
                      responseAge' # CommsTimeout + 1
               PROVE  writeDeferred /\ responseAge' - CommsTimeout <= cycleEndAge'
    BY <1>2 DEF SilentOnlyWriting
  <2>1. responseAge' = AtMost(responseAge + 1, ResponseCap) /\ ResponseCap \in Nat
    BY Constants DEF Tick, ResponseCap
  <2>2. responseAge' <= responseAge + 1 /\ responseAge > CommsTimeout
    BY <1>3, <2>1, Constants DEF AtMost
  <2>3. /\ writeDeferred /\ responseAge - CommsTimeout <= cycleEndAge
        /\ responseAge = CommsTimeout + 1 \/ cycleEndAge < UpdateInterval
    BY <1>1, <1>2, <2>2 DEF SilentOnlyWriting
  <2>4. cycleEndAge' = AtMost(cycleEndAge + 1, UpdateInterval)
    BY <1>1, <1>9, <2>3 DEF OneAtATime
  <2> QED BY <1>3, <2>1, <2>2, <2>3, <2>4, Constants, PollIsSlow DEF AtMost
<1> QED BY <1>4, <1>5, <1>7, <1>8, <1>10, <1>11 DEF Waits

\* WaitInv is inductive.
LEMMA WaitStep == WaitInv /\ [Next]_vars => WaitInv'
<1> SUFFICES ASSUME WaitInv, [Next]_vars PROVE WaitInv'
  OBVIOUS
<1>1. LinkInv'
  BY StepKeepsInv DEF WaitInv
<1>2. CASE Pass
  BY <1>1, <1>2, ApplyBaudRateKeepsWaits, ProducersKeepWaits,
     PassDisconnectedKeepsWaits, TransmitSetKeepsWaits, TransmitRemoteKeepsWaits,
     PassPollKeepsWaits DEF Pass, WaitInv
<1>3. CASE Receive
  BY <1>1, <1>3, ReceiveConnectOkKeepsWaits, ReceiveSetAckKeepsWaits,
     ProducersKeepWaits, ReceiveInfoKeepsWaits DEF Receive, WaitInv
<1>4. CASE Tick
  BY <1>1, <1>4, TickKeepsWaits DEF WaitInv
<1>5. CASE \/ Lose \/ ResumeCommands \/ QueueAutoTarget \/ HoldCommands \/ SetBaudRate
           \/ \E kind \in {"feed", "clear"} : AskRemote(kind)
  BY <1>1, <1>5, ProducersKeepWaits DEF WaitInv
<1>6. CASE UNCHANGED vars
  <2>1. UNCHANGED <<watched, passed, waitAge, sendRequested, commandsHeld>>
    BY <1>6 DEF vars, watched, connVars, cycleVars, writeVars, historyVars, commandVars
  <2>2. CommandWaits
    BY DEF WaitInv, Waits
  <2> QED BY <1>1, <2>1, <2>2, AsideKeepsWaits DEF WaitInv, CommandWaits
<1> QED BY <1>2, <1>3, <1>4, <1>5, <1>6 DEF Next

\* A committed command that may be sent goes out within two reply deadlines and
\* two quiet periods, and a silent unit is noticed within a poll period of the
\* comms timeout, whatever else is asked of the link (loop(), processPacket()).
THEOREM WaitsEnd == Spec => []WaitsAreBounded
<1>1. WaitInv => WaitsAreBounded
  <2> SUFFICES ASSUME WaitInv PROVE BoundedWait /\ SilenceBounded
    BY DEF WaitsAreBounded
  <2>1. TypeOK /\ WaitBudget /\ SilentOnlyWriting
    BY DEF WaitInv, LinkInv, Waits
  <2>2. BoundedWait
    BY <2>1, AgeTypes, YieldsInType, Constants DEF WaitBudget, BoundedWait
  <2>3. SilenceBounded
    BY <2>1, AgeTypes, Constants, PollIsSlow DEF SilentOnlyWriting, SilenceBounded
  <2> QED BY <2>2, <2>3
<1> QED BY <1>1, WaitInit, WaitStep, PTL DEF Spec
=============================================================================
