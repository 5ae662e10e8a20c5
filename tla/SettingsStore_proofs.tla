------------------------- MODULE SettingsStore_proofs -------------------------
(***************************************************************************)
(* Theorems about SettingsStore, for every band, every content a device is *)
(* born with, and any number of power losses and failing writes.           *)
(*                                                                         *)
(* StoreInv is inductive.  It follows the record rangeCfg through a save:  *)
(* which calls on it are still to come, with which value, and what the     *)
(* flash holds until then.                                                 *)
(*                                                                         *)
(* PolicyInv is inductive together with StoreInv.  It says what the whole  *)
(* namespace stands for, with a record in it or without one, at every call *)
(* of a save and of its undo.                                              *)
(*                                                                         *)
(* ChoiceInv is inductive together with both.  It follows the Auto         *)
(* setpoint mode from the user's wish to the flash, and the policy that    *)
(* gives Auto to the unit ahead of it.                                     *)
(***************************************************************************)
EXTENDS SettingsStore, SequenceTheorems, TLAPS

Jobs ==
  [kind : {"single"}, val : BOOLEAN] \cup [kind : {"policy"}, val : Policies]
  \cup [kind : {"cache", "rest", "migrate"}, val : {TRUE, None}]

NvsCalls ==
  [op : {"cfg"}, val : Policies \cup {None, Damaged}]
  \cup [op : {"band"}, val : Bands \cup {None}] \cup [op : {"owner"}, val : Owners \cup {None}]
  \cup [op : {"single"}, val : BOOLEAN \cup {None}]
  \cup [op : {"cache", "rest", "legacy"}, val : {TRUE, None}]
  \cup [op : {"commit", "reopen"}, val : {None}]

\* What a sequence of calls must be to be a save, or an undo, of a job: it ends
\* as it should, and has a call on the record only with the given value.
WellFormed(calls, final, value) ==
  /\ calls \in Seq(NvsCalls) /\ Len(calls) > 0
  /\ calls[Len(calls)] = final
  /\ \A i \in 1 .. Len(calls) - 1 :
       calls[i].op # "reopen" /\ (final = Commit => calls[i].op # "commit")
  /\ \A i \in 1 .. Len(calls) : calls[i].op = "cfg" => calls[i].val = value
HasRecord(calls) == \E i \in 1 .. Len(calls) : calls[i].op = "cfg"

\* The policy is being saved, or its save undone.
Saving == todo # <<>> /\ plan[1].kind = "policy"

Queues ==
  /\ plan \in Seq(Jobs) /\ todo \in Seq(NvsCalls)
  /\ todo # <<>> => plan # <<>>
  /\ running = "none" => plan = <<>>
  /\ undoing => todo # <<>>
  /\ attempted => Saving
  /\ turn = "failed" => previous # None

\* A save ends with its commit, an undo with discardPending().  Only the policy's
\* own save writes the record: its value, or to undo, the one from before.
InHand ==
  todo # <<>> =>
    /\ WellFormed(todo, IF undoing THEN Reopen ELSE Commit,
                        IF undoing THEN before.cfg ELSE plan[1].val)
    /\ HasRecord(todo) => Saving

\* What the flash holds once the record has been dealt with.
RecordInFlash ==
  Saving =>
    /\ ~attempted => flash.cfg = before.cfg
    /\ ~undoing => HasRecord(todo) \/ flash.cfg = plan[1].val
    /\ undoing /\ ~attempted => ~HasRecord(todo)
    /\ undoing /\ restored /\ ~resetting => HasRecord(todo) \/ flash.cfg = before.cfg

\* The policy in force is in flash, or is what the save under way began with.
Held ==
  power = "on" /\ available /\ stored =>
    IF Saving THEN before.cfg = active ELSE ~resetting => flash.cfg = active

\* Once the partition is wiped nothing is about to be written.
Wiped ==
  power = "erased" =>
    /\ flash = Blank /\ resetting /\ todo = <<>> /\ running # "boot"
    /\ plan # <<>> => plan[1].kind \notin {"rest", "migrate"}

StoreInv == TypeOK /\ Queues /\ InHand /\ RecordInFlash /\ Held /\ Wiped

-----------------------------------------------------------------------------
(* The operators *)

LEMMA JobTypes ==
  /\ \A b \in BOOLEAN : Single(b) \in Jobs
  /\ \A p \in Policies : Policy(p) \in Jobs
  /\ Migrate \in Jobs /\ Rest \in Jobs /\ Cache \in Jobs
BY DEF Jobs, Single, Policy, Migrate, Rest, Cache

\* What a boot makes of any content of the namespace is well formed.
LEMMA LoadedTypes ==
  ASSUME NEW f \in Flash
  PROVE  LoadedPolicy(f) \in Policies /\ LoadedChoice(f) \in BOOLEAN
BY StoreAssumption
   DEF Flash, LoadedPolicy, InitialPolicy, LoadedChoice, Policies, DefaultPolicy, Owners,
       Selections, HadSettings

LEMMA BootPlanType ==
  ASSUME NEW f \in Flash
  PROVE  BootPlan(f) \in Seq(Jobs) /\ BootPlan(f) # <<>>
<1> DEFINE first == IF f.single = None THEN <<Single(LoadedChoice(f))>> ELSE <<>>
           final == IF f.cfg = None THEN <<Policy(LoadedPolicy(f))>> ELSE <<>>
<1>1. first \in Seq(Jobs) /\ final \in Seq(Jobs) /\ <<Migrate>> \in Seq(Jobs)
  BY LoadedTypes, JobTypes
<1>2. BootPlan(f) = (first \o <<Migrate>>) \o final
  BY DEF BootPlan
<1>3. first \o <<Migrate>> \in Seq(Jobs) /\ Len(first \o <<Migrate>>) = Len(first) + 1
  BY <1>1
<1> HIDE DEF first, final
<1>4. BootPlan(f) \in Seq(Jobs) /\ Len(BootPlan(f)) = Len(first) + 1 + Len(final)
  BY <1>1, <1>2, <1>3
<1>5. Len(BootPlan(f)) # 0
  BY <1>1, <1>4
<1> QED BY <1>4, <1>5

\* One call of a save or an undo leaves a well-formed flash.
LEMMA AppliedType ==
  ASSUME NEW f \in Flash, NEW call \in NvsCalls, call.op \in Keys
  PROVE  /\ [f EXCEPT ![call.op] = call.val] \in Flash
         /\ [f EXCEPT ![call.op] = call.val].cfg =
              IF call.op = "cfg" THEN call.val ELSE f.cfg
BY DEF Flash, NvsCalls, Keys

LEMMA CallTypes ==
  /\ Commit \in NvsCalls /\ Reopen \in NvsCalls
  /\ \A v \in Policies \cup {None, Damaged} : Set("cfg", v) \in NvsCalls
  /\ \A v \in Bands \cup {None} : Set("band", v) \in NvsCalls
  /\ \A v \in Owners \cup {None} : Set("owner", v) \in NvsCalls
  /\ \A v \in BOOLEAN : Set("single", v) \in NvsCalls
  /\ \A v \in {TRUE, None} : /\ Set("cache", v) \in NvsCalls /\ Set("rest", v) \in NvsCalls
                             /\ Set("legacy", v) \in NvsCalls
BY DEF Commit, Reopen, Set, NvsCalls

\* The entries of the longer lists of calls.
LEMMA FourCalls ==
  ASSUME NEW a \in NvsCalls, NEW b \in NvsCalls, NEW c \in NvsCalls, NEW d \in NvsCalls,
         NEW calls, calls = <<a, b, c, d>>
  PROVE  /\ calls \in Seq(NvsCalls) /\ Len(calls) = 4
         /\ calls[1] = a /\ calls[2] = b /\ calls[3] = c /\ calls[4] = d
         /\ \A i \in 1 .. 4 : i = 1 \/ i = 2 \/ i = 3 \/ i = 4
OBVIOUS

LEMMA FiveCalls ==
  ASSUME NEW a \in NvsCalls, NEW b \in NvsCalls, NEW c \in NvsCalls, NEW d \in NvsCalls,
         NEW e \in NvsCalls, NEW calls, calls = <<a, b, c, d, e>>
  PROVE  /\ calls \in Seq(NvsCalls) /\ Len(calls) = 5
         /\ calls[1] = a /\ calls[2] = b /\ calls[3] = c /\ calls[4] = d /\ calls[5] = e
         /\ \A i \in 1 .. 5 : i = 1 \/ i = 2 \/ i = 3 \/ i = 4 \/ i = 5
OBVIOUS

\* The save of a policy writes the record, no other save does.
LEMMA SaveCalls ==
  ASSUME NEW job \in Jobs, TypeOK
  PROVE  /\ WellFormed(Calls(job), Commit, job.val)
         /\ HasRecord(Calls(job)) <=> job.kind = "policy"
<1>1. CASE job.kind = "policy"
  <2>1. job.val \in Policies /\ job.val.band \in Bands /\ job.val.owner \in Owners
    BY <1>1 DEF Jobs, Policies
  <2> DEFINE record == Set("cfg", job.val)
             band   == Set("band", job.val.band)
             owner  == Set("owner", job.val.owner)
  <2>2. /\ record \in NvsCalls /\ record.op = "cfg" /\ record.val = job.val
        /\ band \in NvsCalls /\ band.op = "band" /\ owner \in NvsCalls /\ owner.op = "owner"
        /\ Commit \in NvsCalls /\ Commit.op = "commit"
    BY <2>1, CallTypes DEF Set, Commit
  <2>3. \/ Calls(job) = <<record, band, owner, Commit>>
        \/ Calls(job) = <<band, owner, record, Commit>>
    BY <1>1 DEF Calls, PolicyCalls
  <2> HIDE DEF record, band, owner
  <2>4. CASE Calls(job) = <<record, band, owner, Commit>>
    <3> DEFINE calls == Calls(job)
    <3>1. /\ calls \in Seq(NvsCalls) /\ Len(calls) = 4 /\ calls[1] = record /\ calls[2] = band
          /\ calls[3] = owner /\ calls[4] = Commit
      BY <2>2, <2>4, FourCalls
    <3> HIDE DEF calls
    <3>2. WellFormed(calls, Commit, job.val) /\ HasRecord(calls)
      BY <2>2, <3>1 DEF WellFormed, HasRecord
    <3> QED BY <1>1, <3>2 DEF calls
  <2>5. CASE Calls(job) = <<band, owner, record, Commit>>
    <3> DEFINE calls == Calls(job)
    <3>1. /\ calls \in Seq(NvsCalls) /\ Len(calls) = 4 /\ calls[1] = band /\ calls[2] = owner
          /\ calls[3] = record /\ calls[4] = Commit
      BY <2>2, <2>5, FourCalls
    <3> HIDE DEF calls
    <3>2. WellFormed(calls, Commit, job.val) /\ HasRecord(calls)
      BY <2>2, <3>1 DEF WellFormed, HasRecord
    <3> QED BY <1>1, <3>2 DEF calls
  <2> QED BY <2>3, <2>4, <2>5
<1>2. CASE job.kind = "rest"
  <2>1. Calls(job) = <<Set("rest", TRUE), Set("single", choice), Commit>>
    BY <1>2 DEF Calls
  <2>2. choice \in BOOLEAN
    BY DEF TypeOK
  <2> QED BY <1>2, <2>1, <2>2, CallTypes DEF WellFormed, HasRecord, Set, Commit
<1>3. CASE job.kind \in {"single", "cache", "migrate"}
  <2>1. \E call \in NvsCalls :
          Calls(job) = <<call, Commit>> /\ call.op \in {"single", "cache", "legacy"}
    BY <1>3, CallTypes DEF Calls, Jobs, Set
  <2> QED BY <1>3, <2>1, CallTypes DEF WellFormed, HasRecord, Commit
<1> QED BY <1>1, <1>2, <1>3 DEF Jobs

\* An undo puts the record back, when its own was attempted.
LEMMA UndoCallsType ==
  ASSUME NEW job \in Jobs, job.kind \in {"policy", "cache"}, NEW tried \in BOOLEAN, TypeOK,
         job.kind = "cache" => ~tried
  PROVE  /\ WellFormed(UndoCalls(job, tried), Reopen, before.cfg)
         /\ HasRecord(UndoCalls(job, tried)) <=> tried
<1>1. /\ before.cfg \in Policies \cup {None, Damaged} /\ before.cache \in {TRUE, None}
      /\ active.band \in Bands /\ active.owner \in Owners
  BY DEF TypeOK, Flash, Policies
<1>2. CASE job.kind = "cache"
  <2>1. UndoCalls(job, tried) = <<Set("cache", before.cache), Commit, Reopen>>
    BY <1>2 DEF UndoCalls
  <2> DEFINE restore == Set("cache", before.cache)
             calls   == UndoCalls(job, tried)
  <2>2. /\ restore \in NvsCalls /\ restore.op = "cache"
        /\ Commit \in NvsCalls /\ Commit.op = "commit"
        /\ Reopen \in NvsCalls /\ Reopen.op = "reopen" /\ Reopen # Commit
    BY <1>1, CallTypes DEF Set, Commit, Reopen
  <2> HIDE DEF restore, calls
  <2>3. /\ calls \in Seq(NvsCalls) /\ Len(calls) = 3
        /\ calls[1] = restore /\ calls[2] = Commit /\ calls[3] = Reopen
    BY <2>1, <2>2 DEF restore, calls
  <2>4. WellFormed(calls, Reopen, before.cfg) /\ ~HasRecord(calls)
    BY <2>2, <2>3 DEF WellFormed, HasRecord
  <2> QED BY <1>2, <2>4 DEF calls
<1>3. CASE job.kind = "policy"
  <2>1. /\ OldBand \in NvsCalls /\ OldBand.op = "band"
        /\ OldOwner \in NvsCalls /\ OldOwner.op = "owner"
    BY <1>1, CallTypes DEF OldBand, OldOwner, Set
  <2> DEFINE record == Set("cfg", before.cfg)
             calls  == UndoCalls(job, tried)
  <2>2. /\ record \in NvsCalls /\ record.op = "cfg" /\ record.val = before.cfg
        /\ Commit \in NvsCalls /\ Commit.op = "commit"
        /\ Reopen \in NvsCalls /\ Reopen.op = "reopen" /\ Reopen # Commit
    BY <1>1, CallTypes DEF Set, Commit, Reopen
  <2>3. CASE tried
    <3>1. calls = <<record, OldBand, OldOwner, Commit, Reopen>>
      BY <1>3, <2>3 DEF UndoCalls
    <3> HIDE DEF record, calls
    <3>2. /\ calls \in Seq(NvsCalls) /\ Len(calls) = 5 /\ calls[1] = record
          /\ calls[2] = OldBand /\ calls[3] = OldOwner /\ calls[4] = Commit /\ calls[5] = Reopen
      BY <2>1, <2>2, <3>1, FiveCalls
    <3>3. WellFormed(calls, Reopen, before.cfg) /\ HasRecord(calls)
      BY <2>1, <2>2, <3>2 DEF WellFormed, HasRecord
    <3> QED BY <2>3, <3>3 DEF calls
  <2>4. CASE ~tried
    <3>1. calls = <<OldBand, OldOwner, Commit, Reopen>>
      BY <1>3, <2>4 DEF UndoCalls
    <3> HIDE DEF record, calls
    <3>2. /\ calls \in Seq(NvsCalls) /\ Len(calls) = 4 /\ calls[1] = OldBand
          /\ calls[2] = OldOwner /\ calls[3] = Commit /\ calls[4] = Reopen
      BY <2>1, <2>2, <3>1, FourCalls
    <3>3. WellFormed(calls, Reopen, before.cfg) /\ ~HasRecord(calls)
      BY <2>1, <2>2, <3>2 DEF WellFormed, HasRecord
    <3> QED BY <2>4, <3>3 DEF calls
  <2> QED BY <2>3, <2>4
<1> QED BY <1>2, <1>3

\* What is left of a well-formed sequence of calls after one of them.
LEMMA AfterACall ==
  ASSUME NEW calls, NEW final, NEW value, WellFormed(calls, final, value), calls[1] # final
  PROVE  /\ WellFormed(Tail(calls), final, value) /\ Tail(calls) # <<>>
         /\ HasRecord(Tail(calls)) => HasRecord(calls)
         /\ HasRecord(calls) => calls[1].op = "cfg" \/ HasRecord(Tail(calls))
<1>1. calls \in Seq(NvsCalls) /\ Len(calls) \in Nat /\ Len(calls) > 1
  BY DEF WellFormed
<1> DEFINE rest == Tail(calls)
<1>2. /\ rest \in Seq(NvsCalls) /\ Len(rest) = Len(calls) - 1
      /\ \A i \in 1 .. Len(rest) : rest[i] = calls[i + 1]
  BY <1>1
<1> HIDE DEF rest
<1>3. rest # <<>> /\ rest[Len(rest)] = calls[Len(calls)]
  BY <1>1, <1>2
<1>4. \A i \in 1 .. Len(rest) - 1 : i + 1 \in 1 .. Len(calls) - 1 /\ rest[i] = calls[i + 1]
  BY <1>1, <1>2
<1>5. \A i \in 1 .. Len(rest) : i + 1 \in 1 .. Len(calls) /\ rest[i] = calls[i + 1]
  BY <1>1, <1>2
<1>6. WellFormed(rest, final, value)
  <2>1. Len(rest) > 0 /\ rest[Len(rest)] = final
    BY <1>1, <1>2, <1>3 DEF WellFormed
  <2>2. \A i \in 1 .. Len(rest) - 1 :
          rest[i].op # "reopen" /\ (final = Commit => rest[i].op # "commit")
    BY <1>4 DEF WellFormed
  <2>3. \A i \in 1 .. Len(rest) : rest[i].op = "cfg" => rest[i].val = value
    BY <1>5 DEF WellFormed
  <2> QED BY <1>2, <2>1, <2>2, <2>3 DEF WellFormed
<1>7. HasRecord(rest) => HasRecord(calls)
  BY <1>5 DEF HasRecord
<1>8. ASSUME NEW i \in 1 .. Len(calls), calls[i].op = "cfg", calls[1].op # "cfg"
      PROVE  HasRecord(rest)
  <2>1. i - 1 \in 1 .. Len(rest) /\ rest[i - 1] = calls[i]
    BY <1>1, <1>2, <1>8
  <2> QED BY <1>8, <2>1 DEF HasRecord
<1> QED BY <1>3, <1>6, <1>7, <1>8 DEF rest, HasRecord

LEMMA BlankType == Blank \in Flash /\ DefaultPolicy \in Policies
BY StoreAssumption DEF Blank, Flash, Keys, DefaultPolicy, Policies, Selections, Owners

\* The end of a job leaves an empty queue of calls and what is left of the plan.
LEMMA JobEnds ==
  ASSUME TypeOK, Queues, plan # <<>>, JobFails \/ JobDone
  PROVE  /\ todo' = <<>> /\ undoing' = FALSE /\ attempted' = FALSE /\ restored' = TRUE
         /\ before' = Blank
         /\ plan' \in Seq(Jobs) /\ running' \in {"none", running}
         /\ running' = "none" => plan' = <<>>
         /\ turn' \in {"none", "handed", "failed", turn}
         /\ wish' \in {FALSE, wish} /\ previous' \in {None, previous}
         /\ turn' = "failed" => previous' # None
         /\ JobFails /\ running # "boot" => plan' = <<>>
<1>1. Tail(plan) \in Seq(Jobs) /\ running # "none"
  BY DEF Queues
<1>2. turn = "failed" => previous # None
  BY DEF Queues
<1>3. ASSUME Returned(TRUE) \/ Returned(FALSE)
      PROVE  /\ turn' \in {"none", "handed", "failed", turn}
             /\ wish' \in {FALSE, wish} /\ previous' \in {None, previous}
             /\ turn' = "failed" => previous' # None
  <2>1. CASE /\ wish' = wish /\ previous' = previous
             /\ \/ turn' = "handed" \/ turn' = turn
                \/ turn' = "failed" /\ previous # None
    BY <1>2, <2>1
  <2>2. CASE turn' = "none" /\ wish' = FALSE /\ previous' = None
    BY <2>2
  <2> QED BY <1>3, <2>1, <2>2 DEF Returned
<1>4. CASE JobFails
  <2>1. CASE GoesOn
    <3>1. Begin("boot", Tail(plan)) /\ UNCHANGED turnVars /\ running = "boot"
      BY <1>4, <2>1 DEF JobFails, GoesOn
    <3>2. /\ running' = "boot" /\ plan' = Tail(plan) /\ todo' = <<>>
          /\ undoing' = FALSE /\ attempted' = FALSE /\ restored' = TRUE /\ before' = Blank
      BY <3>1 DEF Begin
    <3>3. turn' = turn /\ wish' = wish /\ previous' = previous
      BY <3>1 DEF turnVars
    <3> QED BY <1>1, <1>2, <3>1, <3>2, <3>3
  <2>2. CASE ~GoesOn
    <3>1. Begin("none", <<>>) /\ Returned(FALSE)
      BY <1>4, <2>2 DEF JobFails, Release
    <3>2. /\ running' = "none" /\ plan' = <<>> /\ todo' = <<>>
          /\ undoing' = FALSE /\ attempted' = FALSE /\ restored' = TRUE /\ before' = Blank
      BY <3>1 DEF Begin
    <3>3. /\ turn' \in {"none", "handed", "failed", turn}
          /\ wish' \in {FALSE, wish} /\ previous' \in {None, previous}
          /\ turn' = "failed" => previous' # None
      BY <1>3, <3>1
    <3>4. plan' \in Seq(Jobs)
      BY <3>2
    <3>5. running' \in {"none", running}
      BY <3>2
    <3> QED BY <3>2, <3>3, <3>4, <3>5
  <2> QED BY <2>1, <2>2
<1>5. CASE JobDone
  <2>1. CASE Len(plan) > 1
    <3>1. Begin(running, Tail(plan)) /\ UNCHANGED turnVars
      BY <1>5, <2>1 DEF JobDone
    <3>2. /\ running' = running /\ plan' = Tail(plan) /\ todo' = <<>>
          /\ undoing' = FALSE /\ attempted' = FALSE /\ restored' = TRUE /\ before' = Blank
      BY <3>1 DEF Begin
    <3>3. turn' = turn /\ wish' = wish /\ previous' = previous
      BY <3>1 DEF turnVars
    <3>4. JobFails /\ running # "boot" => plan' = <<>>
      BY DEF JobFails, Release, Begin, GoesOn
    <3> QED BY <1>1, <1>2, <3>2, <3>3, <3>4
  <2>2. CASE ~(Len(plan) > 1)
    <3>1. Begin("none", <<>>) /\ Returned(TRUE)
      BY <1>5, <2>2 DEF JobDone, Release
    <3>2. /\ running' = "none" /\ plan' = <<>> /\ todo' = <<>>
          /\ undoing' = FALSE /\ attempted' = FALSE /\ restored' = TRUE /\ before' = Blank
      BY <3>1 DEF Begin
    <3>3. /\ turn' \in {"none", "handed", "failed", turn}
          /\ wish' \in {FALSE, wish} /\ previous' \in {None, previous}
          /\ turn' = "failed" => previous' # None
      BY <1>3, <3>1
    <3>4. plan' \in Seq(Jobs)
      BY <3>2
    <3>5. running' \in {"none", running}
      BY <3>2
    <3> QED BY <3>2, <3>3, <3>4, <3>5
  <2> QED BY <2>1, <2>2
<1> QED BY <1>4, <1>5

-----------------------------------------------------------------------------
(* Type correctness, a group of variables at a time *)

FlashType == flash \in Flash /\ before \in Flash
DeviceType ==
  power \in {"off", "on", "erased"} /\ handle \in BOOLEAN /\ resetting \in BOOLEAN
StoreType ==
  /\ active \in Policies /\ available \in BOOLEAN /\ stored \in BOOLEAN
  /\ choice \in BOOLEAN /\ choiceStored \in BOOLEAN /\ bootSingle \in BOOLEAN
  /\ cached \in BOOLEAN
SaveType ==
  /\ running \in {"none", "boot", "save", "policy", "cache", "import", "handover",
                 "choice", "takeback"}
  /\ undoing \in BOOLEAN /\ attempted \in BOOLEAN /\ restored \in BOOLEAN
TurnType ==
  /\ turn \in {"none", "handing", "handed", "choosing", "failed", "takingBack"}
  /\ wish \in BOOLEAN /\ previous \in Policies \cup {None}
BoundType == losses \in 0 .. MaxLosses /\ failures \in 0 .. MaxFailures
HistoryType ==
  /\ born \in {"fresh", "upgrade"} /\ last \in Policies /\ attempt \in Policies \cup {None}
  /\ asked \in BOOLEAN /\ choiceFailed \in BOOLEAN /\ undoBroken \in BOOLEAN

LEMMA TypeOKParts ==
  TypeOK <=> FlashType /\ DeviceType /\ StoreType /\ SaveType /\ TurnType /\ BoundType
             /\ HistoryType
BY DEF TypeOK, FlashType, DeviceType, StoreType, SaveType, TurnType, BoundType, HistoryType

\* The calls of a save are well formed.
LEMMA CallsAreTyped ==
  ASSUME Queues, todo # <<>>
  PROVE  Call \in NvsCalls /\ Job \in Jobs /\ Len(todo) > 0
BY DEF Queues, Call, Job

LEMMA SavesAreBusy == CommitSave \/ CommitFails \/ Discard => todo # <<>>
<1>1. CASE CommitSave \/ CommitFails
  BY <1>1 DEF CommitSave, CommitFails
<1>2. CASE Discard
  BY <1>2 DEF Discard
<1> QED BY <1>1, <1>2

LEMMA TypeInit == Init => TypeOK
<1> SUFFICES ASSUME Init PROVE TypeOK
  OBVIOUS
<1>1. flash \in Flash /\ before \in Flash
  BY StoreAssumption, BlankType DEF Init, Idle
<1>2. LoadedPolicy(flash) \in Policies
  BY <1>1, LoadedTypes
<1>3. FlashType /\ DeviceType
  BY <1>1 DEF Init, FlashType, DeviceType
<1>4. StoreType
  BY BlankType DEF Init, StoreType
<1>5. SaveType
  BY DEF Init, Idle, SaveType
<1>6. TurnType
  BY DEF Init, TurnType
<1>7. BoundType
  BY StoreAssumption DEF Init, BoundType
<1>8. HistoryType
  BY <1>2 DEF Init, HistoryType
<1> QED BY <1>3, <1>4, <1>5, <1>6, <1>7, <1>8, TypeOKParts

LEMMA FlashStep ==
  ASSUME TypeOK, Queues, [Next]_vars
  PROVE  FlashType'
<1>1. flash \in Flash /\ before \in Flash
  BY TypeOKParts DEF FlashType
<1>2. ASSUME todo # <<>>, Call.op \in Keys PROVE Applied \in Flash
  BY <1>1, <1>2, CallsAreTyped, AppliedType DEF Applied
<1>3. CASE \/ Write \/ WriteFails
  <2>1. flash' \in {flash, Applied} /\ todo # <<>> /\ Call.op \in Keys /\ before' = before
    BY <1>3 DEF Write, WriteFails, GiveUp
  <2> QED BY <1>1, <1>2, <2>1 DEF FlashType
<1>4. CASE Erase
  BY <1>1, <1>4, BlankType DEF Erase, saveVars, FlashType
<1>5. CASE StartJob
  <2>1. plan # <<>> /\ flash' = flash
    BY <1>5 DEF StartJob
  <2>2. before' = flash \/ before' = Blank \/ JobFails \/ JobDone
    BY <1>5 DEF StartJob, Begin
  <2>3. JobFails \/ JobDone => before' = Blank
    BY <2>1, JobEnds
  <2> QED BY <1>1, <2>1, <2>2, <2>3, BlankType DEF FlashType
<1>6. CASE CommitSave \/ CommitFails \/ Discard
  <2>1. todo # <<>> /\ flash' = flash
    BY <1>6, SavesAreBusy DEF CommitSave, CommitFails, Discard
  <2>2. plan # <<>>
    BY <2>1 DEF Queues
  <2>3. before' = before \/ JobFails \/ JobDone
    BY <1>6 DEF CommitSave, CommitFails, Discard, GiveUp
  <2>4. JobFails \/ JobDone => before' = Blank
    BY <2>2, JobEnds
  <2> QED BY <1>1, <2>1, <2>3, <2>4, BlankType DEF FlashType
<1>7. CASE CommitUndo \/ BootUnopened \/ LatchReset \/ UNCHANGED vars
  BY <1>1, <1>7 DEF CommitUndo, BootUnopened, LatchReset, vars, saveVars, FlashType
<1>8. CASE \/ Boot \/ PowerLoss \/ Save \/ SavePolicy \/ SaveRanges \/ HandOver
           \/ StoreChoice \/ TakeBack
  <2>1. flash' = flash /\ before' = Blank
    BY <1>8 DEF Boot, PowerLoss, Save, SavePolicy, SaveRanges, HandOver, StoreChoice, TakeBack,
                Begin
  <2> QED BY <1>1, <2>1, BlankType DEF FlashType
<1>9. CASE \E single \in BOOLEAN : ChooseAutoSingle(single)
  <2>1. flash' = flash /\ (before' = Blank \/ before' = before)
    BY <1>9 DEF ChooseAutoSingle, Begin, saveVars
  <2> QED BY <1>1, <2>1, BlankType DEF FlashType
<1> QED BY <1>3, <1>4, <1>5, <1>6, <1>7, <1>8, <1>9 DEF Next

LEMMA DeviceStep ==
  ASSUME TypeOK, [Next]_vars
  PROVE  DeviceType'
<1>1. DeviceType
  BY TypeOKParts
<1>2. CASE Boot \/ BootUnopened \/ PowerLoss \/ LatchReset \/ Erase
  BY <1>1, <1>2 DEF Boot, BootUnopened, PowerLoss, LatchReset, Erase, DeviceType
<1>3. CASE Discard
  <2>1. handle' \in BOOLEAN /\ power' = power /\ resetting' = resetting
    BY <1>1, <1>3 DEF Discard, DeviceType
  <2> QED BY <1>1, <2>1 DEF DeviceType
<1>4. CASE UNCHANGED <<power, handle, resetting>>
  BY <1>1, <1>4 DEF DeviceType
<1>5. CASE StartJob \/ Write \/ WriteFails \/ CommitSave \/ CommitFails \/ CommitUndo
  BY <1>4, <1>5 DEF StartJob, Write, WriteFails, CommitSave, CommitFails, CommitUndo
<1>6. CASE \/ Save \/ SavePolicy \/ SaveRanges \/ HandOver \/ StoreChoice \/ TakeBack
           \/ UNCHANGED vars
  BY <1>4, <1>6 DEF Save, SavePolicy, SaveRanges, HandOver, StoreChoice, TakeBack, vars
<1>7. CASE \E single \in BOOLEAN : ChooseAutoSingle(single)
  BY <1>4, <1>7 DEF ChooseAutoSingle
<1> QED BY <1>2, <1>3, <1>5, <1>6, <1>7 DEF Next

LEMMA StoreStep ==
  ASSUME TypeOK, Queues, [Next]_vars
  PROVE  StoreType'
<1>1. StoreType /\ flash \in Flash
  BY TypeOKParts DEF FlashType
<1>2. CASE Boot
  BY <1>1, <1>2, LoadedTypes DEF Boot, StoreType
<1>3. CASE BootUnopened \/ PowerLoss
  BY <1>1, <1>3, BlankType DEF BootUnopened, PowerLoss, StoreType
<1>4. CASE CommitSave
  <2>1. Job \in Jobs
    BY <1>4, CallsAreTyped DEF CommitSave
  <2>2. /\ Job.kind = "single" => Job.val \in BOOLEAN
        /\ Job.kind = "policy" => Job.val \in Policies
    BY <2>1 DEF Jobs
  <2>3. \/ choice' = choice /\ choiceStored' = choiceStored
        \/ Job.kind = "single" /\ choice' = Job.val /\ choiceStored' = TRUE
    BY <1>4 DEF CommitSave, storeVars
  <2>4. \/ active' = active /\ available' = available /\ stored' = stored
        \/ Job.kind = "policy" /\ active' = Job.val /\ available' = TRUE /\ stored' = TRUE
    BY <1>4 DEF CommitSave, storeVars
  <2>5. bootSingle' = bootSingle /\ (cached' = cached \/ cached' \in BOOLEAN)
    BY <1>4 DEF CommitSave, storeVars
  <2> QED BY <1>1, <2>2, <2>3, <2>4, <2>5 DEF StoreType
<1>5. CASE Discard
  BY <1>1, <1>5 DEF Discard, StoreType
<1>6. CASE UNCHANGED storeVars
  BY <1>1, <1>6 DEF storeVars, StoreType
<1>7. CASE \/ StartJob \/ Write \/ WriteFails \/ CommitFails \/ CommitUndo \/ LatchReset
           \/ Erase
  BY <1>6, <1>7 DEF StartJob, Write, WriteFails, CommitFails, CommitUndo, LatchReset, Erase
<1>8. CASE \/ Save \/ SavePolicy \/ SaveRanges \/ HandOver \/ StoreChoice \/ TakeBack
           \/ UNCHANGED vars
  BY <1>6, <1>8 DEF Save, SavePolicy, SaveRanges, HandOver, StoreChoice, TakeBack, vars
<1>9. CASE \E single \in BOOLEAN : ChooseAutoSingle(single)
  BY <1>6, <1>9 DEF ChooseAutoSingle
<1> QED BY <1>2, <1>3, <1>4, <1>5, <1>7, <1>8, <1>9 DEF Next

LEMMA BoundStep ==
  ASSUME TypeOK, [Next]_vars
  PROVE  BoundType'
<1>1. BoundType /\ MaxLosses \in Nat /\ MaxFailures \in Nat
  BY TypeOKParts, StoreAssumption
<1>2. CASE PowerLoss
  BY <1>1, <1>2 DEF PowerLoss, BoundType
<1>3. CASE BootUnopened \/ WriteFails \/ CommitFails
  BY <1>1, <1>3 DEF BootUnopened, WriteFails, CommitFails, BoundType
<1>4. CASE Discard
  <2>1. losses' = losses
    BY <1>4 DEF Discard
  <2>2. CASE failures' = failures
    BY <1>1, <2>1, <2>2 DEF BoundType
  <2>3. CASE failures < MaxFailures /\ failures' = failures + 1
    BY <1>1, <2>1, <2>3 DEF BoundType
  <2> QED BY <1>4, <2>2, <2>3 DEF Discard
<1>5. CASE UNCHANGED boundVars
  BY <1>1, <1>5 DEF boundVars, BoundType
<1>6. CASE Boot \/ StartJob \/ Write \/ CommitSave \/ CommitUndo \/ LatchReset \/ Erase
  BY <1>5, <1>6 DEF Boot, StartJob, Write, CommitSave, CommitUndo, LatchReset, Erase
<1>7. CASE \/ Save \/ SavePolicy \/ SaveRanges \/ HandOver \/ StoreChoice \/ TakeBack
           \/ UNCHANGED vars
  BY <1>5, <1>7 DEF Save, SavePolicy, SaveRanges, HandOver, StoreChoice, TakeBack, vars
<1>8. CASE \E single \in BOOLEAN : ChooseAutoSingle(single)
  BY <1>5, <1>8 DEF ChooseAutoSingle
<1> QED BY <1>2, <1>3, <1>4, <1>6, <1>7, <1>8 DEF Next

LEMMA SaveStep ==
  ASSUME TypeOK, Queues, [Next]_vars
  PROVE  SaveType'
<1>1. SaveType
  BY TypeOKParts
<1>2. ASSUME NEW who \in {"none", "boot", "save", "policy", "cache", "import", "handover",
                          "choice", "takeback"},
             running' = who, undoing' = FALSE, attempted' = FALSE, restored' = TRUE
      PROVE  SaveType'
  BY <1>2 DEF SaveType
<1>3. CASE \/ Boot \/ PowerLoss \/ Save \/ SavePolicy \/ SaveRanges \/ HandOver
           \/ StoreChoice \/ TakeBack
  <2>1. /\ running' \in {"none", "boot", "save", "policy", "cache", "handover", "choice",
                           "takeback"}
        /\ undoing' = FALSE /\ attempted' = FALSE /\ restored' = TRUE
    BY <1>3 DEF Boot, PowerLoss, Save, SavePolicy, SaveRanges, HandOver, StoreChoice, TakeBack,
                Begin
  <2> QED BY <2>1 DEF SaveType
<1>4. ASSUME plan # <<>>, JobFails \/ JobDone PROVE SaveType'
  BY <1>1, <1>4, JobEnds DEF SaveType
<1>5. CASE StartJob
  <2>1. plan # <<>>
    BY <1>5 DEF StartJob
  <2>2. \/ JobFails \/ JobDone
        \/ UNCHANGED <<running, undoing, attempted, restored>>
        \/ running' = running /\ undoing' = FALSE /\ attempted' = FALSE /\ restored' = TRUE
    BY <1>5 DEF StartJob, Begin
  <2> QED BY <1>1, <1>4, <2>1, <2>2 DEF SaveType
<1>6. CASE CommitSave \/ CommitFails \/ Discard
  <2>1. plan # <<>>
    BY <1>6, SavesAreBusy DEF Queues
  <2>2. \/ JobFails \/ JobDone
        \/ /\ running' = running /\ undoing' \in {undoing, TRUE} /\ attempted' = attempted
           /\ restored' \in {restored, FALSE}
    BY <1>6 DEF CommitSave, CommitFails, Discard, GiveUp
  <2> QED BY <1>1, <1>4, <2>1, <2>2 DEF SaveType
<1>7. CASE Write \/ WriteFails
  <2>1. /\ running' = running /\ undoing' \in {undoing, TRUE} /\ attempted' \in BOOLEAN
        /\ restored' = restored \/ restored' \in BOOLEAN
    BY <1>7 DEF Write, WriteFails, GiveUp
  <2> QED BY <1>1, <2>1 DEF SaveType
<1>8. CASE UNCHANGED <<running, undoing, attempted, restored>>
  BY <1>1, <1>8 DEF SaveType
<1>9. CASE CommitUndo \/ BootUnopened \/ LatchReset \/ Erase \/ UNCHANGED vars
  BY <1>8, <1>9 DEF CommitUndo, BootUnopened, LatchReset, Erase, vars, saveVars
<1>10. CASE \E single \in BOOLEAN : ChooseAutoSingle(single)
  <2>1. \/ UNCHANGED saveVars
        \/ running' = "import" /\ undoing' = FALSE /\ attempted' = FALSE /\ restored' = TRUE
    BY <1>10 DEF ChooseAutoSingle, Begin
  <2> QED BY <1>8, <2>1 DEF saveVars, SaveType
<1> QED BY <1>3, <1>5, <1>6, <1>7, <1>9, <1>10 DEF Next

LEMMA TurnStep ==
  ASSUME TypeOK, Queues, [Next]_vars
  PROVE  TurnType'
<1>1. TurnType /\ active \in Policies
  BY TypeOKParts DEF StoreType
<1>2. CASE PowerLoss
  BY <1>2 DEF PowerLoss, TurnType
<1>3. CASE \E single \in BOOLEAN : ChooseAutoSingle(single)
  BY <1>1, <1>3 DEF ChooseAutoSingle, TurnType
<1>4. CASE StoreChoice \/ TakeBack
  BY <1>1, <1>4 DEF StoreChoice, TakeBack, TurnType
<1>5. ASSUME plan # <<>>, JobFails \/ JobDone PROVE TurnType'
  <2>1. /\ turn' \in {"none", "handed", "failed", turn} /\ wish' \in {FALSE, wish}
        /\ previous' \in {None, previous}
    BY <1>5, JobEnds
  <2> QED BY <1>1, <2>1 DEF TurnType
<1>6. CASE UNCHANGED turnVars
  BY <1>1, <1>6 DEF turnVars, TurnType
<1>7. CASE StartJob
  <2>1. plan # <<>>
    BY <1>7 DEF StartJob
  <2>2. JobFails \/ JobDone \/ UNCHANGED turnVars
    BY <1>7 DEF StartJob
  <2> QED BY <1>5, <1>6, <2>1, <2>2
<1>8. CASE CommitSave \/ CommitFails \/ Discard
  <2>1. todo # <<>>
    BY <1>8, SavesAreBusy
  <2>2. JobFails \/ JobDone \/ UNCHANGED turnVars
    BY <1>8 DEF CommitSave, CommitFails, Discard
  <2> QED BY <1>5, <1>6, <2>1, <2>2 DEF Queues
<1>9. CASE Boot \/ BootUnopened \/ Write \/ WriteFails \/ CommitUndo \/ LatchReset \/ Erase
  BY <1>6, <1>9 DEF Boot, BootUnopened, Write, WriteFails, CommitUndo, LatchReset, Erase
<1>10. CASE Save \/ SavePolicy \/ SaveRanges \/ HandOver \/ UNCHANGED vars
  BY <1>6, <1>10 DEF Save, SavePolicy, SaveRanges, HandOver, vars
<1> QED BY <1>2, <1>3, <1>4, <1>7, <1>8, <1>9, <1>10 DEF Next

LEMMA HistoryStep ==
  ASSUME TypeOK, Queues, [Next]_vars
  PROVE  HistoryType'
<1>1. HistoryType /\ flash \in Flash
  BY TypeOKParts DEF FlashType
<1>2. CASE Boot \/ Erase
  BY <1>1, <1>2, LoadedTypes, BlankType DEF Boot, Erase, HistoryType
<1>3. CASE StartJob
  <2>1. plan[1] \in Jobs
    BY <1>3 DEF StartJob, Queues
  <2>2. \/ attempt' = attempt
        \/ plan[1].kind = "policy" /\ attempt' = plan[1].val
    BY <1>3 DEF StartJob, Job
  <2>3. UNCHANGED <<born, last, asked, choiceFailed, undoBroken>>
    BY <1>3 DEF StartJob
  <2> QED BY <1>1, <2>1, <2>2, <2>3 DEF HistoryType, Jobs
<1>4. CASE CommitSave
  <2>1. Job \in Jobs
    BY <1>4, CallsAreTyped DEF CommitSave
  <2>2. /\ \/ last' = last /\ attempt' = attempt
           \/ Job.kind = "policy" /\ last' = Job.val /\ attempt' = None
        /\ UNCHANGED <<born, asked, choiceFailed, undoBroken>>
    BY <1>4 DEF CommitSave
  <2> QED BY <1>1, <2>1, <2>2 DEF HistoryType, Jobs
<1>5. CASE PowerLoss \/ WriteFails \/ CommitFails
  <2>1. /\ undoBroken' \in BOOLEAN
        /\ UNCHANGED <<born, last, attempt, asked, choiceFailed>>
    BY <1>5 DEF PowerLoss, WriteFails, CommitFails
  <2> QED BY <1>1, <2>1 DEF HistoryType
<1>6. CASE Discard
  <2>1. /\ attempt' \in {attempt, None} /\ choiceFailed' \in BOOLEAN
        /\ UNCHANGED <<born, last, asked, undoBroken>>
    BY <1>6 DEF Discard
  <2> QED BY <1>1, <2>1 DEF HistoryType
<1>7. CASE \E single \in BOOLEAN : ChooseAutoSingle(single)
  BY <1>1, <1>7 DEF ChooseAutoSingle, HistoryType
<1>8. CASE UNCHANGED historyVars
  BY <1>1, <1>8 DEF historyVars, HistoryType
<1>9. CASE BootUnopened \/ Write \/ CommitUndo \/ LatchReset \/ UNCHANGED vars
  BY <1>8, <1>9 DEF BootUnopened, Write, CommitUndo, LatchReset, vars
<1>10. CASE Save \/ SavePolicy \/ SaveRanges \/ HandOver \/ StoreChoice \/ TakeBack
  BY <1>8, <1>10 DEF Save, SavePolicy, SaveRanges, HandOver, StoreChoice, TakeBack
<1> QED BY <1>2, <1>3, <1>4, <1>5, <1>6, <1>7, <1>9, <1>10 DEF Next

LEMMA TypeStep == TypeOK /\ Queues /\ [Next]_vars => TypeOK'
<1> SUFFICES ASSUME TypeOK, Queues, [Next]_vars PROVE TypeOK'
  OBVIOUS
<1>1. FlashType' /\ DeviceType' /\ StoreType' /\ SaveType' /\ TurnType' /\ BoundType'
      /\ HistoryType'
  BY FlashStep, DeviceStep, StoreStep, SaveStep, TurnStep, BoundStep, HistoryStep
<1> QED
  BY <1>1 DEF TypeOK, FlashType, DeviceType, StoreType, SaveType, TurnType, BoundType,
              HistoryType

-----------------------------------------------------------------------------
(* The calls of a save *)

Final == IF undoing THEN Reopen ELSE Commit
Value == IF undoing THEN before.cfg ELSE plan[1].val

\* A step inside a save: the next call is made, or the save turns into an undo.
TakesCall == todo' = Tail(todo) /\ undoing' = undoing /\ Call # Final
TurnsBack == ~undoing /\ Job.kind # "migrate" /\ GiveUp(attempted')
Continues ==
  /\ todo # <<>> /\ plan' = plan /\ before' = before /\ running' = running
  /\ TakesCall \/ TurnsBack

LEMMA Ops == Commit.op = "commit" /\ Reopen.op = "reopen" /\ Commit # Reopen
             /\ Commit.op \notin Keys /\ Reopen.op \notin Keys
BY DEF Commit, Reopen, Keys

LEMMA WriteContinues == Write => Continues
<1> SUFFICES ASSUME Write PROVE Continues
  OBVIOUS
<1>1. todo # <<>> /\ Call.op \in Keys
  BY DEF Write
<1>2. Call # Final
  BY <1>1, Ops DEF Final
<1>3. CASE Asks /\ resetting
  <2>1. GiveUp(attempted')
    BY <1>3 DEF Write
  <2>2. ~undoing /\ Job.kind # "migrate"
    BY <1>1, <1>3, Ops DEF Asks, Checked, Keys
  <2> QED BY <1>1, <2>1, <2>2 DEF Continues, TurnsBack, GiveUp
<1>4. CASE ~(Asks /\ resetting)
  BY <1>1, <1>2, <1>4 DEF Write, Continues, TakesCall
<1> QED BY <1>3, <1>4

LEMMA WriteFailsContinues == WriteFails => Continues
<1> SUFFICES ASSUME WriteFails PROVE Continues
  OBVIOUS
<1>1. todo # <<>> /\ Call.op \in Keys
  BY DEF WriteFails
<1>2. Call # Final
  BY <1>1, Ops DEF Final
<1>3. CASE ~undoing /\ Checked
  <2>1. GiveUp(attempted')
    BY <1>3 DEF WriteFails
  <2> QED BY <1>1, <1>3, <2>1 DEF Continues, TurnsBack, GiveUp, Checked
<1>4. CASE undoing \/ ~Checked
  BY <1>1, <1>2, <1>4 DEF WriteFails, Continues, TakesCall
<1> QED BY <1>3, <1>4

LEMMA CommitUndoContinues == CommitUndo => Continues
BY Ops DEF CommitUndo, Continues, TakesCall, Final

LEMMA CommitFailsContinues ==
  CommitFails => Continues \/ (JobDone /\ Job.kind = "migrate" /\ todo # <<>>)
<1> SUFFICES ASSUME CommitFails
             PROVE  Continues \/ (JobDone /\ Job.kind = "migrate" /\ todo # <<>>)
  OBVIOUS
<1>1. todo # <<>> /\ Call = Commit
  BY DEF CommitFails
<1>2. CASE undoing
  BY <1>1, <1>2, Ops DEF CommitFails, Continues, TakesCall, Final
<1>3. CASE ~undoing /\ Job.kind = "migrate"
  BY <1>1, <1>3 DEF CommitFails
<1>4. CASE ~undoing /\ Job.kind # "migrate"
  <2>1. GiveUp(attempted) /\ attempted' = attempted
    BY <1>4 DEF CommitFails
  <2> QED BY <1>1, <1>4, <2>1 DEF Continues, TurnsBack, GiveUp
<1> QED BY <1>2, <1>3, <1>4

LEMMA CommitSaveContinues ==
  CommitSave => Continues \/ (JobDone /\ Call = Commit /\ ~undoing /\ todo # <<>>)
<1> SUFFICES ASSUME CommitSave
             PROVE  Continues \/ (JobDone /\ Call = Commit /\ ~undoing /\ todo # <<>>)
  OBVIOUS
<1>1. todo # <<>> /\ Call = Commit /\ ~undoing
  BY DEF CommitSave
<1>2. CASE Asks /\ resetting
  <2>1. GiveUp(attempted) /\ attempted' = attempted
    BY <1>2 DEF CommitSave
  <2>2. Job.kind # "migrate"
    BY <1>1, <1>2, Ops DEF Asks, Checked
  <2> QED BY <1>1, <2>1, <2>2 DEF Continues, TurnsBack, GiveUp
<1>3. CASE ~(Asks /\ resetting)
  BY <1>1, <1>3 DEF CommitSave
<1> QED BY <1>2, <1>3

\* What the queue of calls is after such a step.
LEMMA CallTaken ==
  ASSUME InHand, Continues, TakesCall
  PROVE  /\ todo' # <<>> /\ InHand'
         /\ HasRecord(todo') => HasRecord(todo)
         /\ HasRecord(todo) => Call.op = "cfg" \/ HasRecord(todo')
<1>1. todo # <<>> /\ plan' = plan /\ before' = before /\ todo' = Tail(todo) /\ undoing' = undoing
  BY DEF Continues, TakesCall
<1>2. WellFormed(todo, Final, Value) /\ (HasRecord(todo) => plan[1].kind = "policy")
  BY <1>1 DEF InHand, Final, Value, Saving
<1>3. todo[1] # Final
  BY DEF TakesCall, Call
<1>4. /\ WellFormed(Tail(todo), Final, Value) /\ Tail(todo) # <<>>
      /\ HasRecord(Tail(todo)) => HasRecord(todo)
      /\ HasRecord(todo) => todo[1].op = "cfg" \/ HasRecord(Tail(todo))
  BY <1>2, <1>3, AfterACall
<1>5. Final' = Final /\ Value' = Value
  BY <1>1 DEF Final, Value
<1>6. WellFormed(todo', Final', Value')
  BY <1>1, <1>4, <1>5
<1>7. InHand'
  BY <1>1, <1>2, <1>4, <1>6 DEF InHand, Final, Value, Saving
<1> QED BY <1>1, <1>4, <1>7 DEF Call

LEMMA TurnedBack ==
  ASSUME TypeOK, Queues, Continues, TurnsBack, attempted' \in BOOLEAN,
         attempted' => Job.kind = "policy"
  PROVE  /\ todo' # <<>> /\ undoing' /\ restored' = restored /\ InHand'
         /\ HasRecord(todo') => attempted'
         /\ attempted' /\ ~resetting => HasRecord(todo')
<1>1. /\ todo # <<>> /\ plan' = plan /\ before' = before /\ ~undoing /\ Job.kind # "migrate"
      /\ GiveUp(attempted')
  BY DEF Continues, TurnsBack
<1>2. undoing' = TRUE /\ restored' = restored /\ Job \in Jobs
  BY <1>1, CallsAreTyped DEF GiveUp
<1>3. CASE Job.kind \in {"single", "rest"} \/ resetting
  <2>1. todo' = <<Reopen>>
    BY <1>1, <1>3 DEF GiveUp
  <2>2. todo' \in Seq(NvsCalls) /\ Len(todo') = 1 /\ todo'[1] = Reopen
    BY <2>1, CallTypes
  <2>3. WellFormed(todo', Reopen, before.cfg) /\ ~HasRecord(todo')
    BY <2>2, Ops DEF WellFormed, HasRecord
  <2>4. todo' # <<>>
    BY <2>2
  <2>5. InHand'
    BY <1>1, <1>2, <2>3 DEF InHand
  <2> QED BY <1>2, <1>3, <2>3, <2>4, <2>5
<1>4. CASE Job.kind \notin {"single", "rest"} /\ ~resetting
  <2>1. todo' = UndoCalls(Job, attempted') /\ Job.kind \in {"policy", "cache"}
    BY <1>1, <1>2, <1>4 DEF GiveUp, Jobs
  <2>2. /\ WellFormed(todo', Reopen, before.cfg)
        /\ HasRecord(todo') <=> attempted'
    BY <1>2, <2>1, UndoCallsType
  <2>3. todo' # <<>>
    BY <2>2 DEF WellFormed
  <2>4. InHand'
    BY <1>1, <1>2, <2>2, <2>3 DEF InHand, Saving, Job
  <2> QED BY <1>2, <2>2, <2>3, <2>4
<1> QED BY <1>3, <1>4

LEMMA JobDoneShortens ==
  ASSUME plan \in Seq(Jobs), plan # <<>>, JobDone
  PROVE  plan' # plan
<1>1. plan' = <<>> \/ plan' = Tail(plan)
  BY DEF JobDone, Release, Begin
<1>2. Len(Tail(plan)) = Len(plan) - 1 /\ Len(plan) \in Nat
  <2>1. Len(plan) \in Nat
    OBVIOUS
  <2>2. Len(Tail(plan)) = Len(plan) - 1
    BY HeadTailProperties
  <2> QED BY <2>1, <2>2
<1>3. \A n \in Nat : n - 1 # n
  OBVIOUS
<1>4. Tail(plan) # plan
  BY <1>2, <1>3, Zenon
<1> QED BY <1>1, <1>4

\* The steps inside a save, and what they do to the rest.
InsideASave ==
  /\ Write \/ WriteFails \/ CommitUndo \/ CommitSave \/ CommitFails
  /\ Continues

LEMMA InsideAttempted ==
  ASSUME TypeOK, Queues, InHand, InsideASave
  PROVE  /\ attempted' \in BOOLEAN /\ (attempted' => Saving) /\ (attempted => attempted')
         /\ UNCHANGED turnVars
         /\ attempted' => attempted \/ (Call.op = "cfg" /\ ~undoing)
<1>1. todo # <<>> /\ attempted \in BOOLEAN /\ (attempted => Saving)
  BY TypeOKParts DEF InsideASave, Continues, SaveType, Queues
<1>2. Call.op = "cfg" => Saving
  BY <1>1 DEF InHand, HasRecord, WellFormed, Call
<1>3. \/ attempted' = attempted
      \/ attempted' = (attempted \/ (Call.op = "cfg" /\ ~undoing))
  <2>1. CASE Write
    BY <2>1 DEF Write
  <2>2. CASE WriteFails
    BY <2>2 DEF WriteFails
  <2>3. CASE CommitUndo
    BY <2>3 DEF CommitUndo
  <2>4. CASE CommitSave \/ CommitFails
    <3>1. ~JobDone
      BY <1>1, JobDoneShortens DEF InsideASave, Continues, Queues
    <3> QED BY <2>4, <3>1 DEF CommitSave, CommitFails
  <2> QED BY <2>1, <2>2, <2>3, <2>4 DEF InsideASave
<1>4. UNCHANGED turnVars
  <2>1. CASE Write \/ WriteFails \/ CommitUndo
    BY <2>1 DEF Write, WriteFails, CommitUndo
  <2>2. CASE CommitSave \/ CommitFails
    <3>1. ~JobDone
      BY <1>1, JobDoneShortens DEF InsideASave, Continues, Queues
    <3> QED BY <2>2, <3>1 DEF CommitSave, CommitFails
  <2> QED BY <2>1, <2>2 DEF InsideASave
<1>5. CASE attempted' = attempted
  BY <1>1, <1>4, <1>5
<1>6. CASE attempted' = (attempted \/ (Call.op = "cfg" /\ ~undoing))
  <2>1. attempted' \in BOOLEAN
    BY <1>6
  <2>2. attempted' <=> attempted \/ (Call.op = "cfg" /\ ~undoing)
    BY <1>6
  <2> QED BY <1>1, <1>2, <1>4, <2>1, <2>2
<1> QED BY <1>3, <1>5, <1>6

\* What holds after a step inside a save.
LEMMA InsideStep ==
  ASSUME TypeOK, Queues, InHand, InsideASave
  PROVE  /\ Queues' /\ InHand' /\ todo' # <<>> /\ plan' = plan /\ before' = before
         /\ Saving' <=> Saving
<1>1. /\ todo # <<>> /\ plan' = plan /\ before' = before /\ running' = running
      /\ TakesCall \/ TurnsBack
  BY DEF InsideASave, Continues
<1>2. /\ attempted' \in BOOLEAN /\ (attempted' => Saving)
      /\ turn' = turn /\ previous' = previous
  BY InsideAttempted DEF turnVars
<1>3. todo' # <<>> /\ InHand'
  <2>1. CASE TakesCall
    BY <2>1, CallTaken DEF InsideASave
  <2>2. CASE TurnsBack
    <3>1. attempted' => Job.kind = "policy"
      BY <1>2 DEF Saving, Job
    <3> QED BY <1>2, <2>2, <3>1, TurnedBack DEF InsideASave
  <2> QED BY <1>1, <2>1, <2>2
<1>4. Saving' <=> Saving
  BY <1>1, <1>3 DEF Saving
<1>5. todo' \in Seq(NvsCalls)
  BY <1>3 DEF InHand, WellFormed
<1>6. Queues'
  BY <1>1, <1>2, <1>3, <1>4, <1>5 DEF Queues
<1> QED BY <1>1, <1>3, <1>4, <1>6

\* What holds when no call is left.
LEMMA NothingInHand ==
  ASSUME todo' = <<>>
  PROVE  InHand' /\ RecordInFlash' /\ ~Saving'
BY DEF InHand, RecordInFlash, Saving

LEMMA BegunQueues ==
  ASSUME todo' = <<>>, undoing' = FALSE, attempted' = FALSE, plan' \in Seq(Jobs),
         running' = "none" => plan' = <<>>, turn' = "failed" => previous' # None
  PROVE  Queues'
<1>1. todo' \in Seq(NvsCalls)
  OBVIOUS
<1> QED BY <1>1 DEF Queues

LEMMA EndedQueues ==
  ASSUME TypeOK, Queues, plan # <<>>, JobFails \/ JobDone
  PROVE  Queues' /\ todo' = <<>>
<1>1. /\ todo' = <<>> /\ undoing' = FALSE /\ attempted' = FALSE
      /\ plan' \in Seq(Jobs)
      /\ running' = "none" => plan' = <<>>
      /\ turn' = "failed" => previous' # None
  BY JobEnds
<1> QED BY <1>1, BegunQueues

\* StartJob makes way for the choice or the initial policy, ends the job, or
\* makes its list of calls.
LEMMA StartQueues ==
  ASSUME TypeOK, Queues, StartJob
  PROVE  /\ Queues'
         /\ \/ todo' = <<>>
            \/ /\ todo' = Calls(plan[1]) /\ before' = flash /\ plan' = plan
               /\ UNCHANGED <<undoing, attempted, restored>> /\ ~undoing /\ ~attempted
               /\ Writable \/ plan[1].kind \in {"rest", "migrate"}
<1>1. /\ plan # <<>> /\ todo = <<>> /\ plan \in Seq(Jobs) /\ plan[1] \in Jobs
      /\ running # "none" /\ ~undoing /\ ~attempted
      /\ turn = "failed" => previous # None
  BY DEF StartJob, Queues, Saving
<1>2. active \in Policies /\ choice \in BOOLEAN /\ attempted \in BOOLEAN /\ undoing \in BOOLEAN
  BY TypeOKParts DEF StoreType, SaveType
<1>3. CASE JobFails \/ JobDone
  BY <1>1, <1>3, EndedQueues
<1>4. ASSUME NEW job \in Jobs, Begin(running, <<job>> \o plan), UNCHANGED turnVars
      PROVE  Queues' /\ todo' = <<>>
  <2>1. <<job>> \o plan \in Seq(Jobs)
    BY <1>1
  <2>2. /\ running' = running /\ plan' = <<job>> \o plan /\ todo' = <<>> /\ undoing' = FALSE
        /\ attempted' = FALSE /\ turn' = turn /\ previous' = previous
    BY <1>4 DEF Begin, turnVars
  <2> QED BY <1>1, <2>1, <2>2, BegunQueues
<1>5. CASE Begin(running, <<Single(choice)>> \o plan) /\ UNCHANGED turnVars
  BY <1>2, <1>4, <1>5, JobTypes
<1>6. CASE Begin(running, <<Policy(active)>> \o plan) /\ UNCHANGED turnVars
  BY <1>2, <1>4, <1>6, JobTypes
<1>7. CASE /\ todo' = Calls(plan[1]) /\ before' = flash
           /\ UNCHANGED <<running, plan, undoing, attempted, restored, turnVars>>
           /\ Writable \/ plan[1].kind \in {"rest", "migrate"}
  <2>1. todo' \in Seq(NvsCalls)
    BY <1>1, <1>7, SaveCalls DEF WellFormed
  <2>2. /\ plan' = plan /\ running' = running /\ undoing' = undoing /\ attempted' = attempted
        /\ turn' = turn /\ previous' = previous
    BY <1>7 DEF turnVars
  <2>3. Queues'
    BY <1>1, <2>1, <2>2 DEF Queues
  <2> QED BY <1>1, <1>7, <2>3
<1>8. \/ JobFails \/ JobDone
      \/ Begin(running, <<Single(choice)>> \o plan) /\ UNCHANGED turnVars
      \/ Begin(running, <<Policy(active)>> \o plan) /\ UNCHANGED turnVars
      \/ /\ todo' = Calls(plan[1]) /\ before' = flash
         /\ UNCHANGED <<running, plan, undoing, attempted, restored, turnVars>>
         /\ Writable \/ plan[1].kind \in {"rest", "migrate"}
  BY DEF StartJob, Job, Checked
<1> QED BY <1>3, <1>5, <1>6, <1>7, <1>8

-----------------------------------------------------------------------------
(* The invariant: the queues *)

\* Between saves the callers, a boot and a power loss set the plan.
LEMMA CallerQueues ==
  ASSUME TypeOK, Queues,
         \/ Boot \/ PowerLoss \/ Save \/ SavePolicy \/ SaveRanges \/ HandOver
         \/ StoreChoice \/ TakeBack
         \/ \E single \in BOOLEAN : ChooseAutoSingle(single) /\ ~UNCHANGED saveVars
  PROVE  Queues' /\ todo' = <<>>
<1>1. /\ flash \in Flash /\ active \in Policies /\ wish \in BOOLEAN
      /\ previous \in Policies \cup {None}
      /\ turn = "failed" => previous # None
  BY TypeOKParts DEF FlashType, StoreType, TurnType, Queues
<1>2. ASSUME NEW who, who # "none", NEW jobs \in Seq(Jobs), Begin(who, jobs),
             turn' = "failed" => previous' # None
      PROVE  Queues' /\ todo' = <<>>
  <2>1. /\ running' = who /\ plan' = jobs /\ todo' = <<>> /\ undoing' = FALSE
        /\ attempted' = FALSE
    BY <1>2 DEF Begin
  <2> QED BY <1>2, <2>1, BegunQueues
<1>3. CASE Boot
  <2>1. BootPlan(flash) \in Seq(Jobs)
    BY <1>1, BootPlanType
  <2>2. Begin("boot", BootPlan(flash)) /\ turn' = turn /\ previous' = previous
    BY <1>3 DEF Boot, turnVars
  <2> QED BY <1>1, <1>2, <2>1, <2>2
<1>4. CASE PowerLoss
  <2>1. /\ plan' = <<>> /\ todo' = <<>> /\ undoing' = FALSE /\ attempted' = FALSE
        /\ turn' = "none"
    BY <1>4 DEF PowerLoss, Begin
  <2>2. plan' \in Seq(Jobs)
    BY <2>1
  <2> QED BY <2>1, <2>2, BegunQueues
<1>5. CASE Save
  <2> DEFINE jobs == (IF available THEN <<Policy(active)>> ELSE <<>>) \o <<Rest>>
  <2>1. jobs \in Seq(Jobs)
    BY <1>1, JobTypes
  <2>2. Begin("save", jobs) /\ turn' = turn /\ previous' = previous
    BY <1>5 DEF Save, turnVars
  <2> QED BY <1>1, <1>2, <2>1, <2>2
<1>6. CASE SavePolicy
  <2>1. PICK next \in Edits : Begin("policy", <<Policy(next)>>)
    BY <1>6 DEF SavePolicy
  <2>2. next \in Policies
    BY DEF Edits
  <2>3. <<Policy(next)>> \in Seq(Jobs)
    BY <2>2, JobTypes
  <2>4. turn' = turn /\ previous' = previous
    BY <1>6 DEF SavePolicy, turnVars
  <2> QED BY <1>1, <1>2, <2>1, <2>3, <2>4
<1>7. CASE SaveRanges
  <2>1. Begin("cache", <<Cache>>) /\ turn' = turn /\ previous' = previous
    BY <1>7 DEF SaveRanges, turnVars
  <2>2. <<Cache>> \in Seq(Jobs)
    BY JobTypes
  <2> QED BY <1>1, <1>2, <2>1, <2>2
<1>8. CASE StoreChoice
  <2>1. Begin("choice", <<Single(wish)>>) /\ turn' = "choosing"
    BY <1>8 DEF StoreChoice
  <2>2. <<Single(wish)>> \in Seq(Jobs)
    BY <1>1, JobTypes
  <2> QED BY <1>2, <2>1, <2>2
<1>9. CASE TakeBack
  <2>1. Begin("takeback", <<Policy(previous)>>) /\ turn' = "takingBack" /\ previous \in Policies
    BY <1>1, <1>9 DEF TakeBack
  <2>2. <<Policy(previous)>> \in Seq(Jobs)
    BY <2>1, JobTypes
  <2> QED BY <1>2, <2>1, <2>2
<1>10. ASSUME NEW single \in BOOLEAN, ChooseAutoSingle(single), ~UNCHANGED saveVars
       PROVE  Queues' /\ todo' = <<>>
  <2>1. PICK b \in Bands :
          Begin("import", <<Policy([active EXCEPT !.band = b, !.owner = "unit"])>>)
    BY <1>10 DEF ChooseAutoSingle
  <2>2. [active EXCEPT !.band = b, !.owner = "unit"] \in Policies
    BY <1>1 DEF Policies, Owners
  <2>3. <<Policy([active EXCEPT !.band = b, !.owner = "unit"])>> \in Seq(Jobs)
    BY <2>2, JobTypes
  <2>4. turn' = "handing"
    BY <1>10 DEF ChooseAutoSingle
  <2> QED BY <1>2, <2>1, <2>3, <2>4
<1>11. CASE HandOver
  <2>1. /\ Begin("handover", <<Policy([active EXCEPT !.owner = "unit"])>>)
        /\ turn' = turn /\ previous' = previous
    BY <1>11 DEF HandOver, turnVars
  <2>2. [active EXCEPT !.owner = "unit"] \in Policies
    BY <1>1 DEF Policies, Owners
  <2>3. <<Policy([active EXCEPT !.owner = "unit"])>> \in Seq(Jobs)
    BY <2>2, JobTypes
  <2> QED BY <1>1, <1>2, <2>1, <2>3
<1> QED BY <1>3, <1>4, <1>5, <1>6, <1>7, <1>8, <1>9, <1>10, <1>11

\* The other steps leave the save alone.
Aside ==
  \/ BootUnopened \/ LatchReset \/ Erase \/ UNCHANGED vars
  \/ \E single \in BOOLEAN : ChooseAutoSingle(single) /\ UNCHANGED saveVars

LEMMA AsideQueues ==
  ASSUME Queues, Aside
  PROVE  Queues' /\ UNCHANGED saveVars
<1>1. UNCHANGED saveVars
  BY DEF Aside, BootUnopened, LatchReset, Erase, vars, ChooseAutoSingle
<1>2. turn' = "failed" => turn' = turn /\ previous' = previous
  BY DEF Aside, BootUnopened, LatchReset, Erase, vars, turnVars, ChooseAutoSingle
<1> QED BY <1>1, <1>2 DEF Queues, saveVars, Saving

\* Every step is one inside a save, begins or ends one, or leaves it alone.
LEMMA StepKinds ==
  ASSUME TypeOK, Queues, InHand, [Next]_vars
  PROVE  \/ InsideASave
         \/ CommitSave /\ JobDone /\ Call = Commit /\ ~undoing
         \/ CommitFails /\ JobDone /\ Job.kind = "migrate"
         \/ Discard \/ StartJob
         \/ Boot \/ PowerLoss \/ Save \/ SavePolicy \/ SaveRanges \/ HandOver
         \/ StoreChoice \/ TakeBack
         \/ \E single \in BOOLEAN : ChooseAutoSingle(single) /\ ~UNCHANGED saveVars
         \/ Aside
<1>1. CASE Write \/ WriteFails \/ CommitUndo
  BY <1>1, WriteContinues, WriteFailsContinues, CommitUndoContinues DEF InsideASave
<1>2. CASE CommitSave
  BY <1>2, CommitSaveContinues DEF InsideASave
<1>3. CASE CommitFails
  BY <1>3, CommitFailsContinues DEF InsideASave
<1>4. CASE \E single \in BOOLEAN : ChooseAutoSingle(single)
  BY <1>4 DEF Aside
<1> QED BY <1>1, <1>2, <1>3, <1>4 DEF Next, Aside

LEMMA QueuesStep ==
  ASSUME TypeOK, Queues, InHand, [Next]_vars
  PROVE  Queues'
<1>1. CASE InsideASave
  BY <1>1, InsideStep
<1>2. CASE (CommitSave \/ CommitFails) /\ JobDone
  BY <1>2, SavesAreBusy, EndedQueues DEF Queues
<1>3. CASE Discard
  <2>1. JobFails /\ plan # <<>>
    BY <1>3, SavesAreBusy DEF Discard, Queues
  <2> QED BY <2>1, EndedQueues
<1>4. CASE StartJob
  BY <1>4, StartQueues
<1>5. CASE Aside
  BY <1>5, AsideQueues
<1> QED BY <1>1, <1>2, <1>3, <1>4, <1>5, StepKinds, CallerQueues

LEMMA InHandStep ==
  ASSUME TypeOK, Queues, InHand, [Next]_vars
  PROVE  InHand'
<1>1. CASE InsideASave
  BY <1>1, InsideStep
<1>2. CASE (CommitSave \/ CommitFails) /\ JobDone
  BY <1>2, SavesAreBusy, EndedQueues, NothingInHand DEF Queues
<1>3. CASE Discard
  <2>1. JobFails /\ plan # <<>>
    BY <1>3, SavesAreBusy DEF Discard, Queues
  <2> QED BY <2>1, EndedQueues, NothingInHand
<1>4. CASE StartJob
  <2>1. CASE todo' = <<>>
    BY <2>1, NothingInHand
  <2>2. CASE todo' # <<>>
    <3>1. /\ todo' = Calls(plan[1]) /\ plan' = plan /\ undoing' = undoing /\ ~undoing
      BY <1>4, <2>2, StartQueues
    <3>2. plan[1] \in Jobs
      BY <1>4 DEF StartJob, Queues
    <3>3. /\ WellFormed(todo', Commit, plan[1].val)
          /\ HasRecord(todo') <=> plan[1].kind = "policy"
      BY <3>1, <3>2, SaveCalls
    <3> QED BY <2>2, <3>1, <3>3 DEF InHand, Saving
  <2> QED BY <2>1, <2>2
<1>5. CASE Aside
  <2>1. UNCHANGED saveVars
    BY <1>5, AsideQueues
  <2> QED BY <2>1 DEF InHand, Saving, saveVars
<1> QED BY <1>1, <1>2, <1>3, <1>4, <1>5, StepKinds, CallerQueues, NothingInHand

-----------------------------------------------------------------------------
(* The invariant: the record in flash *)

\* What a step inside a save does to the record, and what it remembers of it.
LEMMA InsideFlash ==
  ASSUME TypeOK, Queues, InHand, InsideASave
  PROVE  /\ flash'.cfg = flash.cfg \/ (Call.op = "cfg" /\ flash'.cfg = Call.val)
         /\ Call.op = "cfg" /\ Saving /\ TakesCall =>
              flash'.cfg = Call.val \/ (undoing /\ ~restored')
         /\ Call.op = "cfg" /\ ~undoing => attempted'
         /\ restored' => restored
         /\ resetting' = resetting
<1>1. /\ todo # <<>> /\ Call \in NvsCalls /\ flash \in Flash
      /\ attempted \in BOOLEAN /\ restored \in BOOLEAN
  BY TypeOKParts, CallsAreTyped DEF InsideASave, Continues, FlashType, SaveType
<1>2. Call.op \in Keys => Applied.cfg = IF Call.op = "cfg" THEN Call.val ELSE flash.cfg
  BY <1>1, AppliedType DEF Applied
<1>3. Call = Commit => Call.op # "cfg"
  BY Ops DEF Keys
<1>4. CASE Write
  <2>1. /\ Call.op \in Keys /\ flash' = Applied /\ resetting' = resetting
        /\ attempted' = (attempted \/ (Call.op = "cfg" /\ ~undoing))
    BY <1>4 DEF Write
  <2>2. restored' = restored
    BY <1>4 DEF Write, GiveUp
  <2> QED BY <1>2, <2>1, <2>2
<1>5. CASE WriteFails
  <2>1. /\ Call.op \in Keys /\ flash' \in {flash, Applied} /\ resetting' = resetting
        /\ attempted' = (attempted \/ (Call.op = "cfg" /\ ~undoing))
    BY <1>5 DEF WriteFails
  <2>2. CASE undoing
    <3>1. restored' = (restored /\ Call.op # "cfg")
      BY <1>5, <2>2 DEF WriteFails
    <3> QED BY <1>1, <1>2, <2>1, <2>2, <3>1
  <2>3. CASE ~undoing
    <3>1. restored' = restored
      BY <1>5, <2>3 DEF WriteFails, GiveUp
    <3>2. TakesCall => ~Saving
      <4>1. Checked => undoing' = TRUE
        BY <1>5, <2>3 DEF WriteFails, GiveUp
      <4>2. Saving => Checked
        BY DEF Saving, Checked, Job
      <4> QED BY <2>3, <4>1, <4>2 DEF TakesCall
    <3> QED BY <1>2, <2>1, <2>3, <3>1, <3>2
  <2> QED BY <2>2, <2>3
<1>6. CASE CommitUndo
  BY <1>3, <1>6 DEF CommitUndo
<1>7. CASE CommitSave \/ CommitFails
  <2>1. Call = Commit /\ flash' = flash /\ resetting' = resetting
    BY <1>7 DEF CommitSave, CommitFails
  <2>2. ~JobDone
    BY <1>1, JobDoneShortens DEF InsideASave, Continues, Queues
  <2>3. restored' = restored \/ restored' = FALSE
    BY <1>7, <2>2 DEF CommitSave, CommitFails, GiveUp
  <2> QED BY <1>1, <1>3, <2>1, <2>3
<1> QED BY <1>4, <1>5, <1>6, <1>7 DEF InsideASave

LEMMA InsideRecord ==
  ASSUME TypeOK, Queues, InHand, RecordInFlash, InsideASave
  PROVE  RecordInFlash'
<1> SUFFICES ASSUME Saving' PROVE RecordInFlash'
  BY DEF RecordInFlash
<1>1. /\ Saving /\ plan' = plan /\ before' = before /\ todo # <<>>
      /\ TakesCall \/ TurnsBack
  BY InsideStep DEF InsideASave, Continues
<1>2. /\ attempted => attempted'
      /\ attempted' => attempted \/ (Call.op = "cfg" /\ ~undoing)
      /\ attempted' \in BOOLEAN
  BY InsideAttempted
<1>3. /\ ~attempted => flash.cfg = before.cfg
      /\ ~undoing => HasRecord(todo) \/ flash.cfg = plan[1].val
      /\ undoing /\ ~attempted => ~HasRecord(todo)
      /\ undoing /\ restored /\ ~resetting => HasRecord(todo) \/ flash.cfg = before.cfg
  BY <1>1 DEF RecordInFlash
<1>4. /\ flash'.cfg = flash.cfg \/ (Call.op = "cfg" /\ flash'.cfg = Call.val)
      /\ Call.op = "cfg" /\ Saving /\ TakesCall =>
           flash'.cfg = Call.val \/ (undoing /\ ~restored')
      /\ Call.op = "cfg" /\ ~undoing => attempted'
      /\ restored' => restored
      /\ resetting' = resetting
  BY InsideFlash
<1>5. CASE TakesCall
  <2>1. /\ HasRecord(todo') => HasRecord(todo)
        /\ HasRecord(todo) => Call.op = "cfg" \/ HasRecord(todo')
        /\ undoing' = undoing
    BY <1>5, CallTaken DEF InsideASave, TakesCall
  <2>2. Call.op = "cfg" =>
          /\ HasRecord(todo)
          /\ Call.val = IF undoing THEN before.cfg ELSE plan[1].val
    BY <1>1 DEF InHand, WellFormed, HasRecord, Call
  <2>3. CASE Call.op = "cfg" /\ undoing
    BY <1>1, <1>2, <1>3, <1>4, <1>5, <2>1, <2>2, <2>3 DEF RecordInFlash
  <2>4. CASE Call.op = "cfg" /\ ~undoing
    BY <1>1, <1>2, <1>3, <1>4, <1>5, <2>1, <2>2, <2>4 DEF RecordInFlash
  <2>5. CASE Call.op # "cfg"
    BY <1>1, <1>2, <1>3, <1>4, <2>1, <2>5 DEF RecordInFlash
  <2> QED BY <2>3, <2>4, <2>5
<1>6. CASE TurnsBack
  <2>1. attempted' => Job.kind = "policy"
    BY <1>1 DEF Saving, Job
  <2>2. /\ undoing'
        /\ HasRecord(todo') => attempted'
        /\ attempted' /\ ~resetting => HasRecord(todo')
    BY <1>2, <1>6, <2>1, TurnedBack DEF InsideASave
  <2>3. ~attempted' => flash'.cfg = before.cfg
    BY <1>2, <1>3, <1>4, <1>6 DEF TurnsBack
  <2> QED BY <1>1, <1>4, <2>2, <2>3 DEF RecordInFlash
<1> QED BY <1>1, <1>5, <1>6

LEMMA RecordStep ==
  ASSUME TypeOK, Queues, InHand, RecordInFlash, [Next]_vars
  PROVE  RecordInFlash'
<1>1. CASE InsideASave
  BY <1>1, InsideRecord
<1>2. CASE (CommitSave \/ CommitFails) /\ JobDone
  BY <1>2, SavesAreBusy, EndedQueues, NothingInHand DEF Queues
<1>3. CASE Discard
  <2>1. JobFails /\ plan # <<>>
    BY <1>3, SavesAreBusy DEF Discard, Queues
  <2> QED BY <2>1, EndedQueues, NothingInHand
<1>4. CASE StartJob
  <2>1. CASE todo' = <<>>
    BY <2>1, NothingInHand
  <2>2. CASE todo' # <<>>
    <3>1. /\ todo' = Calls(plan[1]) /\ plan' = plan /\ undoing' = undoing /\ ~undoing
          /\ before' = flash
      BY <1>4, <2>2, StartQueues
    <3>2. plan[1] \in Jobs /\ flash' = flash
      BY <1>4 DEF StartJob, Queues
    <3>3. HasRecord(todo') <=> plan[1].kind = "policy"
      BY <3>1, <3>2, SaveCalls
    <3> QED BY <3>1, <3>2, <3>3 DEF RecordInFlash, Saving
  <2> QED BY <2>1, <2>2
<1>5. CASE Aside
  <2>1. UNCHANGED saveVars
    BY <1>5, AsideQueues
  <2>2. CASE Erase
    <3>1. ~Saving
      BY <2>2 DEF Erase, NoWriter, Saving, Queues
    <3> QED BY <2>1, <3>1 DEF RecordInFlash, Saving, saveVars
  <2>3. CASE ~Erase
    <3>1. flash' = flash /\ resetting' \in {resetting, TRUE}
      BY <1>5, <2>3 DEF Aside, BootUnopened, LatchReset, vars, ChooseAutoSingle
    <3> QED BY <2>1, <3>1 DEF RecordInFlash, Saving, saveVars
  <2> QED BY <2>2, <2>3
<1> QED BY <1>1, <1>2, <1>3, <1>4, <1>5, StepKinds, CallerQueues, NothingInHand

-----------------------------------------------------------------------------
(* The invariant: the policy in force *)

\* Between two saves no call is left.
LEMMA NoneUnderWay ==
  ASSUME Queues, running = "none"
  PROVE  plan = <<>> /\ todo = <<>> /\ ~Saving
BY DEF Queues, Saving

\* A step inside a save leaves the policy in force alone, and the record too when
\* it is not the policy that is being saved.
LEMMA InsideHeld ==
  ASSUME TypeOK, Queues, InHand, Held, InsideASave
  PROVE  Held'
<1>1. todo # <<>> /\ before' = before /\ (Saving' <=> Saving)
  BY InsideStep DEF InsideASave, Continues
<1>2. UNCHANGED <<power, storeVars>>
  <2>1. CASE Write \/ WriteFails \/ CommitUndo
    BY <2>1 DEF Write, WriteFails, CommitUndo
  <2>2. CASE CommitSave \/ CommitFails
    <3>1. ~JobDone
      BY <1>1, JobDoneShortens DEF InsideASave, Continues, Queues
    <3> QED BY <2>2, <3>1 DEF CommitSave, CommitFails
  <2> QED BY <2>1, <2>2 DEF InsideASave
<1>3. ~Saving => flash'.cfg = flash.cfg
  <2>1. Call.op = "cfg" => Saving
    BY <1>1 DEF InHand, HasRecord, WellFormed, Call
  <2> QED BY <2>1, InsideFlash
<1>4. resetting' = resetting
  BY InsideFlash
<1> QED BY <1>1, <1>2, <1>3, <1>4 DEF Held, storeVars

\* When a policy is committed its record is in flash.
LEMMA CommittedRecord ==
  ASSUME InHand, RecordInFlash, todo # <<>>, Call = Commit, ~undoing, Job.kind = "policy"
  PROVE  flash.cfg = plan[1].val
<1>1. WellFormed(todo, Commit, plan[1].val) /\ todo[1] = Commit
  BY DEF InHand, Call
<1>2. Len(todo) = 1
  <2>1. Len(todo) \in Nat /\ Len(todo) > 0
    BY <1>1 DEF WellFormed
  <2>2. ~(1 \in 1 .. Len(todo) - 1)
    BY <1>1, Ops DEF WellFormed
  <2>3. \A n \in Nat : n > 0 /\ ~(1 \in 1 .. n - 1) => n = 1
    OBVIOUS
  <2> QED BY <2>1, <2>2, <2>3, Zenon
<1>3. ~HasRecord(todo)
  BY <1>1, <1>2, Ops DEF HasRecord, Keys
<1> QED BY <1>3 DEF RecordInFlash, Saving, Job

\* A policy saved is in flash when it comes into force.
LEMMA CommitHeld ==
  ASSUME TypeOK, Queues, InHand, RecordInFlash, Held, CommitSave, JobDone, Call = Commit,
         ~undoing
  PROVE  Held'
<1>1. /\ todo # <<>> /\ plan # <<>> /\ flash' = flash
      /\ UNCHANGED <<power, resetting>>
  BY DEF CommitSave, Queues
<1>2. todo' = <<>> /\ ~Saving' /\ undoing' = FALSE
  BY <1>1, JobEnds, NothingInHand
<1>3. CASE Job.kind = "policy"
  <2>1. active' = Job.val
    BY <1>2, <1>3 DEF CommitSave, GiveUp
  <2>2. flash.cfg = plan[1].val
    BY <1>1, <1>3, CommittedRecord
  <2> QED BY <1>1, <1>2, <2>1, <2>2 DEF Held, Job
<1>4. CASE Job.kind # "policy"
  <2>1. UNCHANGED <<active, available, stored>>
    BY <1>2, <1>4 DEF CommitSave, GiveUp
  <2>2. ~Saving
    BY <1>4 DEF Saving, Job
  <2> QED BY <1>1, <1>2, <2>1, <2>2 DEF Held
<1> QED BY <1>3, <1>4

\* A policy given up is back in flash, or is not available.
LEMMA DiscardHeld ==
  ASSUME TypeOK, Queues, InHand, RecordInFlash, Held, Discard
  PROVE  Held'
<1>1. /\ todo = <<Reopen>> /\ todo # <<>> /\ JobFails /\ flash' = flash
      /\ UNCHANGED <<power, resetting, active, stored>>
      /\ available' = (available /\ ~(Job.kind = "policy" /\ attempted /\ ~restored))
  BY DEF Discard
<1>2. plan # <<>>
  BY <1>1 DEF Queues
<1>3. ~Saving'
  BY <1>1, <1>2, JobEnds, NothingInHand
<1>4. Len(todo) = 1 /\ todo[1] = Reopen
  BY <1>1
<1>5. undoing
  BY <1>1, <1>4, Ops DEF InHand, WellFormed
<1>6. ~HasRecord(todo)
  BY <1>4, Ops DEF HasRecord, Keys
<1>7. CASE Saving
  <2>1. available' => ~attempted \/ restored
    BY <1>1, <1>7 DEF Saving, Job
  <2>2. ~attempted => flash.cfg = before.cfg
    BY <1>7 DEF RecordInFlash
  <2>3. restored /\ ~resetting => flash.cfg = before.cfg
    BY <1>5, <1>6, <1>7 DEF RecordInFlash
  <2>4. available' => available
    BY <1>1
  <2> QED BY <1>1, <1>3, <1>7, <2>1, <2>2, <2>3, <2>4 DEF Held
<1>8. CASE ~Saving
  <2>1. available' => available
    BY <1>1
  <2> QED BY <1>1, <1>3, <1>8, <2>1 DEF Held
<1> QED BY <1>7, <1>8

LEMMA HeldStep ==
  ASSUME TypeOK, Queues, InHand, RecordInFlash, Held, [Next]_vars
  PROVE  Held'
<1>1. CASE InsideASave
  BY <1>1, InsideHeld
<1>2. CASE CommitSave /\ JobDone /\ Call = Commit /\ ~undoing
  BY <1>2, CommitHeld
<1>3. CASE CommitFails /\ JobDone /\ Job.kind = "migrate"
  <2>1. /\ plan # <<>> /\ flash' = flash /\ UNCHANGED <<power, resetting, storeVars>>
    BY <1>3, SavesAreBusy DEF CommitFails, Queues
  <2>2. ~Saving /\ ~Saving'
    BY <1>3, <2>1, JobEnds, NothingInHand DEF Saving, Job
  <2> QED BY <2>1, <2>2 DEF Held, storeVars
<1>4. CASE Discard
  BY <1>4, DiscardHeld
<1>5. CASE StartJob
  <2>1. /\ todo = <<>> /\ ~Saving /\ UNCHANGED <<flash, power, resetting, storeVars>>
    BY <1>5 DEF StartJob, Saving
  <2>2. CASE todo' = <<>>
    BY <2>1, <2>2, NothingInHand DEF Held, storeVars
  <2>3. CASE todo' # <<>>
    <3>1. /\ before' = flash /\ plan' = plan /\ (Writable \/ plan[1].kind \in {"rest", "migrate"})
      BY <1>5, <2>3, StartQueues
    <3>2. Saving' => ~resetting
      BY <3>1 DEF Saving, Writable
    <3> QED BY <2>1, <3>1, <3>2 DEF Held, storeVars
  <2> QED BY <2>2, <2>3
<1>6. CASE Boot
  <2>1. ~Saving'
    BY <1>6, CallerQueues, NothingInHand
  <2>2. stored' => active' = flash'.cfg
    BY <1>6 DEF Boot, LoadedPolicy
  <2> QED BY <2>1, <2>2 DEF Held
<1>7. CASE PowerLoss \/ BootUnopened \/ Erase
  BY <1>7 DEF PowerLoss, BootUnopened, Erase, Held
<1>8. CASE \/ Save \/ SavePolicy \/ SaveRanges \/ HandOver \/ StoreChoice \/ TakeBack
           \/ \E single \in BOOLEAN : ChooseAutoSingle(single) /\ ~UNCHANGED saveVars
  <2>1. running = "none" /\ UNCHANGED <<flash, power, resetting, storeVars>>
    BY <1>8 DEF Save, SavePolicy, SaveRanges, HandOver, StoreChoice, TakeBack,
                ChooseAutoSingle, Free
  <2>2. ~Saving /\ ~Saving'
    BY <1>8, <2>1, CallerQueues, NothingInHand, NoneUnderWay
  <2> QED BY <2>1, <2>2 DEF Held, storeVars
<1>9. CASE Aside /\ ~BootUnopened /\ ~Erase
  <2>1. flash' = flash /\ UNCHANGED <<power, storeVars>>
    BY <1>9 DEF Aside, LatchReset, vars, ChooseAutoSingle
  <2>2. ~resetting' => ~resetting
    BY <1>9 DEF Aside, LatchReset, vars, ChooseAutoSingle
  <2>3. before' = before /\ (Saving' <=> Saving)
    BY <1>9, AsideQueues DEF saveVars, Saving
  <2> QED BY <2>1, <2>2, <2>3 DEF Held, storeVars
<1> QED BY <1>1, <1>2, <1>3, <1>4, <1>5, <1>6, <1>7, <1>8, <1>9, StepKinds DEF Aside

-----------------------------------------------------------------------------
(* The invariant: the wiped partition *)

LEMMA WipedStep ==
  ASSUME TypeOK, Queues, InHand, Wiped, [Next]_vars
  PROVE  Wiped'
<1> SUFFICES ASSUME power' = "erased" PROVE Wiped'
  BY DEF Wiped
<1>1. CASE Erase
  <2>1. plan = <<>> /\ todo = <<>> /\ running = "none"
    BY <1>1, NoneUnderWay DEF Erase, NoWriter
  <2>2. flash' = Blank /\ resetting /\ UNCHANGED <<resetting, plan, todo, running>>
    BY <1>1 DEF Erase, saveVars
  <2> QED BY <2>1, <2>2 DEF Wiped
<1>2. CASE Boot \/ BootUnopened \/ PowerLoss
  BY <1>2 DEF Boot, BootUnopened, PowerLoss
<1>3. CASE ~(Erase \/ Boot \/ BootUnopened \/ PowerLoss)
  <2>1. power = "erased"
    <3>1. CASE StartJob \/ InsideASave \/ CommitSave \/ CommitFails \/ Discard
      BY <3>1 DEF InsideASave, StartJob, Write, WriteFails, CommitUndo, CommitSave, CommitFails,
                  Discard
    <3>2. CASE \/ Save \/ SavePolicy \/ SaveRanges \/ HandOver \/ StoreChoice \/ TakeBack
               \/ LatchReset
               \/ UNCHANGED vars
      BY <3>2 DEF Save, SavePolicy, SaveRanges, HandOver, StoreChoice, TakeBack, LatchReset, vars
    <3>3. CASE \E single \in BOOLEAN : ChooseAutoSingle(single)
      BY <3>3 DEF ChooseAutoSingle
    <3> QED BY <1>3, <3>1, <3>2, <3>3, StepKinds DEF Aside
  <2>2. /\ flash = Blank /\ resetting /\ todo = <<>> /\ running # "boot"
        /\ plan # <<>> => plan[1].kind \notin {"rest", "migrate"}
    BY <2>1 DEF Wiped
  <2>3. CASE StartJob
    <3>1. /\ plan # <<>> /\ JobFails /\ UNCHANGED <<flash, resetting>>
      BY <2>2, <2>3 DEF StartJob, Writable, Checked, Job
    <3>2. todo' = <<>> /\ plan' = <<>> /\ running' \in {"none", running}
      BY <2>2, <3>1, JobEnds
    <3> QED BY <2>2, <3>1, <3>2 DEF Wiped
  <2>4. CASE HandOver \/ StoreChoice \/ TakeBack
    <3>1. /\ UNCHANGED <<flash, resetting>> /\ todo' = <<>> /\ running' # "boot"
          /\ \/ plan' = <<Single(wish)>> \/ plan' = <<Policy(previous)>>
             \/ plan' = <<Policy([active EXCEPT !.owner = "unit"])>>
      BY <2>4 DEF HandOver, StoreChoice, TakeBack, Begin
    <3>2. plan'[1].kind \notin {"rest", "migrate"}
      BY <3>1 DEF Single, Policy
    <3> QED BY <2>2, <3>1, <3>2 DEF Wiped
  <2>5. CASE UNCHANGED vars
    BY <2>2, <2>5 DEF vars, saveVars, Wiped
  <2>6. ~(Save \/ SavePolicy \/ SaveRanges \/ LatchReset)
    BY <2>1, <2>2 DEF Save, SavePolicy, SaveRanges, LatchReset, Writable
  <2>7. ~(\E single \in BOOLEAN : ChooseAutoSingle(single))
    BY <2>2 DEF ChooseAutoSingle
  <2>8. ~(InsideASave \/ CommitSave \/ CommitFails \/ Discard)
    BY <2>2, SavesAreBusy DEF InsideASave, Continues
  <2> QED BY <1>3, <2>3, <2>4, <2>5, <2>6, <2>7, <2>8, StepKinds DEF Aside
<1> QED BY <1>1, <1>2, <1>3

-----------------------------------------------------------------------------
(* The theorems *)

LEMMA InvInit == Init => StoreInv
<1> SUFFICES ASSUME Init PROVE StoreInv
  OBVIOUS
<1>1. /\ plan = <<>> /\ todo = <<>> /\ undoing = FALSE /\ attempted = FALSE
      /\ turn = "none" /\ power = "off"
  BY DEF Init, Idle
<1>2. plan \in Seq(Jobs) /\ todo \in Seq(NvsCalls)
  BY <1>1
<1>3. Queues
  BY <1>1, <1>2 DEF Queues
<1>4. InHand /\ RecordInFlash /\ Held /\ Wiped
  BY <1>1 DEF InHand, RecordInFlash, Saving, Held, Wiped
<1> QED BY <1>3, <1>4, TypeInit DEF StoreInv

LEMMA InvStep == StoreInv /\ [Next]_vars => StoreInv'
<1> SUFFICES ASSUME StoreInv, [Next]_vars PROVE StoreInv'
  OBVIOUS
<1>1. TypeOK /\ Queues /\ InHand /\ RecordInFlash /\ Held /\ Wiped
  BY DEF StoreInv
<1> QED BY <1>1, TypeStep, QueuesStep, InHandStep, RecordStep, HeldStep, WipedStep
        DEF StoreInv

LEMMA StoreInvHolds == Spec => []StoreInv
BY InvInit, InvStep, PTL DEF Spec

\* Every variable keeps its type, whatever the namespace held at first.
THEOREM StoreTypeCorrect == Spec => []TypeOK
<1>1. StoreInv => TypeOK
  BY DEF StoreInv
<1> QED BY <1>1, StoreInvHolds, PTL

\* Whatever writes fail, and wherever the power is lost, the policy in force
\* between two saves is the record in flash: saveSetpointSettingsLocked() undoes
\* what it could not save, or marks the policy unavailable.
THEOREM PolicySurvivesRestart == Spec => []ActiveIsDurable
<1>1. StoreInv => ActiveIsDurable
  BY NoneUnderWay DEF StoreInv, Held, ActiveIsDurable
<1> QED BY <1>1, StoreInvHolds, PTL

\* Between nvs_flash_erase() and the restart no save reaches the flash: the latch
\* turns away every writer the erase did not wait for.
THEOREM ErasedIsFinal == Spec => ErasedStaysErased
<1>1. Wiped /\ Wiped' => (power = "erased" /\ power' = "erased" => flash' = Blank)
  BY DEF Wiped
<1>2. StoreInv => Wiped
  BY DEF StoreInv
<1> QED BY <1>1, <1>2, StoreInvHolds, PTL DEF ErasedStaysErased

---------------------------------------------------------------------------
(***************************************************************************)
(* What a restart finds                                                    *)
(***************************************************************************)
Mirrors == {"band", "owner"}

\* Without a record, the namespace stands for a policy, and goes on to when the
\* migrations have run.
StandsFor(f, policy) ==
  /\ InitialPolicy(f) = policy
  /\ f.legacy # None => \E key \in Keys \ {"single", "legacy", "cfg"} : f[key] # None

\* What a boot would load from f, unless it is unavailable.
Tells(f, old, new) ==
  /\ f.cfg = None => StandsFor(f, old)
  /\ f.cfg \in Policies => f.cfg \in {old, new}

FlashTells == ~(undoing /\ Saving) => Tells(flash, last, attempt)

\* A save of the policy leaves the other keys alone, and knows what it replaces.
BeforeTells ==
  Saving =>
    /\ before.cfg = None => StandsFor(before, last) /\ available
    /\ before.cfg \in Policies => before.cfg = last
    /\ attempt = plan[1].val
    /\ flash.cfg \in {before.cfg, plan[1].val}
    /\ \A key \in Keys \ ({"cfg"} \cup Mirrors) : flash[key] = before[key]

\* A first record is written before the mirrors.
RecordFirst ==
  Saving /\ ~undoing /\ flash.cfg = None => flash = before /\ todo[1].op = "cfg"

\* Its undo puts the mirrors back once the record is gone.
MirrorsFollow ==
  Saving /\ undoing /\ before.cfg = None =>
    \A key \in Mirrors :
      /\ \A i \in 1 .. Len(todo) : todo[i].op = key => todo[i].val = before[key]
      /\ flash.cfg = None \/ HasRecord(todo) =>
           (\E i \in 1 .. Len(todo) : todo[i].op = key) \/ flash[key] = before[key]

\* The policy in force is the last; a stored one is in force.
InForce ==
  power = "on" => /\ available => active = last
                  /\ stored => available

\* A store that could not be opened writes nothing.
Dead ==
  /\ ~handle /\ todo = <<>> /\ running # "boot"
  /\ plan # <<>> => plan[1].kind \notin {"rest", "migrate"}
Opened ==
  power = "on" /\ ~resetting /\ ~Saving /\ (attempt # None \/ (flash.cfg = None /\ ~available))
    => Dead

\* What save() and the cache write is written over a record.
Covered ==
  /\ todo # <<>> /\ plan[1].kind = "cache" => flash.cfg # None
  /\ \A i \in 1 .. Len(plan) :
       plan[i].kind = "rest" =>
         /\ running = "save"
         /\ flash.cfg # None \/ \E j \in 1 .. i - 1 : plan[j].kind = "policy"

Kept == FlashTells /\ BeforeTells /\ RecordFirst /\ MirrorsFollow /\ InForce /\ Opened /\ Covered

OpsOf(kind) ==
  CASE kind = "single" -> {"single"} [] kind = "migrate" -> {"legacy"}
    [] kind = "rest" -> {"rest", "single"} [] kind = "cache" -> {"cache"}
    [] kind = "policy" -> {"cfg"} \cup Mirrors

\* The calls of a job are on keys of its own; the migrations only erase.
Own(calls, kind) ==
  \A i \in 1 .. Len(calls) : /\ calls[i].op \in OpsOf(kind) \cup {"commit", "reopen"}
                             /\ calls[i].op = "legacy" => calls[i].val = None
OwnKeys == todo # <<>> => Own(todo, plan[1].kind)

\* Only an undo that fails loses the record.
Restoring == restored \/ (undoing /\ undoBroken)
OffIdle == power = "off" => running = "none"

PolicyInv == (~undoBroken => Kept) /\ OwnKeys /\ Restoring /\ OffIdle

-----------------------------------------------------------------------------
(* The operators *)

LEMMA AppliedKeys ==
  ASSUME NEW f \in Flash, NEW call \in NvsCalls, call.op \in Keys, NEW key \in Keys
  PROVE  [f EXCEPT ![call.op] = call.val][key] = IF key = call.op THEN call.val ELSE f[key]
BY DEF Flash, NvsCalls, Keys

\* Two namespaces that differ in the Auto choice and in what a migration erases
\* stand for the same policy.
LEMMA SameStanding ==
  ASSUME NEW f \in Flash, NEW g \in Flash, NEW policy, StandsFor(f, policy),
         f.cfg = None, g.cfg = None, g.band = f.band, g.owner = f.owner, g.cache = f.cache,
         g.rest = f.rest, g.legacy \in {f.legacy, None}
  PROVE  StandsFor(g, policy)
<1>1. g.legacy # None => \E key \in Keys \ {"single", "legacy", "cfg"} : g[key] # None
  BY DEF StandsFor, Keys
<1>2. HadSettings(g) <=> HadSettings(f)
  BY DEF StandsFor, HadSettings, Keys
<1>3. InitialPolicy(g) = InitialPolicy(f)
  BY <1>2 DEF InitialPolicy
<1> QED BY <1>1, <1>3 DEF StandsFor

\* The undo of a first record gives the mirrors what they had.
LEMMA OldMirrors ==
  ASSUME TypeOK, StandsFor(before, last), active = last
  PROVE  OldBand = Set("band", before["band"]) /\ OldOwner = Set("owner", before["owner"])
<1>1. last = InitialPolicy(before)
  BY DEF StandsFor
<1>2. /\ before.band # None => last.band = before.band
      /\ before.owner # None => last.owner = before.owner
  BY <1>1 DEF InitialPolicy
<1> QED BY <1>2 DEF OldBand, OldOwner

\* Every call of a save is on a key of the job.
LEMMA SaveIsOwn ==
  ASSUME NEW job \in Jobs
  PROVE  Own(Calls(job), job.kind)
<1>1. CASE job.kind = "policy"
  <2> DEFINE record == Set("cfg", job.val)
             band   == Set("band", job.val.band)
             owner  == Set("owner", job.val.owner)
  <2>1. \/ Calls(job) = <<record, band, owner, Commit>>
        \/ Calls(job) = <<band, owner, record, Commit>>
    BY <1>1 DEF Calls, PolicyCalls
  <2>2. record.op = "cfg" /\ band.op = "band" /\ owner.op = "owner" /\ Commit.op = "commit"
    BY DEF Set, Commit
  <2>3. OpsOf(job.kind) = {"cfg", "band", "owner"}
    BY <1>1 DEF OpsOf, Mirrors
  <2> HIDE DEF record, band, owner
  <2> QED BY <2>1, <2>2, <2>3 DEF Own
<1>2. CASE job.kind = "rest"
  <2>1. Calls(job) = <<Set("rest", TRUE), Set("single", choice), Commit>>
    BY <1>2 DEF Calls
  <2>2. OpsOf(job.kind) = {"rest", "single"}
    BY <1>2 DEF OpsOf
  <2> QED BY <2>1, <2>2 DEF Own, Set, Commit
<1>3. CASE job.kind = "single"
  <2>1. Calls(job) = <<Set("single", job.val), Commit>> /\ OpsOf(job.kind) = {"single"}
    BY <1>3 DEF Calls, OpsOf
  <2> QED BY <2>1 DEF Own, Set, Commit
<1>4. CASE job.kind = "cache"
  <2>1. Calls(job) = <<Set("cache", TRUE), Commit>> /\ OpsOf(job.kind) = {"cache"}
    BY <1>4 DEF Calls, OpsOf
  <2> QED BY <2>1 DEF Own, Set, Commit
<1>5. CASE job.kind = "migrate"
  <2>1. Calls(job) = <<Set("legacy", None), Commit>> /\ OpsOf(job.kind) = {"legacy"}
    BY <1>5 DEF Calls, OpsOf
  <2> QED BY <2>1 DEF Own, Set, Commit
<1> QED BY <1>1, <1>2, <1>3, <1>4, <1>5 DEF Jobs

\* And so is every call of its undo.
LEMMA UndoIsOwn ==
  ASSUME NEW job \in Jobs, job.kind \in {"policy", "cache"}, NEW tried \in BOOLEAN
  PROVE  Own(UndoCalls(job, tried), job.kind)
<1>1. CASE job.kind = "policy"
  <2> DEFINE record == Set("cfg", before.cfg)
  <2>1. \/ UndoCalls(job, tried) = <<record, OldBand, OldOwner, Commit, Reopen>>
        \/ UndoCalls(job, tried) = <<OldBand, OldOwner, Commit, Reopen>>
    BY <1>1 DEF UndoCalls
  <2>2. /\ record.op = "cfg" /\ OldBand.op = "band" /\ OldOwner.op = "owner"
        /\ Commit.op = "commit" /\ Reopen.op = "reopen"
    BY DEF Set, Commit, Reopen, OldBand, OldOwner
  <2>3. OpsOf(job.kind) = {"cfg", "band", "owner"}
    BY <1>1 DEF OpsOf, Mirrors
  <2> HIDE DEF record
  <2> QED BY <2>1, <2>2, <2>3 DEF Own
<1>2. CASE job.kind = "cache"
  <2>1. /\ UndoCalls(job, tried) = <<Set("cache", before.cache), Commit, Reopen>>
        /\ OpsOf(job.kind) = {"cache"}
    BY <1>2 DEF UndoCalls, OpsOf
  <2> QED BY <2>1 DEF Own, Set, Commit, Reopen
<1> QED BY <1>1, <1>2

LEMMA TailIsOwn ==
  ASSUME NEW calls \in Seq(NvsCalls), calls # <<>>, NEW kind, Own(calls, kind)
  PROVE  Own(Tail(calls), kind)
<1>1. /\ Len(Tail(calls)) = Len(calls) - 1 /\ Len(calls) \in Nat
      /\ \A i \in 1 .. Len(Tail(calls)) : Tail(calls)[i] = calls[i + 1]
  OBVIOUS
<1>2. \A i \in 1 .. Len(Tail(calls)) : i + 1 \in 1 .. Len(calls)
  BY <1>1
<1> QED BY <1>1, <1>2 DEF Own

-----------------------------------------------------------------------------
(* A step inside a save *)

\* What it changes.
LEMMA InsideEffects ==
  ASSUME TypeOK, Queues, InHand, InsideASave
  PROVE  /\ UNCHANGED <<power, handle, resetting, running, active, available, stored, last,
                        attempt>>
         /\ flash' = flash \/ (Call.op \in Keys /\ flash' = Applied)
         /\ undoBroken \in BOOLEAN /\ (undoBroken => undoBroken')
         /\ restored' = restored \/ (undoing /\ undoing' /\ undoBroken')
         /\ undoing /\ ~undoBroken' /\ Call.op \in Keys => flash' = Applied
<1>1. todo # <<>> /\ undoBroken \in BOOLEAN /\ restored \in BOOLEAN /\ undoing \in BOOLEAN
      /\ running' = running
  BY DEF InsideASave, Continues, TypeOK
<1>2. CASE Write
  <2>1. restored' = restored /\ undoBroken' = undoBroken /\ flash' = Applied /\ Call.op \in Keys
    BY <1>2 DEF Write, GiveUp, historyVars
  <2>2. UNCHANGED <<power, handle, resetting, active, available, stored, last, attempt>>
    BY <1>2 DEF Write, storeVars, historyVars
  <2> QED BY <1>1, <2>1, <2>2
<1>3. CASE WriteFails
  <2>1. /\ flash' \in {flash, Applied} /\ Call.op \in Keys
        /\ undoBroken' = (undoBroken \/ undoing)
        /\ undoing => undoing' = undoing
        /\ ~undoing => restored' = restored
    BY <1>3 DEF WriteFails, GiveUp
  <2>2. UNCHANGED <<power, handle, resetting, active, available, stored, last, attempt>>
    BY <1>3 DEF WriteFails, storeVars
  <2> QED BY <1>1, <2>1, <2>2
<1>4. CASE CommitUndo
  <2>1. UNCHANGED <<flash, power, handle, resetting, active, available, stored, last, attempt,
                    restored, undoBroken>> /\ Call.op \notin Keys
    BY <1>4, Ops DEF CommitUndo, storeVars, historyVars
  <2> QED BY <1>1, <2>1
<1>5. CASE CommitSave \/ CommitFails
  <2>1. ~JobDone
    BY <1>1, JobDoneShortens DEF InsideASave, Continues, Queues
  <2>2. CASE CommitSave
    <3>1. Asks /\ resetting
      BY <2>1, <2>2 DEF CommitSave
    <3>2. UNCHANGED <<flash, power, handle, resetting, active, available, stored, last, attempt,
                    restored, undoBroken>> /\ Call.op \notin Keys
      BY <2>2, <3>1, Ops DEF CommitSave, storeVars, GiveUp
    <3> QED BY <1>1, <3>2
  <2>3. CASE CommitFails
    <3>1. /\ UNCHANGED <<flash, power, handle, resetting, active, available, stored, last,
                         attempt>>
          /\ Call.op \notin Keys
          /\ undoBroken' = (undoBroken \/ undoing)
          /\ undoing => undoing' = undoing
          /\ ~undoing => restored' = restored
      BY <2>1, <2>3, Ops DEF CommitFails, storeVars, GiveUp
    <3> QED BY <1>1, <3>1
  <2> QED BY <1>5, <2>2, <2>3
<1> QED BY <1>2, <1>3, <1>4, <1>5 DEF InsideASave

\* What it changes in flash, key by key.
LEMMA InsideKeys ==
  ASSUME TypeOK, Queues, InHand, OwnKeys, InsideASave
  PROVE  /\ \A key \in Keys : flash'[key] = flash[key] \/ (Call.op = key /\ flash'[key] = Call.val)
         /\ undoing /\ ~undoBroken' =>
              \A key \in Keys : Call.op = key => flash'[key] = Call.val
         /\ Call.op \in OpsOf(Job.kind) \cup {"commit", "reopen"}
         /\ Call.op = "legacy" => Call.val = None
         /\ Call.op = "cfg" => Call.val = IF undoing THEN before.cfg ELSE plan[1].val
<1>1. /\ todo # <<>> /\ Call \in NvsCalls /\ flash \in Flash /\ 1 \in 1 .. Len(todo)
  <2>1. todo # <<>> /\ flash \in Flash
    BY DEF InsideASave, Continues, TypeOK
  <2> QED BY <2>1, CallsAreTyped
<1>2. ASSUME Call.op \in Keys, NEW key \in Keys
      PROVE  Applied[key] = IF key = Call.op THEN Call.val ELSE flash[key]
  BY <1>1, <1>2, AppliedKeys DEF Applied
<1>3. flash' = flash \/ (Call.op \in Keys /\ flash' = Applied)
  BY InsideEffects
<1>4. undoing /\ ~undoBroken' /\ Call.op \in Keys => flash' = Applied
  BY InsideEffects
<1>5. \A key \in Keys : flash'[key] = flash[key] \/ (Call.op = key /\ flash'[key] = Call.val)
  BY <1>2, <1>3
<1>6. undoing /\ ~undoBroken' =>
        \A key \in Keys : Call.op = key => flash'[key] = Call.val
  BY <1>2, <1>4
<1>7. /\ Call.op \in OpsOf(Job.kind) \cup {"commit", "reopen"}
      /\ Call.op = "legacy" => Call.val = None
  BY <1>1 DEF OwnKeys, Own, Call, Job
<1>8. Call.op = "cfg" => Call.val = IF undoing THEN before.cfg ELSE plan[1].val
  BY <1>1 DEF InHand, WellFormed, Call
<1> QED BY <1>5, <1>6, <1>7, <1>8

LEMMA InsideOwn ==
  ASSUME TypeOK, Queues, InHand, OwnKeys, InsideASave
  PROVE  OwnKeys'
<1>1. /\ todo # <<>> /\ plan' = plan /\ Job \in Jobs /\ todo \in Seq(NvsCalls)
      /\ TakesCall \/ TurnsBack
  BY CallsAreTyped DEF InsideASave, Continues, Queues
<1>2. Own(todo, plan[1].kind)
  BY <1>1 DEF OwnKeys
<1>3. CASE TakesCall
  BY <1>1, <1>2, <1>3, TailIsOwn DEF TakesCall, OwnKeys
<1>4. CASE TurnsBack
  <2>1. Job.kind # "migrate" /\ GiveUp(attempted')
    BY <1>4 DEF TurnsBack
  <2>2. CASE Job.kind \in {"single", "rest"} \/ resetting
    <3>1. todo' = <<Reopen>>
      BY <2>1, <2>2 DEF GiveUp
    <3>2. Own(todo', plan[1].kind)
      BY <3>1 DEF Own, Reopen
    <3> QED BY <1>1, <3>2 DEF OwnKeys
  <2>3. CASE Job.kind \notin {"single", "rest"} /\ ~resetting
    <3>1. todo' = UndoCalls(Job, attempted') /\ Job.kind \in {"policy", "cache"}
      BY <1>1, <2>1, <2>3 DEF GiveUp, Jobs
    <3>2. attempted' \in BOOLEAN
      BY InsideAttempted
    <3>3. Own(todo', Job.kind)
      BY <1>1, <3>1, <3>2, UndoIsOwn
    <3> QED BY <1>1, <3>3 DEF OwnKeys, Job
  <2> QED BY <2>2, <2>3
<1> QED BY <1>1, <1>3, <1>4

\* The keys of a job that is not the policy's keep what the flash stands for.
LEMMA InsideTells ==
  ASSUME StoreInv, StoreInv', OwnKeys, FlashTells, BeforeTells, RecordFirst, Covered,
         InsideASave
  PROVE  FlashTells'
<1> USE DEF StoreInv
<1>1. /\ Saving' <=> Saving
      /\ plan' = plan /\ before' = before /\ todo # <<>> /\ Job \in Jobs
  BY InsideStep, CallsAreTyped DEF InsideASave, Continues
<1>2. UNCHANGED <<last, attempt>>
  BY InsideEffects
<1>3. \A key \in Keys : flash'[key] = flash[key] \/ (Call.op = key /\ flash'[key] = Call.val)
  BY InsideKeys
<1>4. /\ Call.op \in OpsOf(Job.kind) \cup {"commit", "reopen"}
      /\ Call.op = "legacy" => Call.val = None
      /\ Call.op = "cfg" => Call.val = IF undoing THEN before.cfg ELSE plan[1].val
  BY InsideKeys
<1>5. flash \in Flash /\ flash' \in Flash
  BY DEF TypeOK
<1>6. CASE ~Saving
  <2>1. Tells(flash, last, attempt)
    BY <1>6 DEF FlashTells
  <2>2. Call.op # "cfg" /\ Call.op # "band" /\ Call.op # "owner"
    BY <1>1, <1>4, <1>6 DEF OpsOf, Saving, Jobs, Job
  <2>3. flash'.cfg = flash.cfg /\ flash'.band = flash.band /\ flash'.owner = flash.owner
    BY <1>3, <2>2 DEF Keys
  <2>4. flash'.legacy \in {flash.legacy, None}
    BY <1>3, <1>4 DEF Keys
  <2>5. ASSUME flash.cfg = None
        PROVE  StandsFor(flash', last)
    <3>1. Job.kind # "cache" /\ Job.kind # "rest"
      <4>1. Job.kind # "cache"
        BY <1>1, <2>5 DEF Covered, Job
      <4>2. 1 \in 1 .. Len(plan) /\ ~(\E j \in 1 .. 1 - 1 : plan[j].kind = "policy")
        BY <1>1 DEF Queues
      <4>3. Job.kind # "rest"
        BY <2>5, <4>2 DEF Covered, Job
      <4> QED BY <4>1, <4>3
    <3>2. Call.op # "cache" /\ Call.op # "rest"
      BY <1>1, <1>4, <1>6, <3>1 DEF OpsOf, Saving, Jobs, Job
    <3>3. flash'.cache = flash.cache /\ flash'.rest = flash.rest
      BY <1>3, <3>2 DEF Keys
    <3>4. StandsFor(flash, last)
      BY <2>1, <2>5 DEF Tells
    <3> QED BY <1>5, <2>3, <2>4, <2>5, <3>3, <3>4, SameStanding
  <2>6. Tells(flash', last, attempt)
    BY <2>1, <2>3, <2>5 DEF Tells
  <2> QED BY <1>2, <2>6 DEF FlashTells
<1>7. CASE Saving
  <2> SUFFICES ASSUME ~undoing' PROVE FlashTells'
    BY <1>1, <1>7 DEF FlashTells
  <2>1. ~undoing
    BY DEF InsideASave, Continues, TakesCall, TurnsBack
  <2>2. Tells(flash, last, attempt)
    BY <2>1 DEF FlashTells
  <2>3. attempt = plan[1].val /\ plan[1].kind = "policy"
    BY <1>7 DEF BeforeTells, Saving
  <2>4. attempt \in Policies
    BY <1>1, <2>3 DEF Jobs, Job
  <2>5. CASE Call.op = "cfg" /\ flash'.cfg = Call.val
    <3>1. flash'.cfg = attempt /\ attempt # None
      BY <1>4, <2>1, <2>3, <2>4, <2>5, StoreAssumption
    <3>2. Tells(flash', last, attempt)
      BY <3>1 DEF Tells
    <3> QED BY <1>2, <3>2 DEF FlashTells
  <2>6. CASE flash'.cfg = flash.cfg
    <3>1. flash.cfg # None
      <4>1. TakesCall
        BY DEF InsideASave, Continues, TurnsBack, GiveUp
      <4>2. flash.cfg = None => Call.op = "cfg"
        BY <1>7, <2>1 DEF RecordFirst, Call
      <4>3. flash.cfg = None => flash'.cfg = Call.val /\ Call.val = attempt
        BY <1>4, <1>7, <2>1, <2>3, <4>1, <4>2, InsideFlash
      <4> QED BY <2>4, <2>6, <4>3, StoreAssumption
    <3>2. Tells(flash', last, attempt)
      BY <2>2, <2>6, <3>1 DEF Tells
    <3> QED BY <1>2, <3>2 DEF FlashTells
  <2> QED BY <1>3, <2>5, <2>6 DEF Keys
<1> QED BY <1>6, <1>7

\* A step of the policy's save, and what it knows of the namespace before it.
LEMMA InsideBefore ==
  ASSUME StoreInv, StoreInv', OwnKeys, BeforeTells, InsideASave
  PROVE  BeforeTells'
<1> USE DEF StoreInv
<1> SUFFICES ASSUME Saving' PROVE BeforeTells'
  BY DEF BeforeTells
<1>1. Saving /\ plan' = plan /\ before' = before
  BY InsideStep
<1>2. UNCHANGED <<last, attempt, available>>
  BY InsideEffects
<1>3. \A key \in Keys : flash'[key] = flash[key] \/ (Call.op = key /\ flash'[key] = Call.val)
  BY InsideKeys
<1>4. /\ Call.op \in OpsOf(Job.kind) \cup {"commit", "reopen"}
      /\ Call.op = "cfg" => Call.val = IF undoing THEN before.cfg ELSE plan[1].val
  BY InsideKeys
<1>5. /\ before.cfg = None => StandsFor(before, last) /\ available
      /\ before.cfg \in Policies => before.cfg = last
      /\ attempt = plan[1].val
      /\ flash.cfg \in {before.cfg, plan[1].val}
      /\ \A key \in Keys \ ({"cfg"} \cup Mirrors) : flash[key] = before[key]
  BY <1>1 DEF BeforeTells
<1>6. flash'.cfg \in {before.cfg, plan[1].val}
  BY <1>3, <1>4, <1>5 DEF Keys
<1>7. ASSUME NEW key \in Keys \ ({"cfg"} \cup Mirrors)
      PROVE  flash'[key] = before[key]
  <2>1. Call.op # key
    BY <1>1, <1>4 DEF OpsOf, Saving, Job, Keys
  <2> QED BY <1>3, <1>5, <2>1
<1> QED BY <1>1, <1>2, <1>5, <1>6, <1>7 DEF BeforeTells

LEMMA InsideFirst ==
  ASSUME StoreInv, StoreInv', OwnKeys, RecordFirst, InsideASave
  PROVE  RecordFirst'
<1> USE DEF StoreInv
<1> SUFFICES ASSUME Saving', ~undoing', flash'.cfg = None PROVE FALSE
  BY DEF RecordFirst
<1>1. Saving /\ plan' = plan /\ Job \in Jobs
  BY InsideStep, CallsAreTyped DEF Saving
<1>2. TakesCall /\ ~undoing
  BY DEF InsideASave, Continues, TurnsBack, TakesCall, GiveUp
<1>3. plan[1].val # None
  BY <1>1, StoreAssumption DEF Saving, Jobs, Job
<1>4. Call.op = "cfg" => Call.val = plan[1].val
  BY <1>2, InsideKeys
<1>5. flash.cfg = None
  BY <1>3, <1>4, InsideFlash
<1>6. Call.op = "cfg"
  BY <1>1, <1>2, <1>5 DEF RecordFirst, Call
<1>7. flash'.cfg = Call.val
  BY <1>1, <1>2, <1>6, InsideFlash
<1> QED BY <1>3, <1>4, <1>6, <1>7

\* When a save turns back, the mirrors are as they were, or about to be.
LEMMA TurningMirrors ==
  ASSUME StoreInv, StoreInv', OwnKeys, BeforeTells, RecordFirst, InForce, power = "on", InsideASave,
         TurnsBack
  PROVE  MirrorsFollow'
<1> USE DEF StoreInv
<1> SUFFICES ASSUME Saving', before'.cfg = None PROVE MirrorsFollow'
  BY DEF MirrorsFollow
<1>1. /\ Saving /\ plan' = plan /\ before' = before /\ Job \in Jobs /\ Job.kind = "policy"
      /\ ~undoing /\ GiveUp(attempted') /\ attempted' \in BOOLEAN
  BY InsideStep, CallsAreTyped, InsideAttempted DEF Saving, TurnsBack, Job
<1>2. StandsFor(before, last) /\ available
  BY <1>1 DEF BeforeTells
<1>3. CASE resetting
  <2>1. todo' = <<Reopen>>
    BY <1>1, <1>3 DEF GiveUp
  <2>2. Len(todo') = 1 /\ todo'[1].op = "reopen"
    BY <2>1 DEF Reopen
  <2>3. ~HasRecord(todo')
    BY <2>2 DEF HasRecord
  <2>4. ASSUME flash'.cfg = None, NEW key \in Mirrors
        PROVE  flash'[key] = before[key]
    <3>1. Call.op = "cfg" => Call.val = plan[1].val
      BY <1>1, InsideKeys
    <3>2. plan[1].val # None
      BY <1>1, StoreAssumption DEF Jobs, Job
    <3>3. flash.cfg = None
      BY <2>4, <3>1, <3>2, InsideFlash
    <3>4. flash = before /\ Call.op = "cfg"
      BY <1>1, <3>3 DEF RecordFirst, Call
    <3> QED BY <3>4, InsideKeys DEF Mirrors, Keys
  <2>5. ASSUME NEW i \in 1 .. Len(todo')
        PROVE  todo'[i].op = "reopen"
    BY <2>2
  <2>6. \A key \in Mirrors : key # "reopen"
    BY DEF Mirrors
  <2> QED BY <1>1, <2>3, <2>4, <2>5, <2>6 DEF MirrorsFollow
<1>4. CASE ~resetting
  <2>1. todo' = UndoCalls(Job, attempted')
    BY <1>1, <1>4 DEF GiveUp
  <2>2. active = last
    BY <1>2 DEF InForce
  <2>3. OldBand = Set("band", before["band"]) /\ OldOwner = Set("owner", before["owner"])
    BY <1>2, <2>2, OldMirrors
  <2>4. /\ OldBand.op = "band" /\ OldBand.val = before["band"]
        /\ OldOwner.op = "owner" /\ OldOwner.val = before["owner"]
    BY <2>3 DEF Set
  <2> DEFINE record == Set("cfg", before.cfg)
  <2>5. record.op = "cfg" /\ Commit.op = "commit" /\ Reopen.op = "reopen"
    BY DEF Set, Commit, Reopen
  <2>6. \/ todo' = <<record, OldBand, OldOwner, Commit, Reopen>>
        \/ todo' = <<OldBand, OldOwner, Commit, Reopen>>
    BY <1>1, <2>1 DEF UndoCalls
  <2> HIDE DEF record
  <2>7. ASSUME NEW key \in Mirrors
        PROVE  /\ \A i \in 1 .. Len(todo') : todo'[i].op = key => todo'[i].val = before[key]
               /\ \E i \in 1 .. Len(todo') : todo'[i].op = key
    <3>1. key = "band" \/ key = "owner"
      BY DEF Mirrors
    <3>2. CASE todo' = <<record, OldBand, OldOwner, Commit, Reopen>>
      <4>1. /\ Len(todo') = 5 /\ todo'[1] = record /\ todo'[2] = OldBand /\ todo'[3] = OldOwner
            /\ todo'[4] = Commit /\ todo'[5] = Reopen
        BY <3>2
      <4> QED BY <2>4, <2>5, <3>1, <4>1
    <3>3. CASE todo' = <<OldBand, OldOwner, Commit, Reopen>>
      <4>1. /\ Len(todo') = 4 /\ todo'[1] = OldBand /\ todo'[2] = OldOwner
            /\ todo'[3] = Commit /\ todo'[4] = Reopen
        BY <3>3
      <4> QED BY <2>4, <2>5, <3>1, <4>1
    <3> QED BY <2>6, <3>2, <3>3
  <2> QED BY <1>1, <2>7 DEF MirrorsFollow
<1> QED BY <1>3, <1>4

\* A call of an undo puts back what it is for, unless it fails.
LEMMA UndoingMirrors ==
  ASSUME StoreInv, StoreInv', OwnKeys, MirrorsFollow, ~undoBroken', undoing, InsideASave, TakesCall
  PROVE  MirrorsFollow'
<1> USE DEF StoreInv
<1> SUFFICES ASSUME Saving', before'.cfg = None, NEW key \in Mirrors
             PROVE  /\ \A i \in 1 .. Len(todo') : todo'[i].op = key => todo'[i].val = before[key]
                    /\ flash'.cfg = None \/ HasRecord(todo') =>
                         \/ \E i \in 1 .. Len(todo') : todo'[i].op = key
                         \/ flash'[key] = before[key]
  <2>1. before' = before
    BY InsideStep
  <2> QED BY <2>1 DEF MirrorsFollow
<1>1. /\ Saving /\ plan' = plan /\ before' = before /\ todo # <<>> /\ todo \in Seq(NvsCalls)
      /\ todo' = Tail(todo)
  BY InsideStep DEF Saving, TakesCall, Queues
<1>2. /\ \A i \in 1 .. Len(todo) : todo[i].op = key => todo[i].val = before[key]
      /\ flash.cfg = None \/ HasRecord(todo) =>
           (\E i \in 1 .. Len(todo) : todo[i].op = key) \/ flash[key] = before[key]
  BY <1>1 DEF MirrorsFollow
<1>3. /\ Len(todo) \in Nat /\ Len(todo) > 0 /\ Len(todo') = Len(todo) - 1
      /\ \A i \in 1 .. Len(todo') : todo'[i] = todo[i + 1]
  BY <1>1
<1>4. \A i \in 1 .. Len(todo') : i + 1 \in 1 .. Len(todo) /\ todo'[i] = todo[i + 1]
  BY <1>3
<1>5. \A i \in 1 .. Len(todo') : todo'[i].op = key => todo'[i].val = before[key]
  BY <1>2, <1>4
<1>6. ASSUME flash'.cfg = None \/ HasRecord(todo')
      PROVE  flash.cfg = None \/ HasRecord(todo)
  <2>1. HasRecord(todo') => HasRecord(todo)
    BY CallTaken DEF InsideASave
  <2>2. Call.op = "cfg" => HasRecord(todo)
    BY <1>3 DEF HasRecord, Call
  <2> QED BY <1>6, <2>1, <2>2, InsideFlash
<1>7. flash'[key] = flash[key] \/ (Call.op = key /\ flash'[key] = Call.val)
  BY InsideKeys DEF Mirrors, Keys
<1>8. Call.op = key => flash'[key] = Call.val /\ Call.val = before[key]
  <2>1. Call.op = key => flash'[key] = Call.val
    BY InsideKeys DEF Mirrors, Keys
  <2>2. Call.op = key => Call.val = before[key]
    BY <1>2, <1>3 DEF Call
  <2> QED BY <2>1, <2>2
<1>9. ASSUME NEW i \in 1 .. Len(todo), todo[i].op = key, Call.op # key
      PROVE  \E k \in 1 .. Len(todo') : todo'[k].op = key
  <2>1. i # 1
    BY <1>9 DEF Call
  <2>2. i - 1 \in 1 .. Len(todo') /\ todo'[i - 1] = todo[i]
    BY <1>3, <2>1
  <2> QED BY <1>9, <2>2
<1> QED BY <1>2, <1>5, <1>6, <1>7, <1>8, <1>9

\* Between calls no one else changes what is in force.
LEMMA InsideRest ==
  ASSUME StoreInv, StoreInv', InForce, Opened, Covered, InsideASave
  PROVE  InForce' /\ Opened' /\ Covered'
<1> USE DEF StoreInv
<1>1. /\ todo # <<>> /\ todo' # <<>> /\ plan' = plan /\ (Saving' <=> Saving)
      /\ 1 \in 1 .. Len(plan)
  <2>1. todo # <<>> /\ todo' # <<>> /\ plan' = plan /\ (Saving' <=> Saving)
    BY InsideStep DEF InsideASave, Continues
  <2>2. plan \in Seq(Jobs) /\ plan # <<>>
    BY <2>1 DEF Queues
  <2> QED BY <2>1, <2>2
<1>2. UNCHANGED <<power, resetting, running, active, available, stored, last, attempt>>
  BY InsideEffects
<1>3. InForce'
  BY <1>2 DEF InForce
<1>4. ~Saving => flash'.cfg = flash.cfg
  <2>1. Call.op = "cfg" => Saving
    BY <1>1 DEF InHand, HasRecord, WellFormed, Call
  <2> QED BY <2>1, InsideFlash
<1>5. Opened'
  BY <1>1, <1>2, <1>4 DEF Opened, Dead
<1>6. ASSUME NEW i \in 1 .. Len(plan), plan[i].kind = "rest"
      PROVE  /\ running = "save"
             /\ flash'.cfg # None \/ \E j \in 1 .. i - 1 : plan[j].kind = "policy"
  <2>1. CASE Saving
    <3>1. plan[1].kind = "policy"
      BY <2>1 DEF Saving
    <3>2. 1 \in 1 .. i - 1
      BY <1>6, <3>1
    <3> QED BY <1>6, <3>1, <3>2 DEF Covered
  <2>2. CASE ~Saving
    BY <1>4, <1>6, <2>2 DEF Covered
  <2> QED BY <2>1, <2>2
<1>7. plan[1].kind = "cache" => flash'.cfg # None
  <2>1. plan[1].kind = "cache" => ~Saving
    BY DEF Saving
  <2> QED BY <1>1, <1>4, <2>1 DEF Covered
<1>8. Covered'
  BY <1>1, <1>2, <1>6, <1>7 DEF Covered
<1> QED BY <1>3, <1>5, <1>8

\* While a save is under way the device is on.
LEMMA BusyIsOn ==
  ASSUME StoreInv, OffIdle, plan # <<>>, todo # <<>> \/ ~resetting
  PROVE  power = "on"
BY DEF StoreInv, TypeOK, Queues, Wiped, OffIdle

LEMMA InsideKeeps ==
  ASSUME StoreInv, StoreInv', PolicyInv, InsideASave
  PROVE  PolicyInv'
<1> USE DEF StoreInv
<1>1. OwnKeys'
  BY InsideOwn DEF PolicyInv
<1>2. Restoring'
  BY InsideEffects DEF PolicyInv, Restoring, InsideASave, Continues, TakesCall, TurnsBack
<1>3. OffIdle'
  BY InsideEffects DEF PolicyInv, OffIdle
<1>4. ASSUME ~undoBroken'
      PROVE  Kept'
  <2>1. Kept /\ OwnKeys
    BY <1>4, InsideEffects DEF PolicyInv
  <2>2. FlashTells' /\ BeforeTells' /\ RecordFirst' /\ InForce' /\ Opened' /\ Covered'
    BY <2>1, InsideTells, InsideBefore, InsideFirst, InsideRest DEF Kept
  <2>3. MirrorsFollow'
    <3>1. CASE TurnsBack
      <4>1. power = "on"
        BY BusyIsOn DEF PolicyInv, InsideASave, Continues, Queues
      <4> QED BY <2>1, <3>1, <4>1, TurningMirrors DEF Kept
    <3>2. CASE TakesCall /\ undoing
      BY <1>4, <2>1, <3>2, UndoingMirrors DEF Kept
    <3>3. CASE TakesCall /\ ~undoing
      BY <3>3 DEF TakesCall, MirrorsFollow
    <3> QED BY <3>1, <3>2, <3>3 DEF InsideASave, Continues
  <2> QED BY <2>2, <2>3 DEF Kept
<1> QED BY <1>1, <1>2, <1>3, <1>4 DEF PolicyInv

-----------------------------------------------------------------------------
(* The start and the end of a job *)

\* When no call is left, nothing is said of a save.
LEMMA Resting ==
  ASSUME todo' = <<>>
  PROVE  ~Saving' /\ BeforeTells' /\ RecordFirst' /\ MirrorsFollow' /\ OwnKeys'
BY DEF Saving, BeforeTells, RecordFirst, MirrorsFollow, OwnKeys

LEMMA CoveredTail ==
  ASSUME plan \in Seq(Jobs), plan # <<>>, Covered, plan' = Tail(plan), todo' = <<>>,
         running' = running, flash' = flash, plan[1].kind = "policy" => flash.cfg # None
  PROVE  Covered'
<1>1. /\ Len(plan) \in Nat /\ Len(plan) > 0 /\ Len(plan') = Len(plan) - 1
      /\ \A i \in 1 .. Len(plan') : plan'[i] = plan[i + 1]
  OBVIOUS
<1>2. ASSUME NEW i \in 1 .. Len(plan'), plan'[i].kind = "rest"
      PROVE  /\ running' = "save"
             /\ flash'.cfg # None \/ \E j \in 1 .. i - 1 : plan'[j].kind = "policy"
  <2>1. i + 1 \in 1 .. Len(plan) /\ plan[i + 1].kind = "rest"
    BY <1>1, <1>2
  <2>2. running = "save" /\ (flash.cfg # None \/ \E j \in 1 .. i : plan[j].kind = "policy")
    <3>1. (i + 1) - 1 = i
      OBVIOUS
    <3> QED BY <2>1, <3>1 DEF Covered
  <2>3. ASSUME NEW j \in 1 .. i, plan[j].kind = "policy", flash.cfg = None
        PROVE  \E k \in 1 .. i - 1 : plan'[k].kind = "policy"
    <3>1. j # 1
      BY <2>3
    <3>2. j - 1 \in 1 .. i - 1 /\ j - 1 \in 1 .. Len(plan')
      BY <1>1, <3>1
    <3>3. plan'[j - 1] = plan[j]
      BY <1>1, <3>2
    <3> QED BY <2>3, <3>2, <3>3
  <2> QED BY <2>2, <2>3
<1> QED BY <1>2 DEF Covered

LEMMA CoveredCons ==
  ASSUME plan \in Seq(Jobs), NEW job \in Jobs, job.kind # "rest", Covered,
         plan' = <<job>> \o plan, todo' = <<>>, running' = running, flash' = flash
  PROVE  Covered'
<1>1. /\ Len(plan) \in Nat /\ Len(plan') = Len(plan) + 1 /\ plan'[1] = job
      /\ \A i \in 1 .. Len(plan) : plan'[i + 1] = plan[i]
  OBVIOUS
<1>2. ASSUME NEW i \in 1 .. Len(plan'), plan'[i].kind = "rest"
      PROVE  /\ running' = "save"
             /\ flash'.cfg # None \/ \E j \in 1 .. i - 1 : plan'[j].kind = "policy"
  <2>1. i # 1
    BY <1>1, <1>2
  <2>2. i - 1 \in 1 .. Len(plan) /\ plan[i - 1] = plan'[i]
    BY <1>1, <2>1
  <2>3. /\ running = "save"
        /\ flash.cfg # None \/ \E j \in 1 .. (i - 1) - 1 : plan[j].kind = "policy"
    BY <1>2, <2>2 DEF Covered
  <2>4. ASSUME NEW j \in 1 .. (i - 1) - 1, plan[j].kind = "policy"
        PROVE  \E k \in 1 .. i - 1 : plan'[k].kind = "policy"
    <3>1. j + 1 \in 1 .. i - 1 /\ j \in 1 .. Len(plan)
      BY <2>2
    <3> QED BY <1>1, <2>4, <3>1
  <2> QED BY <2>3, <2>4
<1> QED BY <1>2 DEF Covered

LEMMA CoveredEmpty ==
  ASSUME plan' = <<>>, todo' = <<>>
  PROVE  Covered'
BY DEF Covered

\* The end of a job leaves a record, when the policy was the job, or ends the plan.
LEMMA CoveredEnds ==
  ASSUME Queues, Covered, plan # <<>>, flash' = flash,
         JobFails \/ (JobDone /\ (plan[1].kind = "policy" => flash.cfg # None))
  PROVE  Covered'
<1>1. plan \in Seq(Jobs)
  BY DEF Queues
<1>2. CASE /\ JobDone /\ Len(plan) > 1
           /\ plan[1].kind = "policy" => flash.cfg # None
  <2>1. running' = running /\ plan' = Tail(plan) /\ todo' = <<>>
    BY <1>2 DEF JobDone, Begin
  <2> QED BY <1>1, <1>2, <2>1, CoveredTail
<1>3. CASE JobFails /\ GoesOn
  <2>1. running' = running /\ plan' = Tail(plan) /\ todo' = <<>> /\ running = "boot"
    BY <1>3 DEF JobFails, Begin, GoesOn
  <2>2. \A i \in 1 .. Len(plan') : i + 1 \in 1 .. Len(plan) /\ plan'[i] = plan[i + 1]
    BY <1>1, <2>1
  <2>3. \A i \in 1 .. Len(plan') : plan'[i].kind # "rest"
    BY <2>1, <2>2 DEF Covered
  <2> QED BY <2>1, <2>3 DEF Covered
<1>4. CASE (JobDone /\ ~(Len(plan) > 1)) \/ (JobFails /\ ~GoesOn)
  <2>1. plan' = <<>> /\ todo' = <<>>
    BY <1>4 DEF JobDone, JobFails, Release, Begin
  <2> QED BY <2>1, CoveredEmpty
<1> QED BY <1>2, <1>3, <1>4

\* What the end of a job must leave.
LEMMA EndKeeps ==
  ASSUME StoreInv, PolicyInv, plan # <<>>, UNCHANGED <<flash, power>>,
         JobFails \/ JobDone,
         ~undoBroken' =>
           /\ ~undoBroken /\ Tells(flash, last', attempt') /\ InForce' /\ Opened'
           /\ JobFails \/ (JobDone /\ (plan[1].kind = "policy" => flash.cfg # None))
  PROVE  PolicyInv'
<1> USE DEF StoreInv
<1>1. todo' = <<>> /\ restored' = TRUE
  BY JobEnds
<1>2. running # "none"
  BY DEF Queues
<1>3. OffIdle'
  BY <1>2 DEF PolicyInv, OffIdle
<1>4. ASSUME ~undoBroken'
      PROVE  Kept'
  <2>1. Covered'
    BY <1>4, CoveredEnds DEF PolicyInv, Kept
  <2>2. FlashTells'
    BY <1>4 DEF FlashTells
  <2> QED BY <1>1, <1>4, <2>1, <2>2, Resting DEF Kept
<1> QED BY <1>1, <1>3, <1>4, Resting DEF PolicyInv, Restoring

\* A policy saved is in force, and the last.
LEMMA CommitKeeps ==
  ASSUME StoreInv, PolicyInv, CommitSave, JobDone, Call = Commit, ~undoing
  PROVE  PolicyInv'
<1> USE DEF StoreInv
<1>1. /\ todo # <<>> /\ plan # <<>> /\ UNCHANGED <<flash, power, resetting, undoBroken>>
  BY DEF CommitSave, Queues
<1>2. todo' = <<>> /\ undoing' = FALSE /\ ~Saving'
  BY <1>1, JobEnds, Resting
<1>3. CASE Job.kind = "policy"
  <2>1. /\ active' = Job.val /\ available' = TRUE /\ stored' = TRUE /\ last' = Job.val
        /\ attempt' = None
    BY <1>2, <1>3 DEF CommitSave, GiveUp
  <2>2. flash.cfg = Job.val
    BY <1>1, <1>3, CommittedRecord DEF Job
  <2>3. Job.val \in Policies /\ Job.val # None
    BY <1>1, <1>3, CallsAreTyped, StoreAssumption DEF Jobs
  <2>4. Tells(flash, last', attempt')
    BY <2>1, <2>2, <2>3 DEF Tells
  <2>5. InForce' /\ Opened'
    BY <2>1 DEF InForce, Opened
  <2> QED BY <1>1, <2>2, <2>3, <2>4, <2>5, EndKeeps
<1>4. CASE Job.kind # "policy"
  <2>1. UNCHANGED <<active, available, stored, last, attempt>>
    BY <1>2, <1>4 DEF CommitSave, GiveUp
  <2>2. ~Saving
    BY <1>4 DEF Saving, Job
  <2>3. ASSUME ~undoBroken
        PROVE  Tells(flash, last', attempt') /\ InForce' /\ Opened'
    <3>1. Tells(flash, last, attempt) /\ InForce /\ Opened
      BY <2>2, <2>3 DEF PolicyInv, Kept, FlashTells
    <3> QED BY <1>1, <2>1, <2>2, <3>1 DEF InForce, Opened, Dead
  <2> QED BY <1>1, <1>4, <2>3, EndKeeps DEF Job
<1> QED BY <1>3, <1>4

\* The migrations end even when their commit fails.
LEMMA MigrationKeeps ==
  ASSUME StoreInv, PolicyInv, CommitFails, JobDone, Job.kind = "migrate"
  PROVE  PolicyInv'
<1> USE DEF StoreInv
<1>1. /\ todo # <<>> /\ plan # <<>> /\ undoBroken' = (undoBroken \/ undoing)
      /\ UNCHANGED <<flash, power, resetting, active, available, stored, last, attempt>>
  BY DEF CommitFails, Queues, storeVars
<1>2. ~Saving
  BY DEF Saving, Job
<1>3. ASSUME ~undoBroken'
      PROVE  ~undoBroken /\ Tells(flash, last', attempt') /\ InForce' /\ Opened'
  <2>1. ~undoBroken
    BY <1>1, <1>3 DEF TypeOK
  <2>2. Tells(flash, last, attempt) /\ InForce /\ Opened
    BY <1>2, <2>1 DEF PolicyInv, Kept, FlashTells
  <2> QED BY <1>1, <1>2, <2>1, <2>2 DEF InForce, Opened, Dead
<1> QED BY <1>1, <1>3, EndKeeps DEF Job

\* After an undo the namespace stands for the last policy again.
LEMMA UndoneTells ==
  ASSUME StoreInv, Kept, OwnKeys, todo = <<Reopen>>, Saving, undoing
  PROVE  /\ flash.cfg = None => StandsFor(flash, last)
         /\ flash.cfg \in Policies => flash.cfg \in {last, attempt}
         /\ flash.cfg = before.cfg /\ flash.cfg \in Policies => flash.cfg = last
<1> USE DEF StoreInv
<1>1. /\ before.cfg = None => StandsFor(before, last)
      /\ before.cfg \in Policies => before.cfg = last
      /\ attempt = plan[1].val
      /\ flash.cfg \in {before.cfg, plan[1].val}
      /\ \A key \in Keys \ ({"cfg"} \cup Mirrors) : flash[key] = before[key]
  BY DEF Kept, BeforeTells
<1>2. plan[1].val \in Policies /\ plan[1].val # None
  <2>1. Job \in Jobs /\ Job.kind = "policy"
    BY CallsAreTyped DEF Saving, Job
  <2> QED BY <2>1, StoreAssumption DEF Jobs, Job
<1>3. ASSUME flash.cfg = None
      PROVE  StandsFor(flash, last)
  <2>1. before.cfg = None
    BY <1>1, <1>2, <1>3
  <2>2. Len(todo) = 1 /\ todo[1].op = "reopen"
    BY DEF Reopen
  <2>3. \A key \in Mirrors : flash[key] = before[key]
    <3>1. \A key \in Mirrors : ~(\E i \in 1 .. Len(todo) : todo[i].op = key)
      BY <2>2 DEF Mirrors
    <3> QED BY <1>3, <2>1, <3>1 DEF Kept, MirrorsFollow
  <2>4. flash.band = before.band /\ flash.owner = before.owner
    BY <2>3 DEF Mirrors
  <2>5. flash.cache = before.cache /\ flash.rest = before.rest /\ flash.legacy = before.legacy
    BY <1>1 DEF Mirrors, Keys
  <2>6. flash \in Flash /\ before \in Flash
    BY DEF TypeOK
  <2> QED BY <1>1, <1>3, <2>1, <2>4, <2>5, <2>6, SameStanding
<1> QED BY <1>1, <1>3

LEMMA DiscardKeeps ==
  ASSUME StoreInv, PolicyInv, Discard
  PROVE  PolicyInv'
<1> USE DEF StoreInv
<1>1. /\ todo = <<Reopen>> /\ todo # <<>> /\ plan # <<>> /\ JobFails
      /\ UNCHANGED <<flash, power, resetting, active, stored, last, undoBroken>>
      /\ available' = (available /\ ~(Job.kind = "policy" /\ attempted /\ ~restored))
      /\ attempt' = IF Job.kind = "policy" /\ restored /\ ~resetting THEN None ELSE attempt
  BY DEF Discard, Queues
<1>2. Len(todo) = 1 /\ todo[1] = Reopen /\ ~HasRecord(todo)
  BY <1>1, Ops DEF HasRecord, Keys
<1>3. undoing
  BY <1>1, <1>2, Ops DEF InHand, WellFormed
<1>4. ~Saving'
  BY <1>1, JobEnds, Resting
<1>5. ASSUME ~undoBroken
      PROVE  Tells(flash, last', attempt') /\ InForce' /\ Opened'
  <2>1. Kept /\ OwnKeys /\ restored
    BY <1>5 DEF PolicyInv, Restoring
  <2>2. available' = available
    BY <1>1, <2>1 DEF TypeOK
  <2>3. InForce'
    BY <1>1, <2>1, <2>2 DEF Kept, InForce
  <2>4. CASE Saving
    <3>1. /\ flash.cfg = None => StandsFor(flash, last)
          /\ flash.cfg \in Policies => flash.cfg \in {last, attempt}
          /\ flash.cfg = before.cfg /\ flash.cfg \in Policies => flash.cfg = last
      BY <1>1, <1>3, <2>1, <2>4, UndoneTells
    <3>2. ~resetting => flash.cfg = before.cfg
      BY <1>2, <1>3, <2>1, <2>4 DEF RecordInFlash
    <3>3. Job.kind = "policy"
      BY <2>4 DEF Saving, Job
    <3>4. Tells(flash, last', attempt')
      BY <1>1, <2>1, <3>1, <3>2, <3>3 DEF Tells
    <3>5. ~resetting' => attempt' = None /\ (flash'.cfg = None => available')
      BY <1>1, <2>1, <2>2, <2>4, <3>2, <3>3 DEF Kept, BeforeTells
    <3>6. Opened'
      BY <3>5 DEF Opened
    <3> QED BY <2>3, <3>4, <3>6
  <2>5. CASE ~Saving
    <3>1. attempt' = attempt
      BY <1>1, <2>5 DEF Saving, Job
    <3>2. Tells(flash, last', attempt')
      BY <1>1, <2>1, <2>5, <3>1 DEF Kept, FlashTells
    <3>3. Opened'
      BY <1>1, <2>1, <2>2, <2>5, <3>1 DEF Kept, Opened, Dead
    <3> QED BY <2>3, <3>2, <3>3
  <2> QED BY <2>4, <2>5
<1> QED BY <1>1, <1>5, EndKeeps

\* A job is started by a store that was opened, or ended at once.
LEMMA StartFacts ==
  ASSUME StoreInv, PolicyInv, StartJob
  PROVE  /\ plan # <<>> /\ plan \in Seq(Jobs) /\ Job \in Jobs /\ todo = <<>>
         /\ ~Saving /\ ~undoing /\ restored
         /\ UNCHANGED <<flash, power, handle, resetting, active, available, stored, last,
                        undoBroken>>
         /\ running # "none"
         /\ Writable => power = "on"
         /\ ~undoBroken /\ (Writable \/ ~Checked) /\ power = "on" /\ ~resetting =>
              attempt = None /\ (flash.cfg = None => available)
<1> USE DEF StoreInv
<1>1. /\ plan # <<>> /\ plan \in Seq(Jobs) /\ Job \in Jobs /\ todo = <<>>
      /\ ~Saving /\ ~undoing /\ running # "none"
  BY DEF StartJob, Queues, Saving, Job
<1>2. restored
  BY <1>1 DEF PolicyInv, Restoring
<1>3. UNCHANGED <<flash, power, handle, resetting, active, available, stored, last, undoBroken>>
  BY DEF StartJob, storeVars
<1>4. Writable => power = "on"
  BY <1>1, BusyIsOn DEF PolicyInv, Writable
<1>5. ASSUME ~undoBroken, Writable \/ ~Checked, power = "on", ~resetting
      PROVE  attempt = None /\ (flash.cfg = None => available)
  <2>1. ~Dead
    BY <1>1, <1>5 DEF Dead, Writable, Checked, Job
  <2> QED BY <1>1, <1>5, <2>1 DEF PolicyInv, Kept, Opened
<1> QED BY <1>1, <1>2, <1>3, <1>4, <1>5

\* A job that needs none of its calls.
LEMMA StartEnds ==
  ASSUME StoreInv, PolicyInv, StartJob, attempt' = attempt,
         \/ ~Writable /\ Checked /\ JobFails
         \/ (Writable \/ ~Checked) /\ AlreadySaved(Job) /\ JobDone
         \/ Writable /\ JobFails
  PROVE  PolicyInv'
<1> USE DEF StoreInv
<1>1. /\ plan # <<>> /\ plan \in Seq(Jobs) /\ Job \in Jobs /\ todo = <<>> /\ ~Saving
      /\ UNCHANGED <<flash, power, handle, resetting, active, available, stored, last,
                     undoBroken>>
      /\ Writable => power = "on"
      /\ ~undoBroken /\ (Writable \/ ~Checked) /\ power = "on" /\ ~resetting =>
           attempt = None /\ (flash.cfg = None => available)
  BY StartFacts
<1>2. ASSUME ~undoBroken
      PROVE  Tells(flash, last', attempt') /\ InForce'
  BY <1>1, <1>2 DEF PolicyInv, Kept, FlashTells, InForce
<1>3. ASSUME ~undoBroken, Writable \/ ~Checked
      PROVE  Opened'
  BY <1>1, <1>3 DEF Opened
<1>4. ASSUME ~undoBroken, ~Writable /\ Checked /\ JobFails
      PROVE  Opened'
  <2> SUFFICES ASSUME power = "on", ~resetting, attempt # None \/ (flash.cfg = None /\ ~available)
               PROVE  Dead'
    BY <1>1 DEF Opened
  <2>1. Dead
    BY <1>1, <1>4 DEF PolicyInv, Kept, Opened
  <2>2. todo' = <<>> /\ plan' = <<>> /\ running' \in {"none", running}
    BY <1>1, <1>4, <2>1, JobEnds DEF Dead
  <2> QED BY <1>1, <2>1, <2>2 DEF Dead
<1>5. ASSUME AlreadySaved(Job), Writable \/ ~Checked, plan[1].kind = "policy"
      PROVE  flash.cfg # None
  <2>1. available /\ stored /\ Writable /\ power = "on"
    BY <1>1, <1>5 DEF AlreadySaved, Job, Checked
  <2>2. flash.cfg = active
    BY <1>1, <2>1 DEF Held, Writable
  <2> QED BY <2>2, StoreAssumption DEF TypeOK
<1>6. ~undoBroken' =>
        /\ ~undoBroken /\ Tells(flash, last', attempt') /\ InForce' /\ Opened'
        /\ JobFails \/ (JobDone /\ (plan[1].kind = "policy" => flash.cfg # None))
  BY <1>1, <1>2, <1>3, <1>4, <1>5
<1> QED BY <1>1, <1>6, EndKeeps

\* A job that makes way for another.
LEMMA StartYields ==
  ASSUME StoreInv, PolicyInv, StartJob, attempt' = attempt, Writable \/ ~Checked,
         NEW job \in Jobs, job.kind # "rest", Begin(running, <<job>> \o plan)
  PROVE  PolicyInv'
<1> USE DEF StoreInv
<1>1. /\ plan # <<>> /\ plan \in Seq(Jobs) /\ todo = <<>> /\ ~Saving
      /\ UNCHANGED <<flash, power, handle, resetting, active, available, stored, last,
                     undoBroken>>
      /\ ~undoBroken /\ (Writable \/ ~Checked) /\ power = "on" /\ ~resetting =>
           attempt = None /\ (flash.cfg = None => available)
  BY StartFacts
<1>2. running' = running /\ plan' = <<job>> \o plan /\ todo' = <<>> /\ restored' = TRUE
  BY DEF Begin
<1>3. ASSUME ~undoBroken'
      PROVE  Kept'
  <2>1. Kept
    BY <1>1, <1>3 DEF PolicyInv
  <2>2. FlashTells' /\ InForce' /\ Opened'
    BY <1>1, <1>3, <2>1 DEF Kept, FlashTells, InForce, Opened
  <2>3. Covered'
    BY <1>1, <1>2, <2>1, CoveredCons DEF Kept
  <2> QED BY <1>2, <2>2, <2>3, Resting DEF Kept
<1> QED BY <1>1, <1>2, <1>3, Resting DEF PolicyInv, Restoring, OffIdle

\* A job whose calls begin.
LEMMA StartCalls ==
  ASSUME StoreInv, StoreInv', PolicyInv, StartJob, Writable \/ ~Checked, ~NeedsPolicy(Job),
         todo' = Calls(Job), before' = flash,
         attempt' = IF Job.kind = "policy" THEN Job.val ELSE attempt,
         UNCHANGED <<running, plan, undoing, attempted, restored>>
  PROVE  PolicyInv'
<1> USE DEF StoreInv
<1>1. /\ plan # <<>> /\ plan \in Seq(Jobs) /\ Job \in Jobs /\ todo = <<>> /\ ~Saving
      /\ ~undoing /\ restored
      /\ UNCHANGED <<flash, power, handle, resetting, active, available, stored, last,
                     undoBroken>>
      /\ Writable => power = "on"
      /\ ~undoBroken /\ (Writable \/ ~Checked) /\ power = "on" /\ ~resetting =>
           attempt = None /\ (flash.cfg = None => available)
  BY StartFacts
<1>2. OwnKeys' /\ Restoring' /\ OffIdle'
  BY <1>1, SaveIsOwn DEF OwnKeys, Job, PolicyInv, Restoring, OffIdle
<1>3. ASSUME ~undoBroken'
      PROVE  Kept'
  <2>1. Kept
    BY <1>1, <1>3 DEF PolicyInv
  <2>2. Tells(flash, last, attempt)
    BY <1>1, <2>1 DEF Kept, FlashTells
  <2>3. InForce' /\ MirrorsFollow'
    BY <1>1, <2>1 DEF Kept, InForce, MirrorsFollow
  <2>4. CASE Job.kind = "policy"
    <3>1. attempt = None /\ (flash.cfg = None => available)
      BY <1>1, <1>3, <2>4 DEF Checked, Writable
    <3>2. flash.cfg \in Policies => flash.cfg = last
      BY <2>2, <3>1, StoreAssumption DEF Tells
    <3>3. FlashTells'
      BY <1>1, <2>2, <3>2 DEF FlashTells, Tells
    <3>4. BeforeTells'
      BY <1>1, <2>2, <2>4, <3>1, <3>2 DEF BeforeTells, Tells, Job
    <3>5. flash.cfg = None => todo'[1].op = "cfg"
      BY <2>4 DEF Calls, PolicyCalls, Set
    <3>6. RecordFirst'
      BY <1>1, <3>5 DEF RecordFirst
    <3>7. WellFormed(todo', Commit, Job.val)
      BY <1>1, SaveCalls
    <3>8. Opened'
      BY <1>1, <2>4, <3>7 DEF Opened, Saving, Job, WellFormed
    <3>9. Covered'
      BY <1>1, <2>1, <2>4 DEF Kept, Covered, Job
    <3> QED BY <2>3, <3>3, <3>4, <3>6, <3>8, <3>9 DEF Kept
  <2>5. CASE Job.kind # "policy"
    <3>1. ~Saving' /\ attempt' = attempt
      BY <1>1, <2>5 DEF Saving, Job
    <3>2. FlashTells' /\ BeforeTells' /\ RecordFirst' /\ Opened'
      BY <1>1, <1>3, <2>2, <3>1 DEF FlashTells, BeforeTells, RecordFirst, Opened
    <3>3. Job.kind = "cache" => flash.cfg # None
      <4>1. Job.kind = "cache" => stored /\ Writable /\ power = "on"
        BY <1>1 DEF NeedsPolicy, Checked
      <4>2. Job.kind = "cache" => available
        BY <2>1, <4>1 DEF Kept, InForce
      <4>3. Job.kind = "cache" => flash.cfg = active
        BY <1>1, <4>1, <4>2 DEF Held, Writable
      <4> QED BY <4>3, StoreAssumption DEF TypeOK
    <3>4. Covered'
      BY <1>1, <2>1, <3>3 DEF Kept, Covered, Job
    <3> QED BY <2>3, <3>2, <3>4 DEF Kept
  <2> QED BY <2>4, <2>5
<1> QED BY <1>1, <1>2, <1>3 DEF PolicyInv

LEMMA StartKeeps ==
  ASSUME StoreInv, StoreInv', PolicyInv, StartJob
  PROVE  PolicyInv'
<1>1. active \in Policies /\ choice \in BOOLEAN
  BY DEF StoreInv, TypeOK
<1>2. /\ Single(choice) \in Jobs /\ Single(choice).kind # "rest"
      /\ Policy(active) \in Jobs /\ Policy(active).kind # "rest"
  BY <1>1, JobTypes DEF Single, Policy
<1>3. CASE ~Writable /\ Checked
  BY <1>3, StartEnds DEF StartJob
<1>4. CASE Writable \/ ~Checked
  <2>1. CASE NeedsChoice(Job)
    BY <1>2, <1>4, <2>1, StartYields DEF StartJob
  <2>2. CASE ~NeedsChoice(Job) /\ AlreadySaved(Job)
    BY <1>4, <2>2, StartEnds DEF StartJob
  <2>3. CASE ~NeedsChoice(Job) /\ ~AlreadySaved(Job) /\ NeedsPolicy(Job)
    <3>1. Writable /\ attempt' = attempt
      BY <1>4, <2>3 DEF StartJob, NeedsPolicy, Checked
    <3>2. CASE available
      BY <1>2, <1>4, <2>3, <3>1, <3>2, StartYields DEF StartJob
    <3>3. CASE ~available
      BY <1>4, <2>3, <3>1, <3>3, StartEnds DEF StartJob
    <3> QED BY <3>2, <3>3
  <2>4. CASE ~NeedsChoice(Job) /\ ~AlreadySaved(Job) /\ ~NeedsPolicy(Job)
    BY <1>4, <2>4, StartCalls DEF StartJob
  <2> QED BY <2>1, <2>2, <2>3, <2>4
<1> QED BY <1>3, <1>4

-----------------------------------------------------------------------------
(* Between saves *)

\* Between saves the namespace stands for the policy in force.
LEMMA Between ==
  ASSUME StoreInv, PolicyInv, running = "none"
  PROVE  /\ plan = <<>> /\ todo = <<>> /\ ~Saving /\ ~undoing /\ restored
         /\ ~undoBroken => Tells(flash, last, attempt)
<1>1. plan = <<>> /\ todo = <<>> /\ ~Saving /\ ~undoing
  BY NoneUnderWay DEF StoreInv, Queues
<1> QED BY <1>1 DEF PolicyInv, Restoring, Kept, FlashTells

\* A caller that asks for one job.
LEMMA CallKeeps ==
  ASSUME StoreInv, PolicyInv, Free, NEW who, who # "boot", NEW job \in Jobs,
         job.kind \in {"single", "policy", "cache"}, Begin(who, <<job>>),
         UNCHANGED <<flash, power, handle, resetting, active, available, stored, last, attempt,
                     undoBroken>>
  PROVE  PolicyInv'
<1>1. /\ plan = <<>> /\ todo = <<>> /\ ~Saving /\ ~undoing /\ restored /\ power # "off"
      /\ ~undoBroken => Tells(flash, last, attempt)
  BY Between DEF Free
<1>2. /\ running' = who /\ todo' = <<>> /\ restored' = TRUE /\ undoing' = FALSE
      /\ plan' = <<job>>
  BY DEF Begin
<1>3. Len(plan') = 1 /\ plan'[1] = job
  BY <1>2
<1>4. ASSUME ~undoBroken'
      PROVE  Kept'
  <2>1. Kept
    BY <1>4 DEF PolicyInv
  <2>2. FlashTells' /\ InForce'
    BY <1>1, <1>4, <2>1 DEF Kept, FlashTells, InForce
  <2>3. Opened'
    BY <1>1, <1>2, <1>3, <2>1 DEF Kept, Opened, Dead
  <2>4. \A i \in 1 .. Len(plan') : plan'[i].kind # "rest"
    BY <1>3
  <2>5. Covered'
    BY <1>2, <2>4 DEF Covered
  <2> QED BY <1>2, <2>2, <2>3, <2>5, Resting DEF Kept
<1> QED BY <1>1, <1>2, <1>4, Resting DEF PolicyInv, Restoring, OffIdle

\* save() writes over a record, or saves the policy first.
LEMMA SaveKeeps ==
  ASSUME StoreInv, PolicyInv, Save
  PROVE  PolicyInv'
<1>1. /\ plan = <<>> /\ todo = <<>> /\ ~Saving /\ ~undoing /\ power # "off" /\ Writable
      /\ ~undoBroken => Tells(flash, last, attempt)
  BY Between DEF Save, Free
<1>2. UNCHANGED <<flash, power, handle, resetting, active, available, stored, last, attempt,
                  undoBroken>>
  BY DEF Save, storeVars, historyVars
<1>3. /\ running' = "save" /\ todo' = <<>> /\ restored' = TRUE /\ undoing' = FALSE
      /\ plan' = (IF available THEN <<Policy(active)>> ELSE <<>>) \o <<Rest>>
  BY DEF Save, Begin
<1>4. power = "on" /\ ~resetting
  BY <1>1 DEF Writable, StoreInv, Wiped, TypeOK
<1>5. ASSUME ~undoBroken'
      PROVE  Kept'
  <2>1. Kept
    BY <1>2, <1>5 DEF PolicyInv
  <2>2. FlashTells' /\ InForce'
    BY <1>1, <1>2, <1>3, <1>5, <2>1 DEF Kept, FlashTells, InForce
  <2>3. ~(attempt # None \/ (flash.cfg = None /\ ~available))
    BY <1>1, <1>4, <2>1 DEF Kept, Opened, Dead, Writable
  <2>4. Opened'
    BY <1>2, <2>3 DEF Opened
  <2>5. CASE available
    <3>1. plan' = <<Policy(active)>> \o <<Rest>>
      BY <1>3, <2>5
    <3>2. Len(plan') = 2 /\ plan'[1].kind = "policy"
      <4>1. Len(plan') = 2 /\ plan'[1] = Policy(active)
        BY <3>1
      <4> QED BY <4>1 DEF Policy
    <3>3. \A i \in 1 .. Len(plan') : plan'[i].kind = "rest" => 1 \in 1 .. i - 1
      BY <3>2
    <3>4. Covered'
      BY <1>3, <3>2, <3>3 DEF Covered
    <3> QED BY <1>3, <2>2, <2>4, <3>4, Resting DEF Kept
  <2>6. CASE ~available
    <3>1. flash'.cfg # None
      BY <1>2, <2>3, <2>6
    <3>2. Covered'
      BY <1>3, <3>1 DEF Covered
    <3> QED BY <1>3, <2>2, <2>4, <3>2, Resting DEF Kept
  <2> QED BY <2>5, <2>6
<1> QED BY <1>1, <1>2, <1>3, <1>5, Resting DEF PolicyInv, Restoring, OffIdle

\* The other callers.
LEMMA CallersKeep ==
  ASSUME StoreInv, PolicyInv,
         \/ SavePolicy \/ SaveRanges \/ HandOver \/ StoreChoice \/ TakeBack
         \/ \E single \in BOOLEAN : ChooseAutoSingle(single) /\ ~UNCHANGED saveVars
  PROVE  PolicyInv'
<1>1. active \in Policies /\ wish \in BOOLEAN /\ previous \in Policies \cup {None}
  BY DEF StoreInv, TypeOK
<1>2. \A b \in BOOLEAN : Single(b) \in Jobs /\ Single(b).kind = "single"
  BY JobTypes DEF Single
<1>3. \A p \in Policies : Policy(p) \in Jobs /\ Policy(p).kind = "policy"
  BY JobTypes DEF Policy
<1>4. CASE SavePolicy
  <2>1. PICK next \in Edits : Begin("policy", <<Policy(next)>>)
    BY <1>4 DEF SavePolicy
  <2>2. next \in Policies
    BY DEF Edits
  <2> QED BY <1>3, <1>4, <2>1, <2>2, CallKeeps DEF SavePolicy, storeVars, historyVars
<1>5. CASE SaveRanges
  <2>1. Cache \in Jobs /\ Cache.kind = "cache"
    BY JobTypes DEF Cache
  <2> QED BY <1>5, <2>1, CallKeeps DEF SaveRanges, storeVars, historyVars
<1>6. CASE HandOver
  <2>1. [active EXCEPT !.owner = "unit"] \in Policies
    BY <1>1 DEF Policies, Owners
  <2> QED BY <1>3, <1>6, <2>1, CallKeeps DEF HandOver, storeVars, historyVars
<1>7. CASE StoreChoice
  BY <1>1, <1>2, <1>7, CallKeeps DEF StoreChoice, storeVars, historyVars
<1>8. CASE TakeBack
  <2>1. previous \in Policies
    BY <1>1, <1>8 DEF TakeBack, StoreInv, Queues
  <2> QED BY <1>3, <1>8, <2>1, CallKeeps DEF TakeBack, storeVars, historyVars
<1>9. ASSUME NEW single \in BOOLEAN, ChooseAutoSingle(single), ~UNCHANGED saveVars
      PROVE  PolicyInv'
  <2>1. PICK b \in Bands :
          Begin("import", <<Policy([active EXCEPT !.band = b, !.owner = "unit"])>>)
    BY <1>9 DEF ChooseAutoSingle
  <2>2. [active EXCEPT !.band = b, !.owner = "unit"] \in Policies
    BY <1>1 DEF Policies, Owners
  <2> QED BY <1>3, <1>9, <2>1, <2>2, CallKeeps DEF ChooseAutoSingle, storeVars
<1> QED BY <1>4, <1>5, <1>6, <1>7, <1>8, <1>9

-----------------------------------------------------------------------------
(* Restarts and the reset *)

LEMMA BothWithoutRest ==
  ASSUME NEW first \in Seq(Jobs), NEW second \in Seq(Jobs),
         \A i \in 1 .. Len(first) : first[i].kind # "rest",
         \A i \in 1 .. Len(second) : second[i].kind # "rest"
  PROVE  \A i \in 1 .. Len(first \o second) : (first \o second)[i].kind # "rest"
<1>1. /\ Len(first) \in Nat /\ Len(second) \in Nat
      /\ Len(first \o second) = Len(first) + Len(second)
      /\ \A i \in 1 .. Len(first) + Len(second) :
           (first \o second)[i] = IF i <= Len(first) THEN first[i] ELSE second[i - Len(first)]
  OBVIOUS
<1> SUFFICES ASSUME NEW i \in 1 .. Len(first) + Len(second)
             PROVE  (first \o second)[i].kind # "rest"
  BY <1>1
<1>2. CASE i <= Len(first)
  <2>1. i \in 1 .. Len(first)
    BY <1>2
  <2> QED BY <1>1, <1>2, <2>1
<1>3. CASE ~(i <= Len(first))
  <2>1. i - Len(first) \in 1 .. Len(second)
    BY <1>1, <1>3
  <2> QED BY <1>1, <1>3, <2>1
<1> QED BY <1>2, <1>3

LEMMA BootPlanJobs ==
  ASSUME NEW f \in Flash
  PROVE  \A i \in 1 .. Len(BootPlan(f)) : BootPlan(f)[i].kind # "rest"
<1> DEFINE first == IF f.single = None THEN <<Single(LoadedChoice(f))>> ELSE <<>>
           final == IF f.cfg = None THEN <<Policy(LoadedPolicy(f))>> ELSE <<>>
<1>1. /\ first \in Seq(Jobs) /\ \A i \in 1 .. Len(first) : first[i].kind # "rest"
  BY LoadedTypes, JobTypes DEF Single
<1>2. /\ final \in Seq(Jobs) /\ \A i \in 1 .. Len(final) : final[i].kind # "rest"
  BY LoadedTypes, JobTypes DEF Policy
<1>3. /\ <<Migrate>> \in Seq(Jobs)
      /\ \A i \in 1 .. Len(<<Migrate>>) : <<Migrate>>[i].kind # "rest"
  BY JobTypes DEF Migrate
<1>4. BootPlan(f) = (first \o <<Migrate>>) \o final
  BY DEF BootPlan
<1> HIDE DEF first, final
<1>5. first \o <<Migrate>> \in Seq(Jobs)
  BY <1>1, <1>3
<1>6. \A i \in 1 .. Len(first \o <<Migrate>>) : (first \o <<Migrate>>)[i].kind # "rest"
  BY <1>1, <1>3, BothWithoutRest
<1> QED BY <1>2, <1>4, <1>5, <1>6, BothWithoutRest

\* A boot takes the policy from what the namespace stands for.
LEMMA BootKeeps ==
  ASSUME StoreInv, PolicyInv, Boot
  PROVE  PolicyInv'
<1>1. /\ ~Saving /\ ~undoing /\ (~undoBroken => Tells(flash, last, attempt))
  BY Between DEF Boot, PolicyInv, OffIdle
<1>2. /\ power' = "on" /\ active' = LoadedPolicy(flash) /\ available' = (flash.cfg # Damaged)
      /\ stored' = (flash.cfg \in Policies) /\ last' = LoadedPolicy(flash) /\ attempt' = None
      /\ UNCHANGED <<flash, undoBroken>>
  BY DEF Boot
<1>3. /\ running' = "boot" /\ todo' = <<>> /\ restored' = TRUE /\ undoing' = FALSE
      /\ plan' = BootPlan(flash)
  BY DEF Boot, Begin
<1>4. flash \in Flash
  BY DEF StoreInv, TypeOK
<1>5. ASSUME ~undoBroken'
      PROVE  Kept'
  <2>1. Tells(flash, last, attempt)
    BY <1>1, <1>2, <1>5
  <2>2. flash.cfg \in Policies => last' = flash.cfg
    BY <1>2 DEF LoadedPolicy
  <2>3. flash.cfg = None => last' = InitialPolicy(flash)
    BY <1>2, StoreAssumption DEF LoadedPolicy
  <2>4. Tells(flash', last', attempt')
    BY <1>2, <2>1, <2>2, <2>3 DEF Tells, StandsFor
  <2>5. InForce'
    BY <1>2, StoreAssumption DEF InForce
  <2>6. Opened'
    BY <1>2, StoreAssumption DEF Opened
  <2>7. Covered'
    BY <1>2, <1>3, <1>4, BootPlanJobs DEF Covered
  <2> QED BY <1>3, <2>4, <2>5, <2>6, <2>7, Resting DEF Kept, FlashTells
<1> QED BY <1>2, <1>3, <1>5, Resting DEF PolicyInv, Restoring, OffIdle

LEMMA UnopenedKeeps ==
  ASSUME StoreInv, PolicyInv, BootUnopened
  PROVE  PolicyInv'
<1>1. /\ plan = <<>> /\ todo = <<>> /\ ~Saving /\ ~undoing /\ restored /\ running = "none"
      /\ ~undoBroken => Tells(flash, last, attempt)
  BY Between DEF BootUnopened, PolicyInv, OffIdle
<1>2. /\ power' = "on" /\ handle' = FALSE /\ available' = FALSE /\ stored' = FALSE
      /\ UNCHANGED <<flash, running, plan, todo, undoing, restored, last, attempt, undoBroken>>
  BY DEF BootUnopened, saveVars, historyVars
<1>3. ASSUME ~undoBroken'
      PROVE  Kept'
  <2>1. FlashTells'
    BY <1>1, <1>2, <1>3 DEF FlashTells
  <2>2. InForce' /\ Opened' /\ Covered'
    BY <1>1, <1>2 DEF InForce, Opened, Dead, Covered
  <2> QED BY <1>1, <1>2, <2>1, <2>2, Resting DEF Kept
<1> QED BY <1>1, <1>2, <1>3, Resting DEF PolicyInv, Restoring, OffIdle

\* A power loss leaves what a save has written, and no undo cut short unnoticed.
LEMMA LossKeeps ==
  ASSUME StoreInv, PolicyInv, PowerLoss
  PROVE  PolicyInv'
<1>1. /\ power' = "off" /\ UNCHANGED <<flash, last, attempt>>
      /\ undoBroken' = (undoBroken \/ (undoing /\ todo # <<>>))
      /\ running' = "none" /\ plan' = <<>> /\ todo' = <<>> /\ restored' = TRUE
  BY DEF PowerLoss, Begin
<1>2. ASSUME ~undoBroken'
      PROVE  Kept'
  <2>1. ~undoBroken /\ ~undoing
    BY <1>1, <1>2 DEF StoreInv, Queues, TypeOK
  <2>2. FlashTells'
    BY <1>1, <2>1 DEF PolicyInv, Kept, FlashTells
  <2>3. InForce' /\ Opened' /\ Covered'
    BY <1>1, CoveredEmpty DEF InForce, Opened
  <2> QED BY <1>1, <2>2, <2>3, Resting DEF Kept
<1> QED BY <1>1, <1>2, Resting DEF PolicyInv, Restoring, OffIdle

LEMMA EraseKeeps ==
  ASSUME StoreInv, PolicyInv, Erase
  PROVE  PolicyInv'
<1>1. plan = <<>> /\ todo = <<>> /\ ~Saving /\ ~undoing /\ restored
  BY Between DEF Erase, NoWriter
<1>2. /\ flash' = Blank /\ power' = "erased" /\ last' = LoadedPolicy(Blank)
      /\ UNCHANGED <<running, plan, todo, undoing, restored>>
  BY DEF Erase, saveVars
<1>3. Blank.cfg = None /\ Blank.legacy = None
  BY DEF Blank, Keys
<1>4. LoadedPolicy(Blank) = InitialPolicy(Blank)
  BY <1>3, StoreAssumption DEF LoadedPolicy
<1>5. Tells(flash', last', attempt')
  BY <1>2, <1>3, <1>4, StoreAssumption DEF Tells, StandsFor
<1>6. FlashTells' /\ InForce' /\ Opened' /\ Covered'
  BY <1>1, <1>2, <1>5, CoveredEmpty DEF FlashTells, InForce, Opened
<1> QED BY <1>1, <1>2, <1>6, Resting DEF PolicyInv, Kept, Restoring, OffIdle

\* The latch, a choice that is taken first, and a stutter.
LEMMA AsideKeeps ==
  ASSUME StoreInv, PolicyInv,
         \/ LatchReset \/ UNCHANGED vars
         \/ \E single \in BOOLEAN : ChooseAutoSingle(single) /\ UNCHANGED saveVars
  PROVE  PolicyInv'
<1>1. UNCHANGED <<flash, power, handle, active, available, stored, last, attempt, undoBroken>>
  <2>1. CASE LatchReset \/ UNCHANGED vars
    BY <2>1 DEF LatchReset, vars, storeVars, historyVars
  <2>2. CASE \E single \in BOOLEAN : ChooseAutoSingle(single)
    BY <2>2 DEF ChooseAutoSingle, storeVars
  <2> QED BY <2>1, <2>2
<1>2. UNCHANGED <<running, plan, todo, undoing, restored, before>>
  BY DEF LatchReset, vars, saveVars
<1>3. resetting' = resetting \/ resetting' = TRUE
  BY DEF LatchReset, vars, ChooseAutoSingle
<1>4. Saving' <=> Saving
  BY <1>2 DEF Saving
<1>5. FlashTells => FlashTells'
  BY <1>1, <1>2, <1>4 DEF FlashTells
<1>6. BeforeTells => BeforeTells'
  BY <1>1, <1>2, <1>4 DEF BeforeTells
<1>7. RecordFirst => RecordFirst'
  BY <1>1, <1>2, <1>4 DEF RecordFirst
<1>8. MirrorsFollow => MirrorsFollow'
  BY <1>1, <1>2, <1>4 DEF MirrorsFollow
<1>9. InForce => InForce'
  BY <1>1 DEF InForce
<1>10. Opened => Opened'
  BY <1>1, <1>2, <1>3, <1>4 DEF Opened, Dead
<1>11. Covered => Covered'
  BY <1>1, <1>2 DEF Covered
<1>12. OwnKeys' /\ Restoring' /\ OffIdle'
  BY <1>1, <1>2 DEF PolicyInv, OwnKeys, Restoring, OffIdle
<1> QED BY <1>1, <1>5, <1>6, <1>7, <1>8, <1>9, <1>10, <1>11, <1>12 DEF PolicyInv, Kept

-----------------------------------------------------------------------------
(* The theorem *)

LEMMA PolicyInit == Init => PolicyInv
<1> SUFFICES ASSUME Init PROVE PolicyInv
  OBVIOUS
<1>1. /\ flash \in Births /\ power = "off" /\ running = "none" /\ plan = <<>> /\ todo = <<>>
      /\ undoing = FALSE /\ restored = TRUE
      /\ last = LoadedPolicy(flash) /\ attempt = None
  BY DEF Init, Idle
<1>2. ~Saving
  BY <1>1 DEF Saving
<1>3. flash.cfg \in Policies => last = flash.cfg
  BY <1>1 DEF LoadedPolicy
<1>4. flash.cfg = None => last = InitialPolicy(flash)
  BY <1>1, StoreAssumption DEF LoadedPolicy
<1>5. Tells(flash, last, attempt)
  BY <1>1, <1>3, <1>4, EvidenceAssumption DEF Tells, StandsFor
<1>6. /\ FlashTells /\ BeforeTells /\ RecordFirst /\ MirrorsFollow /\ InForce /\ Opened
      /\ Covered
  BY <1>1, <1>2, <1>5 DEF FlashTells, BeforeTells, RecordFirst, MirrorsFollow, InForce, Opened,
                         Covered
<1> QED BY <1>1, <1>6 DEF PolicyInv, Kept, OwnKeys, Restoring, OffIdle

LEMMA PolicyStep ==
  StoreInv /\ StoreInv' /\ PolicyInv /\ [Next]_vars => PolicyInv'
<1> SUFFICES ASSUME StoreInv, StoreInv', PolicyInv, [Next]_vars PROVE PolicyInv'
  OBVIOUS
<1>1. TypeOK /\ Queues /\ InHand
  BY DEF StoreInv
<1>2. CASE InsideASave \/ StartJob \/ Discard
  BY <1>2, InsideKeeps, StartKeeps, DiscardKeeps
<1>3. CASE \/ CommitSave /\ JobDone /\ Call = Commit /\ ~undoing
           \/ CommitFails /\ JobDone /\ Job.kind = "migrate"
  BY <1>3, CommitKeeps, MigrationKeeps
<1>4. CASE \/ Save \/ SavePolicy \/ SaveRanges \/ HandOver \/ StoreChoice \/ TakeBack
           \/ \E single \in BOOLEAN : ChooseAutoSingle(single) /\ ~UNCHANGED saveVars
  BY <1>4, SaveKeeps, CallersKeep
<1>5. CASE Boot \/ PowerLoss
  BY <1>5, BootKeeps, LossKeeps
<1>6. CASE Aside
  BY <1>6, UnopenedKeeps, EraseKeeps, AsideKeeps DEF Aside
<1> QED BY <1>1, <1>2, <1>3, <1>4, <1>5, <1>6, StepKinds

LEMMA PolicyInvHolds == Spec => []PolicyInv
BY PolicyInit, PolicyStep, StoreInvHolds, PTL DEF Spec

\* Wherever the power is lost, and whatever writes fail, a restart finds the policy
\* last in force or the one that was being saved: saveSetpointSettingsLocked()
\* writes a first record before its mirrors and undoes it in the other order, and
\* begin() and save() write nothing that would make a fresh device look upgraded.
THEOREM PolicyIsKept == Spec => PolicyIsOldOrNew
<1>1. StoreInv /\ PolicyInv =>
        (Boot /\ available' => active' \in {last, attempt} \/ undoBroken)
  <2> SUFFICES ASSUME StoreInv, PolicyInv, Boot, available', ~undoBroken
               PROVE  active' \in {last, attempt}
    OBVIOUS
  <2>1. Tells(flash, last, attempt)
    BY Between DEF Boot, PolicyInv, OffIdle
  <2>2. active' = LoadedPolicy(flash) /\ flash.cfg # Damaged
    BY DEF Boot
  <2>3. flash.cfg \in Policies \/ flash.cfg = None
    BY <2>2 DEF StoreInv, TypeOK, Flash
  <2>4. CASE flash.cfg \in Policies
    BY <2>1, <2>2, <2>4 DEF Tells, LoadedPolicy
  <2>5. CASE flash.cfg = None
    BY <2>1, <2>2, <2>5, StoreAssumption DEF Tells, StandsFor, LoadedPolicy
  <2> QED BY <2>3, <2>4, <2>5
<1> QED BY <1>1, StoreInvHolds, PolicyInvHolds, PTL DEF PolicyIsOldOrNew

-----------------------------------------------------------------------------
(* The Auto setpoint mode *)

Entries(seq) == {seq[i] : i \in 1 .. Len(seq)}
LastOf(seq) == seq[Len(seq)]

ToUnit(policy) == policy \in Policies /\ policy.owner = "unit"
Fresh == (born = "fresh")

\* A choice is in flash before anything but a choice is written, and has been
\* written when its save commits.
ChoiceFirst ==
  /\ power = "on" /\ choiceStored => flash.single # None
  /\ todo # <<>> /\ plan[1].kind # "single" => choiceStored
  /\ todo # <<>> /\ plan[1].kind = "single" /\ ~undoing =>
       (\E call \in Entries(todo) : call.op = "single") \/ flash.single = plan[1].val

\* What is written as the choice is the one in force, or what the user wishes.
ChoiceCarried ==
  /\ running = "choice" => turn = "choosing" /\ plan = <<Single(wish)>>
  /\ running # "choice" => \A job \in Entries(plan) : job.kind = "single" => job.val = choice
  /\ \A call \in Entries(todo) :
       call.op = "single" => call.val = IF running = "choice" THEN wish ELSE choice

\* Until someone chooses, flash has the default or stands for it.
DefaultKept ==
  /\ power # "erased" /\ turn # "none" => asked
  /\ ~asked => /\ flash.single \in {None, Fresh}
               /\ flash.single = None => (HadSettings(flash) <=> ~Fresh)
  /\ power = "on" /\ ~asked => choice = Fresh \/ (~handle /\ plan = <<>>)

\* A handover saves policies that give Auto to the unit, while the choice is
\* still Single; so does the way back from one.
HandingOver ==
  /\ power = "off" => turn = "none" /\ previous = None
  /\ power = "on" /\ previous # None => choice
  /\ running \in {"import", "handover"} =>
       /\ turn = "handing"
       /\ plan # <<>> => LastOf(plan).kind = "policy"
       /\ \A job \in Entries(plan) :
            /\ job.kind \in {"single", "policy"}
            /\ job.kind = "policy" => ToUnit(job.val)

\* The choice in force is what the next boot loads, but for a save of another.
ChoiceLoads ==
  power = "on" /\ bootSingle /\ ~choiceFailed /\ choice /\ ~LoadedChoice(flash) =>
    todo # <<>> /\ running = "choice" /\ ~wish

\* From the handover on, whatever is or may come into flash has Auto with the unit.
ToRange ==
  \/ ~LoadedChoice(flash)
  \/ power = "on" /\ (~choice \/ (turn \in {"handed", "choosing"} /\ ~wish))
Handed ==
  /\ ToUnit(flash.cfg)
  /\ power = "on" => /\ active.owner = "unit"
                     /\ \A job \in Entries(plan) : job.kind = "policy" => job.val.owner = "unit"
                     /\ Saving => ToUnit(before.cfg)
RangeReady == power # "erased" /\ bootSingle /\ ~choiceFailed /\ ToRange => Handed

ChoiceInv ==
  ChoiceFirst /\ ChoiceCarried /\ DefaultKept /\ HandingOver /\ ChoiceLoads /\ RangeReady

\* What remains of a list, and what is put before one.
LEMMA EntriesOfTail ==
  ASSUME NEW S, NEW seq \in Seq(S), seq # <<>>
  PROVE  /\ Entries(Tail(seq)) \subseteq Entries(seq) /\ seq[1] \in Entries(seq)
         /\ Entries(seq) = {seq[1]} \cup Entries(Tail(seq))
         /\ Tail(seq) # <<>> => LastOf(Tail(seq)) = LastOf(seq)
         /\ Len(seq) = 1 => LastOf(seq) = seq[1]
<1>1. /\ Len(Tail(seq)) = Len(seq) - 1 /\ Len(seq) \in Nat /\ Len(seq) > 0
      /\ \A i \in 1 .. Len(Tail(seq)) : Tail(seq)[i] = seq[i + 1]
  OBVIOUS
<1>2. seq[1] \in Entries(seq)
  BY <1>1 DEF Entries
<1>3. Entries(Tail(seq)) \subseteq Entries(seq)
  BY <1>1 DEF Entries
<1>4. Entries(seq) \subseteq {seq[1]} \cup Entries(Tail(seq))
  <2>1. ASSUME NEW i \in 1 .. Len(seq), i # 1
        PROVE  seq[i] \in Entries(Tail(seq))
    <3>1. i - 1 \in 1 .. Len(Tail(seq)) /\ Tail(seq)[i - 1] = seq[i]
      BY <1>1, <2>1
    <3> QED BY <3>1 DEF Entries
  <2> QED BY <2>1 DEF Entries
<1>5. Tail(seq) # <<>> => LastOf(Tail(seq)) = LastOf(seq)
  <2>1. ASSUME Tail(seq) # <<>>
        PROVE  Tail(seq)[Len(seq) - 1] = seq[Len(seq)]
    <3>1. Len(Tail(seq)) > 0
      BY <1>1, <2>1
    <3>2. Len(seq) - 1 \in 1 .. Len(Tail(seq)) /\ (Len(seq) - 1) + 1 = Len(seq)
      BY <1>1, <3>1
    <3> QED BY <1>1, <3>2
  <2> QED BY <1>1, <2>1 DEF LastOf
<1> QED BY <1>2, <1>3, <1>4, <1>5 DEF LastOf

LEMMA EntriesOfCons ==
  ASSUME NEW S, NEW seq \in Seq(S), NEW first \in S
  PROVE  /\ Entries(<<first>> \o seq) = {first} \cup Entries(seq)
         /\ seq # <<>> => LastOf(<<first>> \o seq) = LastOf(seq)
         /\ Entries(<<first>>) = {first} /\ Entries(<<>>) = {}
         /\ LastOf(<<first>>) = first
<1> DEFINE both == <<first>> \o seq
<1>1. /\ Len(both) = Len(seq) + 1 /\ Len(seq) \in Nat /\ both[1] = first
      /\ \A i \in 1 .. Len(seq) : both[i + 1] = seq[i]
  OBVIOUS
<1> HIDE DEF both
<1>2. Entries(both) \subseteq {first} \cup Entries(seq)
  <2>1. ASSUME NEW i \in 1 .. Len(both), i # 1
        PROVE  both[i] \in Entries(seq)
    <3>1. i - 1 \in 1 .. Len(seq) /\ (i - 1) + 1 = i
      BY <1>1, <2>1
    <3> QED BY <1>1, <3>1 DEF Entries
  <2> QED BY <1>1, <2>1 DEF Entries
<1>3. {first} \cup Entries(seq) \subseteq Entries(both)
  <2>1. first \in Entries(both)
    BY <1>1 DEF Entries
  <2>2. ASSUME NEW i \in 1 .. Len(seq)
        PROVE  seq[i] \in Entries(both)
    <3>1. i + 1 \in 1 .. Len(both)
      BY <1>1
    <3> QED BY <1>1, <3>1 DEF Entries
  <2> QED BY <2>1, <2>2 DEF Entries
<1>4. seq # <<>> => LastOf(both) = LastOf(seq)
  <2>1. ASSUME seq # <<>> PROVE both[Len(seq) + 1] = seq[Len(seq)]
    <3>1. Len(seq) \in 1 .. Len(seq)
      BY <1>1, <2>1
    <3> QED BY <1>1, <3>1
  <2> QED BY <1>1, <2>1 DEF LastOf
<1>5. Entries(<<first>>) = {first} /\ Entries(<<>>) = {} /\ LastOf(<<first>>) = first
  BY DEF Entries, LastOf
<1> QED BY <1>2, <1>3, <1>4, <1>5 DEF both

\* What a boot plans for the choice is what it loads.
LEMMA BootPlanSingles ==
  ASSUME NEW f \in Flash
  PROVE  \A job \in Entries(BootPlan(f)) : job.kind = "single" => job.val = LoadedChoice(f)
<1> DEFINE first == IF f.single = None THEN <<Single(LoadedChoice(f))>> ELSE <<>>
           final == IF f.cfg = None THEN <<Policy(LoadedPolicy(f))>> ELSE <<>>
           rest  == <<Migrate>> \o final
<1>1. /\ Single(LoadedChoice(f)) \in Jobs /\ Migrate \in Jobs /\ Policy(LoadedPolicy(f)) \in Jobs
      /\ Migrate.kind # "single" /\ Policy(LoadedPolicy(f)).kind # "single"
      /\ Single(LoadedChoice(f)).val = LoadedChoice(f)
  BY LoadedTypes, JobTypes DEF Single, Policy, Migrate
<1>2. final \in Seq(Jobs) /\ \A job \in Entries(final) : job.kind # "single"
  <2>1. CASE f.cfg = None
    <3>1. final = <<Policy(LoadedPolicy(f))>>
      BY <2>1
    <3> DEFINE entry == Policy(LoadedPolicy(f))
    <3> HIDE DEF final, entry
    <3>2. Entries(<<entry>>) = {entry} /\ <<entry>> \in Seq(Jobs)
      <4>1. entry \in Jobs
        BY <1>1 DEF entry
      <4>2. <<entry>> \in Seq(Jobs)
        BY <4>1
      <4>3. Entries(<<entry>>) = {entry}
        BY <4>1 DEF Entries
      <4> QED BY <4>2, <4>3
    <3> QED BY <1>1, <3>1, <3>2 DEF entry
  <2>2. CASE f.cfg # None
    <3>1. final = <<>> /\ Entries(<<>>) = {}
      BY <2>2 DEF Entries
    <3> QED BY <3>1
  <2> QED BY <2>1, <2>2
<1> HIDE DEF final
<1>3. rest \in Seq(Jobs) /\ \A job \in Entries(rest) : job.kind # "single"
  BY <1>1, <1>2, EntriesOfCons
<1>4. CASE f.single = None
  <2>1. BootPlan(f) = <<Single(LoadedChoice(f))>> \o rest
    BY <1>1, <1>2, <1>4 DEF BootPlan, final
  <2> HIDE DEF rest
  <2>2. Entries(BootPlan(f)) = {Single(LoadedChoice(f))} \cup Entries(rest)
    BY <1>1, <1>3, <2>1, EntriesOfCons
  <2> QED BY <1>1, <1>3, <2>2
<1>5. CASE f.single # None
  <2>1. BootPlan(f) = rest
    BY <1>1, <1>2, <1>5 DEF BootPlan, final
  <2> QED BY <1>3, <2>1
<1> QED BY <1>4, <1>5

-----------------------------------------------------------------------------
(* The Auto setpoint mode: a step inside a save *)

\* It leaves the choice in force alone.
LEMMA InsideQuiet ==
  ASSUME TypeOK, Queues, InHand, InsideASave
  PROVE  UNCHANGED <<choice, choiceStored, bootSingle, born, asked, choiceFailed>>
<1>1. CASE Write \/ WriteFails \/ CommitUndo
  BY <1>1 DEF Write, WriteFails, CommitUndo, storeVars, historyVars
<1>2. CASE CommitSave \/ CommitFails
  <2>1. ~JobDone
    BY JobDoneShortens DEF InsideASave, Continues, Queues
  <2> QED BY <1>2, <2>1 DEF CommitSave, CommitFails, storeVars
<1> QED BY <1>1, <1>2 DEF InsideASave

\* A call that is checked, and made, is in flash.
LEMMA CheckedIsMade ==
  ASSUME TypeOK, Queues, InHand, OwnKeys, InsideASave, TakesCall, ~undoing, Checked,
         Call.op \in Keys
  PROVE  flash'[Call.op] = Call.val
<1>1. Call \in NvsCalls /\ flash \in Flash
  BY CallsAreTyped DEF InsideASave, Continues, TypeOK
<1>2. flash' = Applied
  <2>1. ~WriteFails
    BY DEF WriteFails, GiveUp, TakesCall
  <2>2. ~(CommitUndo \/ CommitSave \/ CommitFails)
    BY Ops DEF CommitUndo, CommitSave, CommitFails
  <2> QED BY <2>1, <2>2 DEF InsideASave, Write
<1> QED BY <1>1, <1>2, AppliedKeys DEF Applied

\* What it knows of the choice.
LEMMA InsideChoice ==
  ASSUME StoreInv, PolicyInv, ChoiceInv, InsideASave
  PROVE  /\ power = "on" /\ plan # <<>> /\ todo # <<>> /\ todo' # <<>> /\ Call \in Entries(todo)
         /\ UNCHANGED <<power, handle, running, plan, before, turn, wish, previous, choice,
                        choiceStored, bootSingle, born, asked, choiceFailed, active>>
         /\ Saving' <=> Saving
         /\ Call.op = "single" =>
              Call.val \in BOOLEAN /\ Call.val = IF running = "choice" THEN wish ELSE choice
         /\ \A key \in Keys :
              flash'[key] = flash[key] \/ (Call.op = key /\ flash'[key] = Call.val)
         /\ Call.op \in OpsOf(Job.kind) \cup {"commit", "reopen"}
<1> USE DEF StoreInv
<1>1. /\ todo # <<>> /\ plan # <<>> /\ todo' # <<>> /\ plan' = plan /\ before' = before
      /\ Saving' <=> Saving
  BY InsideStep DEF InsideASave, Continues, Queues
<1>2. power = "on"
  BY <1>1, BusyIsOn DEF PolicyInv
<1>3. Call \in Entries(todo)
  BY <1>1, EntriesOfTail DEF Queues, Call
<1>4. UNCHANGED <<power, handle, running, active>>
  BY InsideEffects
<1>5. UNCHANGED <<turn, wish, previous>>
  BY InsideAttempted DEF turnVars
<1>6. UNCHANGED <<choice, choiceStored, bootSingle, born, asked, choiceFailed>>
  BY InsideQuiet
<1>7. Call.op = "single" =>
        Call.val \in BOOLEAN /\ Call.val = IF running = "choice" THEN wish ELSE choice
  BY <1>3 DEF ChoiceInv, ChoiceCarried, TypeOK
<1>8. /\ \A key \in Keys :
           flash'[key] = flash[key] \/ (Call.op = key /\ flash'[key] = Call.val)
      /\ Call.op \in OpsOf(Job.kind) \cup {"commit", "reopen"}
  BY InsideKeys DEF PolicyInv
<1> QED BY <1>1, <1>2, <1>3, <1>4, <1>5, <1>6, <1>7, <1>8

\* It turns what a boot would load only by writing the choice.
LEMMA InsideLoads ==
  ASSUME StoreInv, PolicyInv, ChoiceInv, InsideASave
  PROVE  /\ \/ flash'.single = flash.single
            \/ Call.op = "single" /\ flash'.single = Call.val
         /\ flash'.single = None => flash.single = None
         /\ flash.single = None /\ flash'.single = None =>
              (HadSettings(flash') <=> HadSettings(flash))
         /\ \/ LoadedChoice(flash') = LoadedChoice(flash)
            \/ Call.op = "single" /\ LoadedChoice(flash') = Call.val
<1>1. /\ power = "on" /\ todo # <<>> /\ plan # <<>>
      /\ Call.op = "single" => Call.val \in BOOLEAN
      /\ \A key \in Keys :
           flash'[key] = flash[key] \/ (Call.op = key /\ flash'[key] = Call.val)
      /\ Call.op \in OpsOf(Job.kind) \cup {"commit", "reopen"}
  BY InsideChoice
<1>2. \/ flash'.single = flash.single
      \/ Call.op = "single" /\ flash'.single = Call.val
  BY <1>1 DEF Keys
<1>3. flash'.single = None => flash.single = None
  BY <1>1, <1>2, StoreAssumption
<1>4. ASSUME flash.single = None
      PROVE  HadSettings(flash') <=> HadSettings(flash)
  <2>1. Job.kind = "single"
    BY <1>1, <1>4 DEF ChoiceInv, ChoiceFirst, Job
  <2>2. Call.op \in {"single", "commit", "reopen"}
    BY <1>1, <2>1 DEF OpsOf
  <2>3. \A key \in Keys \ {"single"} : flash'[key] = flash[key]
    BY <1>1, <2>2 DEF Keys
  <2> QED BY <2>3 DEF HadSettings
<1>5. CASE Call.op = "single" /\ flash'.single = Call.val
  BY <1>1, <1>2, <1>3, <1>4, <1>5, StoreAssumption DEF LoadedChoice
<1>6. CASE flash'.single = flash.single
  BY <1>2, <1>3, <1>4, <1>6 DEF LoadedChoice
<1> QED BY <1>2, <1>5, <1>6

LEMMA InsideFirstly ==
  ASSUME StoreInv, PolicyInv, ChoiceInv, InsideASave
  PROVE  ChoiceFirst'
<1> USE DEF StoreInv
<1>1. /\ power = "on" /\ plan # <<>> /\ todo # <<>> /\ todo' # <<>> /\ Call \in Entries(todo)
      /\ UNCHANGED <<power, plan, choiceStored>>
      /\ Call.op = "single" =>
           Call.val \in BOOLEAN /\ Call.val = IF running = "choice" THEN wish ELSE choice
  BY InsideChoice
<1>2. power' = "on" /\ choiceStored' => flash'.single # None
  BY <1>1, InsideLoads DEF ChoiceInv, ChoiceFirst
<1>3. plan'[1].kind # "single" => choiceStored'
  BY <1>1 DEF ChoiceInv, ChoiceFirst
<1>4. ASSUME plan[1].kind = "single", ~undoing'
      PROVE  (\E call \in Entries(todo') : call.op = "single") \/ flash'.single = plan[1].val
  <2>1. TakesCall /\ ~undoing /\ Checked /\ todo \in Seq(NvsCalls)
    BY <1>4 DEF InsideASave, Continues, TurnsBack, GiveUp, TakesCall, Checked, Job, Queues
  <2>2. (\E call \in Entries(todo) : call.op = "single") \/ flash.single = plan[1].val
    BY <1>1, <1>4, <2>1 DEF ChoiceInv, ChoiceFirst
  <2>3. CASE Call.op = "single"
    <3>1. flash'["single"] = Call.val
      BY <2>1, <2>3, CheckedIsMade DEF PolicyInv, Keys
    <3>2. Call.val = plan[1].val
      <4>1. CASE running = "choice"
        <5>1. plan = <<Single(wish)>>
          BY <4>1 DEF ChoiceInv, ChoiceCarried
        <5>2. plan[1].val = wish
          BY <5>1 DEF Single
        <5> QED BY <1>1, <2>3, <4>1, <5>2
      <4>2. CASE running # "choice"
        <5>1. plan[1] \in Entries(plan)
          BY <1>1, EntriesOfTail DEF Queues
        <5>2. plan[1].val = choice
          BY <1>4, <4>2, <5>1 DEF ChoiceInv, ChoiceCarried
        <5> QED BY <1>1, <2>3, <4>2, <5>2
      <4> QED BY <4>1, <4>2
    <3> QED BY <3>1, <3>2
  <2>4. CASE Call.op # "single"
    <3>1. flash'.single = flash.single
      BY <2>4, InsideLoads
    <3>2. Entries(todo) = {Call} \cup Entries(todo')
      BY <1>1, <2>1, EntriesOfTail DEF TakesCall, Call
    <3> QED BY <2>2, <2>4, <3>1, <3>2
  <2> QED BY <2>3, <2>4
<1> QED BY <1>1, <1>2, <1>3, <1>4 DEF ChoiceFirst

LEMMA InsideCarried ==
  ASSUME StoreInv, PolicyInv, ChoiceInv, InsideASave
  PROVE  ChoiceCarried'
<1> USE DEF StoreInv
<1>1. /\ plan # <<>> /\ todo # <<>> /\ todo' # <<>>
      /\ UNCHANGED <<running, plan, turn, wish, choice>>
  BY InsideChoice
<1>2. ASSUME NEW call \in Entries(todo'), call.op = "single"
      PROVE  call \in Entries(todo)
  <2>1. CASE TakesCall
    BY <1>1, <2>1, EntriesOfTail DEF TakesCall, Queues
  <2>2. CASE TurnsBack
    <3>1. PICK i \in 1 .. Len(todo') : call = todo'[i]
      BY DEF Entries
    <3>2. Own(todo', plan[1].kind)
      BY <1>1, InsideOwn DEF PolicyInv, OwnKeys
    <3>3. "single" \in OpsOf(Job.kind) \cup {"commit", "reopen"}
      BY <1>2, <3>1, <3>2 DEF Own, Job
    <3>4. Job \in Jobs
      BY <1>1, CallsAreTyped
    <3>5. Job.kind \in {"single", "rest"}
      BY <3>3, <3>4 DEF OpsOf, Jobs, Mirrors
    <3>6. todo' = <<Reopen>>
      BY <2>2, <3>5 DEF TurnsBack, GiveUp
    <3>7. call = Reopen
      BY <3>1, <3>6
    <3> QED BY <1>2, <3>7 DEF Reopen
  <2> QED BY <2>1, <2>2 DEF InsideASave, Continues
<1> QED BY <1>1, <1>2 DEF ChoiceInv, ChoiceCarried

LEMMA InsideDefault ==
  ASSUME StoreInv, PolicyInv, ChoiceInv, InsideASave
  PROVE  DefaultKept'
<1>1. /\ power = "on" /\ plan # <<>>
      /\ UNCHANGED <<power, handle, running, plan, turn, choice, born, asked>>
      /\ Call.op = "single" => Call.val = IF running = "choice" THEN wish ELSE choice
  BY InsideChoice
<1>2. ASSUME ~asked
      PROVE  /\ flash'.single \in {None, Fresh}
             /\ flash'.single = None => (HadSettings(flash') <=> ~Fresh)
  <2>1. choice = Fresh
    BY <1>1, <1>2 DEF ChoiceInv, DefaultKept
  <2>2. running # "choice"
    BY <1>1, <1>2 DEF ChoiceInv, DefaultKept, ChoiceCarried
  <2>3. /\ flash.single \in {None, Fresh}
        /\ flash.single = None => (HadSettings(flash) <=> ~Fresh)
    BY <1>2 DEF ChoiceInv, DefaultKept
  <2> QED BY <1>1, <2>1, <2>2, <2>3, InsideLoads
<1>3. Fresh' = Fresh
  BY <1>1 DEF Fresh
<1> QED BY <1>1, <1>2, <1>3 DEF ChoiceInv, DefaultKept

LEMMA InsideRange ==
  ASSUME StoreInv, PolicyInv, ChoiceInv, InsideASave
  PROVE  HandingOver' /\ ChoiceLoads' /\ RangeReady'
<1> USE DEF StoreInv
<1>1. /\ power = "on" /\ plan # <<>> /\ todo # <<>> /\ todo' # <<>>
      /\ UNCHANGED <<power, running, plan, before, turn, wish, previous, choice, bootSingle,
                     choiceFailed, active>>
      /\ Saving' <=> Saving
      /\ Call.op = "single" => Call.val = IF running = "choice" THEN wish ELSE choice
  BY InsideChoice
<1>2. \/ LoadedChoice(flash') = LoadedChoice(flash)
      \/ Call.op = "single" /\ LoadedChoice(flash') = Call.val
  BY InsideLoads
<1>3. HandingOver'
  BY <1>1 DEF ChoiceInv, HandingOver
<1>4. ChoiceLoads'
  BY <1>1, <1>2 DEF ChoiceInv, ChoiceLoads
<1>5. ToRange' => ToRange
  <2>1. CASE LoadedChoice(flash') = LoadedChoice(flash)
    BY <1>1, <2>1 DEF ToRange
  <2>2. CASE Call.op = "single" /\ LoadedChoice(flash') = Call.val /\ running = "choice"
    <3>1. turn = "choosing"
      BY <2>2 DEF ChoiceInv, ChoiceCarried
    <3> QED BY <1>1, <2>2, <3>1 DEF ToRange
  <2>3. CASE Call.op = "single" /\ LoadedChoice(flash') = Call.val /\ running # "choice"
    BY <1>1, <2>3 DEF ToRange
  <2> QED BY <1>2, <2>1, <2>2, <2>3
<1>6. ASSUME Handed
      PROVE  Handed'
  <2>1. ToUnit(flash'.cfg)
    <3>1. CASE flash'.cfg = flash.cfg
      BY <1>6, <3>1 DEF Handed
    <3>2. CASE Call.op = "cfg" /\ flash'.cfg = Call.val
      <4>1. Call.val = IF undoing THEN before.cfg ELSE plan[1].val
        BY <3>2, InsideKeys DEF PolicyInv
      <4>2. Saving
        BY <1>1, <3>2 DEF InHand, HasRecord, WellFormed, Call
      <4>3. CASE undoing
        BY <1>1, <1>6, <3>2, <4>1, <4>2, <4>3 DEF Handed
      <4>4. CASE ~undoing
        <5>1. plan[1] \in Entries(plan) /\ plan[1].kind = "policy" /\ plan[1] \in Jobs
          BY <1>1, <4>2, EntriesOfTail DEF Queues, Saving
        <5>2. plan[1].val \in Policies
          BY <5>1 DEF Jobs
        <5> QED BY <1>1, <1>6, <3>2, <4>1, <4>4, <5>1, <5>2 DEF Handed, ToUnit
      <4> QED BY <4>3, <4>4
    <3> QED BY <3>1, <3>2, InsideFlash
  <2> QED BY <1>1, <1>6, <2>1 DEF Handed
<1>7. RangeReady'
  BY <1>1, <1>5, <1>6 DEF ChoiceInv, RangeReady
<1> QED BY <1>3, <1>4, <1>7

LEMMA InsideChooses ==
  ASSUME StoreInv, PolicyInv, ChoiceInv, InsideASave
  PROVE  ChoiceInv'
BY InsideFirstly, InsideCarried, InsideDefault, InsideRange DEF ChoiceInv
-----------------------------------------------------------------------------
(* The Auto setpoint mode: the start and the end of a job *)

\* What a job leaves behind: the rest of its plan, or nothing, and the next step of
\* saveAutoSingle().
LEMMA EndOutcome ==
  ASSUME Queues, plan # <<>>, JobFails \/ JobDone,
         running \in {"import", "handover"} => turn # "handed"
  PROVE  /\ todo' = <<>> /\ undoing' = FALSE
         /\ \/ /\ running' = running /\ plan' = Tail(plan) /\ Len(plan) > 1
               /\ UNCHANGED <<turn, wish, previous>>
            \/ /\ running' = "none" /\ plan' = <<>>
               /\ \/ UNCHANGED <<turn, wish, previous>> /\ running # "choice"
                  \/ /\ running \in {"import", "handover"} /\ ~JobFails /\ Len(plan) = 1
                     /\ turn' = "handed" /\ UNCHANGED <<wish, previous>>
                  \/ /\ running = "choice" /\ turn' = "failed"
                     /\ UNCHANGED <<wish, previous>>
                  \/ turn' = "none" /\ wish' = FALSE /\ previous' = None
<1>1. Len(plan) \in Nat /\ Len(plan) > 0
  BY DEF Queues
<1>2. CASE JobFails /\ GoesOn
  BY <1>2 DEF JobFails, GoesOn, Begin, turnVars
<1>3. CASE JobDone /\ Len(plan) > 1
  BY <1>3 DEF JobDone, Begin, turnVars
<1>4. CASE JobFails /\ ~GoesOn
  <2>1. todo' = <<>> /\ undoing' = FALSE /\ running' = "none" /\ plan' = <<>> /\ Returned(FALSE)
    BY <1>4 DEF JobFails, Release, Begin
  <2>2. \/ UNCHANGED <<turn, wish, previous>> /\ running # "choice"
        \/ running = "choice" /\ turn' = "failed" /\ UNCHANGED <<wish, previous>>
        \/ turn' = "none" /\ wish' = FALSE /\ previous' = None
    BY <2>1 DEF Returned
  <2> QED BY <1>4, <2>1, <2>2
<1>5. CASE JobDone /\ ~(Len(plan) > 1)
  <2>1. todo' = <<>> /\ undoing' = FALSE /\ running' = "none" /\ plan' = <<>> /\ Returned(TRUE)
    BY <1>5 DEF JobDone, Release, Begin
  <2>2. \/ UNCHANGED <<turn, wish, previous>> /\ running # "choice"
        \/ /\ running \in {"import", "handover"} /\ turn' = "handed"
           /\ UNCHANGED <<wish, previous>>
        \/ turn' = "none" /\ wish' = FALSE /\ previous' = None
    BY <2>1 DEF Returned
  <2>3. Len(plan) = 1
    <3>1. \A n \in Nat : n > 0 /\ ~(n > 1) => n = 1
      OBVIOUS
    <3> QED BY <1>1, <1>5, <3>1, Zenon
  <2>4. running \in {"import", "handover"} /\ turn' = "handed" => ~JobFails
    BY DEF JobFails, GoesOn, Returned
  <2> QED BY <2>1, <2>2, <2>3, <2>4
<1> QED BY <1>2, <1>3, <1>4, <1>5

\* The end of a job keeps ChoiceInv when what it has changed is in flash.
LEMMA EndChooses ==
  ASSUME StoreInv, ChoiceInv, plan # <<>>, power # "off", JobFails \/ JobDone,
         UNCHANGED <<flash, power, bootSingle, born, asked>>,
         power = "on" /\ choiceStored' => flash.single # None,
         running # "choice" => choice' = choice,
         running = "choice" =>
           \/ choice' = choice /\ (choiceFailed' \/ todo = <<>>)
           \/ choice' = wish /\ flash.single = wish /\ turn' = "none" /\ previous' = None,
         active' = active \/ (Job.kind = "policy" /\ active' = Job.val),
         choiceFailed => choiceFailed',
         ~JobFails /\ running \in {"import", "handover"} /\ Len(plan) = 1 =>
           flash.cfg = Job.val /\ active' = Job.val
  PROVE  ChoiceInv'
<1> USE DEF StoreInv
<1>1. /\ todo' = <<>> /\ undoing' = FALSE
      /\ \/ /\ running' = running /\ plan' = Tail(plan) /\ Len(plan) > 1
            /\ UNCHANGED <<turn, wish, previous>>
         \/ /\ running' = "none" /\ plan' = <<>>
            /\ \/ UNCHANGED <<turn, wish, previous>> /\ running # "choice"
               \/ /\ running \in {"import", "handover"} /\ ~JobFails /\ Len(plan) = 1
                  /\ turn' = "handed" /\ UNCHANGED <<wish, previous>>
               \/ /\ running = "choice" /\ turn' = "failed"
                  /\ UNCHANGED <<wish, previous>>
               \/ turn' = "none" /\ wish' = FALSE /\ previous' = None
  <2>1. running \in {"import", "handover"} => turn # "handed"
    BY DEF ChoiceInv, HandingOver
  <2> QED BY <2>1, EndOutcome
<1>2. /\ Entries(Tail(plan)) \subseteq Entries(plan) /\ plan[1] \in Entries(plan)
      /\ Tail(plan) # <<>> => LastOf(Tail(plan)) = LastOf(plan)
      /\ Len(plan) = 1 => LastOf(plan) = plan[1]
      /\ plan[1] \in Jobs
  BY EntriesOfTail DEF Queues
<1>3. Entries(<<>>) = {}
  BY DEF Entries
<1>4. Entries(plan') \subseteq Entries(plan) /\ Entries(todo') = {}
  BY <1>1, <1>2, <1>3
<1>5. running = "choice" => plan[1] = Single(wish) /\ Len(plan) = 1 /\ turn = "choosing"
  <2>1. running = "choice" => plan = <<Single(wish)>> /\ turn = "choosing"
    BY DEF ChoiceInv, ChoiceCarried
  <2> QED BY <2>1
<1>6. running' # "choice"
  <2>0. ~(1 > 1)
    OBVIOUS
  <2>1. running = "choice" => ~(Len(plan) > 1)
    BY <1>5, <2>0, Zenon
  <2> QED BY <1>1, <2>1
<1>7. ChoiceFirst'
  BY <1>1 DEF ChoiceFirst
<1>8. ChoiceCarried'
  <2>1. CASE running = "choice"
    BY <1>1, <1>3, <1>4, <1>5, <1>6, <2>1 DEF ChoiceCarried
  <2>2. CASE running # "choice"
    BY <1>4, <1>6, <2>2 DEF ChoiceInv, ChoiceCarried
  <2> QED BY <2>1, <2>2
<1>9. turn' # "none" => turn # "none"
  BY <1>1, <1>5 DEF ChoiceInv, HandingOver
<1>10. DefaultKept'
  <2>1. ASSUME power = "on", ~asked
        PROVE  choice' = Fresh
    <3>1. turn = "none" /\ choice = Fresh
      BY <2>1 DEF ChoiceInv, DefaultKept
    <3> QED BY <1>5, <3>1
  <2>2. Fresh' = Fresh
    BY DEF Fresh
  <2> QED BY <1>9, <2>1, <2>2 DEF ChoiceInv, DefaultKept
<1>11. HandingOver'
  <2>1. power' = "on" /\ previous' # None => choice'
    <3>1. previous' # None => previous # None
      BY <1>1
    <3>2. previous' # None => choice' = choice
      OBVIOUS
    <3> QED BY <3>1, <3>2 DEF ChoiceInv, HandingOver
  <2>2. ASSUME running' \in {"import", "handover"}
        PROVE  /\ turn' = "handing"
               /\ plan' # <<>> => LastOf(plan').kind = "policy"
               /\ \A job \in Entries(plan') :
                    /\ job.kind \in {"single", "policy"}
                    /\ job.kind = "policy" => ToUnit(job.val)
    <3>1. running' = running /\ plan' = Tail(plan) /\ turn' = turn
      BY <1>1, <2>2
    <3> QED BY <1>2, <1>4, <2>2, <3>1 DEF ChoiceInv, HandingOver
  <2> QED BY <2>1, <2>2 DEF HandingOver
<1>12. ChoiceLoads'
  <2> SUFFICES ASSUME power = "on", bootSingle, ~choiceFailed', choice', ~LoadedChoice(flash)
               PROVE  FALSE
    BY DEF ChoiceLoads
  <2>1. CASE choice' = choice /\ (running # "choice" \/ choiceFailed' \/ todo = <<>>)
    BY <2>1 DEF ChoiceInv, ChoiceLoads
  <2>2. CASE choice' = wish /\ flash.single = wish
    <3>1. wish \in BOOLEAN
      BY DEF TypeOK
    <3> QED BY <2>2, <3>1, StoreAssumption DEF LoadedChoice
  <2> QED BY <2>1, <2>2
<1>13. RangeReady'
  <2> SUFFICES ASSUME power # "erased", bootSingle, ~choiceFailed', ToRange'
               PROVE  Handed'
    BY DEF RangeReady
  <2>1. ~Saving'
    BY <1>1 DEF Saving
  <2>2. CASE ToRange
    <3>1. Handed
      BY <2>2 DEF ChoiceInv, RangeReady
    <3>2. active'.owner = "unit" \/ power # "on"
      BY <1>2, <3>1 DEF Handed, Job
    <3> QED BY <1>4, <2>1, <3>1, <3>2 DEF Handed
  <2>3. CASE ~ToRange
    <3>1. LoadedChoice(flash) /\ power = "on"
      BY <2>3 DEF ToRange
    <3>2. running # "choice"
      <4> SUFFICES ASSUME running = "choice" PROVE FALSE
        OBVIOUS
      <4>1. turn = "choosing" /\ wish /\ choice
        BY <1>5, <2>3, <3>1 DEF ToRange
      <4>2. choice' = choice \/ choice' = wish
        OBVIOUS
      <4>3. turn' \in {"none", "failed"}
        BY <1>1, <1>6
      <4> QED BY <2>3, <3>1, <4>1, <4>2, <4>3 DEF ToRange
    <3>3. choice' = choice /\ choice
      BY <2>3, <3>1, <3>2 DEF ToRange
    <3>4. turn' \in {"handed", "choosing"} /\ ~wish'
      BY <3>1, <3>3 DEF ToRange
    <3>5. running \in {"import", "handover"} /\ ~JobFails /\ Len(plan) = 1 /\ plan' = <<>>
      BY <1>1, <2>3, <3>1, <3>2, <3>4 DEF ToRange
    <3>6. Job.kind = "policy" /\ ToUnit(Job.val)
      BY <1>2, <3>5 DEF ChoiceInv, HandingOver, Job
    <3> QED BY <1>3, <2>1, <3>5, <3>6 DEF Handed, ToUnit
  <2> QED BY <2>2, <2>3
<1> QED BY <1>7, <1>8, <1>10, <1>11, <1>12, <1>13 DEF ChoiceInv
\* Who runs a job of another kind than the choice.
LEMMA ChoiceRunsAlone ==
  ASSUME ChoiceInv, Job.kind # "single"
  PROVE  running # "choice"
<1>1. Single(wish).kind = "single" /\ <<Single(wish)>>[1] = Single(wish)
  BY DEF Single
<1> QED BY <1>1 DEF ChoiceInv, ChoiceCarried, Job

LEMMA HandoverJobs ==
  ASSUME Queues, ChoiceInv, plan # <<>>, running \in {"import", "handover"}
  PROVE  /\ Job.kind \in {"single", "policy"}
         /\ Len(plan) = 1 => Job.kind = "policy"
BY EntriesOfTail DEF Queues, ChoiceInv, HandingOver, Job

LEMMA CommitChooses ==
  ASSUME StoreInv, PolicyInv, ChoiceInv, CommitSave, JobDone, Call = Commit, ~undoing
  PROVE  ChoiceInv'
<1> USE DEF StoreInv
<1>1. /\ todo # <<>> /\ plan # <<>> /\ Job \in Jobs
      /\ UNCHANGED <<flash, power, born, asked, choiceFailed>>
  BY CallsAreTyped DEF CommitSave, Queues
<1>2. undoing' = FALSE
  BY <1>1, JobEnds
<1>3. power = "on"
  BY <1>1, BusyIsOn DEF PolicyInv
<1>4. bootSingle' = bootSingle
  BY <1>2 DEF CommitSave, GiveUp
<1>5. Job.kind = "policy" => active' = Job.val /\ flash.cfg = Job.val
  <2>1. Job.kind = "policy" => active' = Job.val
    BY <1>2 DEF CommitSave, GiveUp
  <2>2. Job.kind = "policy" => flash.cfg = Job.val
    BY <1>1, CommittedRecord DEF Job
  <2> QED BY <2>1, <2>2
<1>6. Job.kind # "policy" => active' = active
  BY <1>2 DEF CommitSave, GiveUp
<1>7. running \in {"import", "handover"} /\ Len(plan) = 1 =>
        flash.cfg = Job.val /\ active' = Job.val
  BY <1>1, <1>5, HandoverJobs
<1>8. CASE Job.kind = "single"
  <2>1. choice' = Job.val /\ choiceStored' = TRUE
    BY <1>2, <1>8 DEF CommitSave, GiveUp
  <2>2. flash.single = Job.val
    <3>1. WellFormed(todo, Commit, plan[1].val) /\ todo[1] = Commit
      BY <1>1 DEF InHand, Call
    <3>2. Len(todo) = 1
      <4>1. Len(todo) \in Nat /\ Len(todo) > 0
        BY <3>1 DEF WellFormed
      <4>2. ~(1 \in 1 .. Len(todo) - 1)
        BY <3>1, Ops DEF WellFormed
      <4>3. \A n \in Nat : n > 0 /\ ~(1 \in 1 .. n - 1) => n = 1
        OBVIOUS
      <4> QED BY <4>1, <4>2, <4>3, Zenon
    <3>3. \A call \in Entries(todo) : call = Commit
      BY <3>1, <3>2 DEF Entries
    <3>4. Commit.op # "single"
      BY DEF Commit
    <3> QED BY <1>1, <1>8, <3>3, <3>4 DEF ChoiceInv, ChoiceFirst, Job
  <2>3. Job.val \in BOOLEAN
    BY <1>1, <1>8 DEF Jobs
  <2>4. running # "choice" => choice' = choice
    <3>1. plan[1] \in Entries(plan)
      BY <1>1, EntriesOfTail DEF Queues
    <3> QED BY <1>8, <2>1, <3>1 DEF ChoiceInv, ChoiceCarried, Job
  <2>5. ASSUME running = "choice"
        PROVE  choice' = wish /\ flash.single = wish /\ turn' = "none" /\ previous' = None
    <3>1. plan = <<Single(wish)>>
      BY <2>5 DEF ChoiceInv, ChoiceCarried
    <3>2. Job.val = wish /\ Len(plan) = 1
      BY <3>1 DEF Job, Single
    <3>3. ~(Len(plan) > 1)
      BY <3>2
    <3>4. Returned(TRUE)
      BY <3>3 DEF JobDone
    <3>5. turn' = "none" /\ previous' = None
      BY <2>5, <3>4 DEF Returned
    <3> QED BY <2>1, <2>2, <3>2, <3>5
  <2>6. flash.single # None
    BY <2>2, <2>3, StoreAssumption
  <2> QED BY <1>1, <1>3, <1>4, <1>5, <1>6, <1>7, <2>4, <2>5, <2>6, EndChooses
<1>9. CASE Job.kind # "single"
  <2>1. choice' = choice /\ choiceStored' = choiceStored
    BY <1>2, <1>9 DEF CommitSave, GiveUp
  <2>2. running # "choice"
    BY <1>9, ChoiceRunsAlone
  <2>3. power = "on" /\ choiceStored' => flash.single # None
    BY <2>1 DEF ChoiceInv, ChoiceFirst
  <2> QED BY <1>1, <1>3, <1>4, <1>5, <1>6, <1>7, <2>1, <2>2, <2>3, EndChooses
<1> QED BY <1>8, <1>9

LEMMA MigrationChooses ==
  ASSUME StoreInv, PolicyInv, ChoiceInv, CommitFails, JobDone, Job.kind = "migrate"
  PROVE  ChoiceInv'
<1> USE DEF StoreInv
<1>1. /\ todo # <<>> /\ plan # <<>>
      /\ UNCHANGED <<flash, power, born, asked, choiceFailed, bootSingle, choice, choiceStored,
                     active>>
  BY DEF CommitFails, Queues, storeVars
<1>2. power = "on"
  BY <1>1, BusyIsOn DEF PolicyInv
<1>3. running # "choice"
  BY ChoiceRunsAlone
<1>4. running \notin {"import", "handover"}
  BY <1>1, HandoverJobs
<1>5. power = "on" /\ choiceStored' => flash.single # None
  BY <1>1 DEF ChoiceInv, ChoiceFirst
<1> QED BY <1>1, <1>2, <1>3, <1>4, <1>5, EndChooses

LEMMA DiscardChooses ==
  ASSUME StoreInv, PolicyInv, ChoiceInv, Discard
  PROVE  ChoiceInv'
<1> USE DEF StoreInv
<1>1. /\ todo = <<Reopen>> /\ todo # <<>> /\ plan # <<>> /\ JobFails
      /\ UNCHANGED <<flash, power, born, asked, bootSingle, choice, choiceStored, active>>
      /\ choiceFailed' = (choiceFailed \/ running = "choice")
  BY DEF Discard, Queues
<1>2. power = "on"
  BY <1>1, BusyIsOn DEF PolicyInv
<1>3. power = "on" /\ choiceStored' => flash.single # None
  BY <1>1 DEF ChoiceInv, ChoiceFirst
<1> QED BY <1>1, <1>2, <1>3, EndChooses

\* A job that needs none of its calls.
LEMMA StartEndsChooses ==
  ASSUME StoreInv, PolicyInv, ChoiceInv, StartJob,
         JobFails \/ (AlreadySaved(Job) /\ JobDone /\ (Writable \/ ~Checked))
  PROVE  ChoiceInv'
<1> USE DEF StoreInv
<1>1. /\ plan # <<>> /\ todo = <<>>
      /\ UNCHANGED <<flash, power, handle, resetting, active, available, stored, last,
                        undoBroken>>
      /\ running # "none" /\ (Writable => power = "on")
  BY StartFacts
<1>2. UNCHANGED <<born, asked, choiceFailed, bootSingle, choice, choiceStored>>
  BY DEF StartJob, storeVars
<1>3. power # "off"
  BY <1>1 DEF PolicyInv, OffIdle
<1>4. power = "on" /\ choiceStored' => flash.single # None
  BY <1>2 DEF ChoiceInv, ChoiceFirst
<1>5. CASE JobFails
  BY <1>1, <1>2, <1>3, <1>4, <1>5, EndChooses
<1>6. CASE AlreadySaved(Job) /\ JobDone /\ (Writable \/ ~Checked)
  <2>1. Job.kind # "single"
    BY <1>6 DEF AlreadySaved
  <2>2. running # "choice"
    BY <2>1, ChoiceRunsAlone
  <2>3. ASSUME running \in {"import", "handover"}, Len(plan) = 1
        PROVE  flash.cfg = Job.val /\ active' = Job.val
    <3>1. Job.kind = "policy"
      BY <1>1, <2>3, HandoverJobs
    <3>2. available /\ stored /\ Job.val = active /\ Writable
      BY <1>6, <3>1 DEF AlreadySaved, Checked
    <3>3. ~Saving
      BY <1>1 DEF Saving
    <3>4. flash.cfg = active
      BY <1>1, <3>2, <3>3 DEF Held, Writable
    <3> QED BY <1>1, <3>2, <3>4
  <2> QED BY <1>1, <1>2, <1>3, <1>4, <1>6, <2>2, <2>3, EndChooses
<1> QED BY <1>5, <1>6

\* A job that makes way for the choice in force, or for the policy in force.
LEMMA StartYieldsChooses ==
  ASSUME StoreInv, PolicyInv, ChoiceInv, StartJob, Job.kind # "single", UNCHANGED turnVars,
         NEW job \in Jobs, Begin(running, <<job>> \o plan),
         \/ job = Single(choice)
         \/ job = Policy(active) /\ Job.kind = "cache"
  PROVE  ChoiceInv'
<1> USE DEF StoreInv
<1>1. /\ plan # <<>> /\ plan \in Seq(Jobs) /\ todo = <<>>
      /\ UNCHANGED <<flash, power, handle, resetting, active, available, stored, last,
                        undoBroken>>
  BY StartFacts
<1>2. UNCHANGED <<born, asked, choiceFailed, bootSingle, choice, choiceStored, turn, wish,
                  previous>>
  BY DEF StartJob, storeVars, turnVars
<1>3. running' = running /\ plan' = <<job>> \o plan /\ todo' = <<>>
  BY DEF Begin
<1>4. Entries(plan') = {job} \cup Entries(plan) /\ LastOf(plan') = LastOf(plan)
  BY <1>1, <1>3, EntriesOfCons
<1>5. Entries(<<>>) = {}
  BY DEF Entries
<1>6. running # "choice"
  BY ChoiceRunsAlone
<1>7. /\ job.kind = "single" => job.val = choice
      /\ job.kind = "policy" => job.val = active /\ Job.kind = "cache"
      /\ job.kind \in {"single", "policy"}
  BY DEF Single, Policy
<1>8. ChoiceFirst'
  BY <1>1, <1>2, <1>3 DEF ChoiceInv, ChoiceFirst
<1>9. ChoiceCarried'
  BY <1>2, <1>3, <1>4, <1>5, <1>6, <1>7 DEF ChoiceInv, ChoiceCarried
<1>10. DefaultKept'
  <2>1. Fresh' = Fresh
    BY <1>2 DEF Fresh
  <2> QED BY <1>1, <1>2, <2>1 DEF ChoiceInv, DefaultKept
<1>11. HandingOver'
  <2>1. running \in {"import", "handover"} => job.kind = "single"
    BY <1>1, <1>7, HandoverJobs
  <2> QED BY <1>1, <1>2, <1>3, <1>4, <2>1 DEF ChoiceInv, HandingOver
<1>12. ChoiceLoads'
  BY <1>1, <1>2 DEF ChoiceInv, ChoiceLoads
<1>13. RangeReady'
  <2>1. ToRange' => ToRange
    BY <1>1, <1>2 DEF ToRange
  <2>2. ~Saving'
    BY <1>3 DEF Saving
  <2>3. Handed => Handed'
    BY <1>1, <1>4, <1>7, <2>2 DEF Handed
  <2> QED BY <1>1, <1>2, <2>1, <2>3 DEF ChoiceInv, RangeReady
<1> QED BY <1>8, <1>9, <1>10, <1>11, <1>12, <1>13 DEF ChoiceInv

\* What a save writes as the choice.
LEMMA SinglesOf ==
  ASSUME NEW job \in Jobs, NEW call \in Entries(Calls(job)), call.op = "single"
  PROVE  \/ job.kind = "single" /\ call.val = job.val
         \/ job.kind = "rest" /\ call.val = choice
<1>1. PICK i \in 1 .. Len(Calls(job)) : call = Calls(job)[i]
  BY DEF Entries
<1>2. "single" \in OpsOf(job.kind) \cup {"commit", "reopen"}
  BY <1>1, SaveIsOwn DEF Own
<1>3. job.kind \in {"single", "rest"}
  BY <1>2 DEF OpsOf, Jobs, Mirrors
<1>4. CASE job.kind = "single"
  <2>1. Calls(job) = <<Set("single", job.val), Commit>>
    BY <1>4 DEF Calls
  <2>2. i = 1 \/ i = 2
    BY <1>1, <2>1
  <2>3. Calls(job)[1] = Set("single", job.val) /\ Calls(job)[2] = Commit
    BY <2>1
  <2> QED BY <1>1, <1>4, <2>2, <2>3 DEF Set, Commit
<1>5. CASE job.kind = "rest"
  <2>1. Calls(job) = <<Set("rest", TRUE), Set("single", choice), Commit>>
    BY <1>5 DEF Calls
  <2>2. i = 1 \/ i = 2 \/ i = 3
    BY <1>1, <2>1
  <2>3. /\ Calls(job)[1] = Set("rest", TRUE) /\ Calls(job)[2] = Set("single", choice)
        /\ Calls(job)[3] = Commit
    BY <2>1
  <2> QED BY <1>1, <1>5, <2>2, <2>3 DEF Set, Commit
<1> QED BY <1>3, <1>4, <1>5

\* A job whose calls begin.
LEMMA StartCallsChooses ==
  ASSUME StoreInv, PolicyInv, ChoiceInv, StartJob, ~NeedsChoice(Job), ~AlreadySaved(Job),
         todo' = Calls(Job), before' = flash,
         UNCHANGED <<running, plan, undoing, turnVars>>
  PROVE  ChoiceInv'
<1> USE DEF StoreInv
<1>1. /\ plan # <<>> /\ plan \in Seq(Jobs) /\ Job \in Jobs /\ todo = <<>>
      /\ UNCHANGED <<flash, power, handle, resetting, active, available, stored, last,
                        undoBroken>>
  BY StartFacts
<1>2. UNCHANGED <<born, asked, choiceFailed, bootSingle, choice, choiceStored, turn, wish,
                  previous, running, plan>>
  BY DEF StartJob, storeVars, turnVars
<1>3. ChoiceFirst'
  <2>1. Job.kind # "single" => choiceStored
    BY <1>1 DEF NeedsChoice, AlreadySaved, Jobs
  <2>2. Job.kind = "single" => \E call \in Entries(todo') : call.op = "single"
    <3>1. ASSUME Job.kind = "single"
          PROVE  /\ todo'[1].op = "single" /\ 1 \in 1 .. Len(todo')
      <4>1. todo' = <<Set("single", Job.val), Commit>>
        BY <3>1 DEF Calls
      <4> QED BY <4>1 DEF Set
    <3> QED BY <3>1 DEF Entries
  <2> QED BY <1>1, <1>2, <2>1, <2>2 DEF ChoiceInv, ChoiceFirst, Job
<1>4. ChoiceCarried'
  <2>1. ASSUME NEW call \in Entries(todo'), call.op = "single"
        PROVE  call.val = IF running = "choice" THEN wish ELSE choice
    <3>1. \/ Job.kind = "single" /\ call.val = Job.val
          \/ Job.kind = "rest" /\ call.val = choice
      BY <1>1, <2>1, SinglesOf
    <3>2. CASE running = "choice"
      <4>1. Job.kind = "single"
        BY <3>2, ChoiceRunsAlone
      <4>2. plan = <<Single(wish)>>
        BY <3>2 DEF ChoiceInv, ChoiceCarried
      <4>3. Job.val = wish
        BY <4>2 DEF Job, Single
      <4> QED BY <3>1, <3>2, <4>1, <4>3
    <3>3. CASE running # "choice"
      <4>1. Job \in Entries(plan)
        BY <1>1, EntriesOfTail DEF Job
      <4>2. Job.kind = "single" => Job.val = choice
        BY <3>3, <4>1 DEF ChoiceInv, ChoiceCarried
      <4> QED BY <3>1, <3>3, <4>2
    <3> QED BY <3>2, <3>3
  <2> QED BY <1>2, <2>1 DEF ChoiceInv, ChoiceCarried
<1>5. DefaultKept'
  <2>1. Fresh' = Fresh
    BY <1>2 DEF Fresh
  <2> QED BY <1>1, <1>2, <2>1 DEF ChoiceInv, DefaultKept
<1>6. HandingOver'
  BY <1>1, <1>2 DEF ChoiceInv, HandingOver
<1>7. ChoiceLoads'
  BY <1>1, <1>2 DEF ChoiceInv, ChoiceLoads
<1>8. RangeReady'
  <2>1. ToRange' => ToRange
    BY <1>1, <1>2 DEF ToRange
  <2>2. Handed => Handed'
    BY <1>1, <1>2 DEF Handed
  <2> QED BY <1>1, <1>2, <2>1, <2>2 DEF ChoiceInv, RangeReady
<1> QED BY <1>3, <1>4, <1>5, <1>6, <1>7, <1>8 DEF ChoiceInv

LEMMA StartChooses ==
  ASSUME StoreInv, PolicyInv, ChoiceInv, StartJob
  PROVE  ChoiceInv'
<1>1. active \in Policies /\ choice \in BOOLEAN
  BY DEF StoreInv, TypeOK
<1>2. Single(choice) \in Jobs /\ Policy(active) \in Jobs
  BY <1>1, JobTypes
<1>3. CASE ~Writable /\ Checked
  BY <1>3, StartEndsChooses DEF StartJob
<1>4. CASE Writable \/ ~Checked
  <2>1. CASE NeedsChoice(Job)
    <3>1. Job.kind # "single"
      BY <2>1 DEF NeedsChoice
    <3> QED BY <1>2, <1>4, <2>1, <3>1, StartYieldsChooses DEF StartJob
  <2>2. CASE ~NeedsChoice(Job) /\ AlreadySaved(Job)
    BY <1>4, <2>2, StartEndsChooses DEF StartJob
  <2>3. CASE ~NeedsChoice(Job) /\ ~AlreadySaved(Job) /\ NeedsPolicy(Job)
    <3>1. Job.kind = "cache"
      BY <2>3 DEF NeedsPolicy
    <3>2. CASE available
      BY <1>2, <1>4, <2>3, <3>1, <3>2, StartYieldsChooses DEF StartJob
    <3>3. CASE ~available
      BY <1>4, <2>3, <3>3, StartEndsChooses DEF StartJob
    <3> QED BY <3>2, <3>3
  <2>4. CASE ~NeedsChoice(Job) /\ ~AlreadySaved(Job) /\ ~NeedsPolicy(Job)
    BY <1>4, <2>4, StartCallsChooses DEF StartJob
  <2> QED BY <2>1, <2>2, <2>3, <2>4
<1> QED BY <1>3, <1>4
-----------------------------------------------------------------------------
(* The Auto setpoint mode: between saves *)

\* A caller that begins a save leaves what is in force alone, and plans nothing that
\* is against what the user has chosen.
LEMMA CallChooses ==
  ASSUME StoreInv, PolicyInv, ChoiceInv, Free, NEW who, NEW jobs \in Seq(Jobs), Begin(who, jobs),
         UNCHANGED <<flash, power, handle, active, choice, choiceStored, bootSingle, born,
                     choiceFailed>>,
         asked' \/ (asked' = asked /\ (Writable \/ asked \/ power # "on")),
         power = "on" /\ turn' # "none" => asked',
         IF who = "choice" THEN turn' = "choosing" /\ jobs = <<Single(wish')>>
                           ELSE \A job \in Entries(jobs) : job.kind # "single",
         power = "on" /\ previous' # None => choice,
         who \in {"import", "handover"} =>
           /\ turn' = "handing" /\ jobs # <<>> /\ LastOf(jobs).kind = "policy"
           /\ \A job \in Entries(jobs) : job.kind = "policy" /\ ToUnit(job.val),
         \/ \A job \in Entries(jobs) :
              job.kind = "policy" /\ active.owner = "unit" /\ bootSingle =>
                job.val.owner = "unit"
         \/ power = "on" /\ bootSingle /\ ~choiceFailed => ~ToRange',
         power = "on" /\ turn' \in {"handed", "choosing"} /\ ~wish' =>
           ~bootSingle \/ (turn \in {"handed", "choosing"} /\ ~wish)
  PROVE  ChoiceInv'
<1>1. plan = <<>> /\ todo = <<>> /\ ~Saving /\ power # "off"
  BY Between DEF Free
<1>2. running' = who /\ plan' = jobs /\ todo' = <<>>
  BY DEF Begin
<1>3. Entries(<<>>) = {}
  BY DEF Entries
<1>4. ChoiceFirst'
  BY <1>1, <1>2 DEF ChoiceInv, ChoiceFirst
<1>5. ChoiceCarried'
  BY <1>2, <1>3 DEF ChoiceCarried
<1>6. DefaultKept'
  <2>1. ASSUME ~asked'
        PROVE  ~asked /\ (power = "on" => handle)
    BY <2>1 DEF Writable
  <2>2. Fresh' = Fresh
    BY DEF Fresh
  <2>3. power \in {"on", "erased"}
    BY <1>1 DEF StoreInv, TypeOK
  <2> QED BY <2>1, <2>2, <2>3 DEF ChoiceInv, DefaultKept
<1>7. HandingOver'
  BY <1>1, <1>2 DEF HandingOver
<1>8. ChoiceLoads'
  BY <1>1 DEF ChoiceInv, ChoiceLoads
<1>9. RangeReady'
  <2> SUFFICES ASSUME power # "erased", bootSingle, ~choiceFailed, ToRange'
               PROVE  Handed'
    BY DEF RangeReady
  <2>1. power = "on"
    BY <1>1 DEF StoreInv, TypeOK
  <2>2. Handed
    BY <2>1 DEF ChoiceInv, RangeReady, ToRange
  <2>3. ~Saving'
    BY <1>2 DEF Saving
  <2> QED BY <1>2, <2>1, <2>2, <2>3 DEF Handed
<1> QED BY <1>4, <1>5, <1>6, <1>7, <1>8, <1>9 DEF ChoiceInv

LEMMA SaveChooses ==
  ASSUME StoreInv, PolicyInv, ChoiceInv, Save
  PROVE  ChoiceInv'
<1> DEFINE first == IF available THEN <<Policy(active)>> ELSE <<>>
           jobs  == first \o <<Rest>>
<1>1. /\ Policy(active) \in Jobs /\ Policy(active).kind = "policy"
      /\ Policy(active).val = active
      /\ Rest \in Jobs /\ Rest.kind = "rest"
  BY JobTypes DEF StoreInv, TypeOK, Policy, Rest
<1>2. <<Rest>> \in Seq(Jobs) /\ Entries(<<Rest>>) = {Rest}
  BY <1>1 DEF Entries
<1>3. jobs \in Seq(Jobs) /\ Entries(jobs) \subseteq {Policy(active), Rest}
  <2>1. CASE available
    <3>1. jobs = <<Policy(active)>> \o <<Rest>>
      BY <2>1
    <3> DEFINE a == Policy(active)
               r == <<Rest>>
    <3> HIDE DEF a, r
    <3>2. Entries(<<a>> \o r) = {a} \cup Entries(r) /\ <<a>> \o r \in Seq(Jobs)
      <4>1. a \in Jobs /\ r \in Seq(Jobs)
        BY <1>1, <1>2 DEF a, r
      <4> QED BY <4>1, EntriesOfCons
    <3> QED BY <1>2, <3>1, <3>2 DEF a, r
  <2>2. CASE ~available
    <3>1. jobs = <<Rest>>
      BY <1>2, <2>2
    <3> QED BY <1>2, <3>1
  <2> QED BY <2>1, <2>2
<1>4. Begin("save", jobs) /\ Free /\ Writable
  BY DEF Save
<1>5. UNCHANGED <<flash, power, handle, active, choice, choiceStored, bootSingle, born,
                  choiceFailed, asked, turn, wish, previous>>
  BY DEF Save, storeVars, historyVars, turnVars
<1> HIDE DEF first, jobs
<1>6. power = "on" => (turn # "none" => asked) /\ (previous # None => choice)
  BY DEF ChoiceInv, DefaultKept, HandingOver
<1>7. \A job \in Entries(jobs) : /\ job.kind # "single"
                                 /\ job.kind = "policy" => job.val = active
  BY <1>1, <1>3
<1> QED BY <1>3, <1>4, <1>5, <1>6, <1>7, CallChooses

\* The callers that ask for one job.
LEMMA OneJob ==
  ASSUME NEW job \in Jobs
  PROVE  /\ <<job>> \in Seq(Jobs) /\ <<job>> # <<>> /\ Entries(<<job>>) = {job}
         /\ LastOf(<<job>>) = job
BY DEF Entries, LastOf

LEMMA PolicyJob ==
  ASSUME NEW policy \in Policies
  PROVE  Policy(policy) \in Jobs /\ Policy(policy).kind = "policy" /\ Policy(policy).val = policy
BY JobTypes DEF Policy

LEMMA ToUnitPolicy ==
  ASSUME NEW policy \in Policies
  PROVE  /\ ToUnit([policy EXCEPT !.owner = "unit"])
         /\ \A b \in Bands : ToUnit([policy EXCEPT !.band = b, !.owner = "unit"])
BY DEF ToUnit, Policies, Owners

LEMMA CallersChoose ==
  ASSUME StoreInv, PolicyInv, ChoiceInv,
         SavePolicy \/ SaveRanges \/ HandOver \/ StoreChoice \/ TakeBack
  PROVE  ChoiceInv'
<1>1. /\ active \in Policies /\ wish \in BOOLEAN /\ previous \in Policies \cup {None}
      /\ power = "on" /\ turn # "none" => asked
      /\ power = "on" /\ previous # None => choice
  BY DEF StoreInv, TypeOK, ChoiceInv, DefaultKept, HandingOver
<1>2. CASE SavePolicy
  <2>1. PICK next \in Edits : Begin("policy", <<Policy(next)>>)
    BY <1>2 DEF SavePolicy
  <2>2. next \in Policies /\ (bootSingle => next.owner = active.owner)
    BY DEF Edits
  <2> DEFINE job == Policy(next)
  <2>3. job \in Jobs /\ job.kind = "policy" /\ job.val = next
    BY <2>2, PolicyJob
  <2> HIDE DEF job
  <2>4. <<job>> \in Seq(Jobs) /\ Entries(<<job>>) = {job}
    BY <2>3, OneJob
  <2>5. UNCHANGED <<flash, power, handle, active, choice, choiceStored, bootSingle, born,
                    choiceFailed, asked, turn, wish, previous>> /\ Free /\ Writable
    BY <1>2 DEF SavePolicy, storeVars, historyVars, turnVars
  <2>6. Begin("policy", <<job>>)
    BY <2>1 DEF job
  <2> QED BY <1>1, <2>2, <2>3, <2>4, <2>5, <2>6, CallChooses
<1>3. CASE SaveRanges
  <2> DEFINE job == Cache
  <2>1. job \in Jobs /\ job.kind = "cache"
    BY JobTypes DEF Cache
  <2>2. Begin("cache", <<job>>)
    BY <1>3 DEF SaveRanges
  <2> HIDE DEF job
  <2>3. <<job>> \in Seq(Jobs) /\ Entries(<<job>>) = {job}
    BY <2>1, OneJob
  <2>4. UNCHANGED <<flash, power, handle, active, choice, choiceStored, bootSingle, born,
                    choiceFailed, asked, turn, wish, previous>> /\ Free /\ Writable
    BY <1>3 DEF SaveRanges, storeVars, historyVars, turnVars
  <2> QED BY <1>1, <2>1, <2>2, <2>3, <2>4, CallChooses
<1>4. CASE HandOver
  <2> DEFINE policy == [active EXCEPT !.owner = "unit"]
             job == Policy(policy)
  <2>1. ToUnit(policy) /\ policy \in Policies /\ policy.owner = "unit"
    BY <1>1, ToUnitPolicy DEF ToUnit
  <2>2. Begin("handover", <<job>>)
    BY <1>4 DEF HandOver
  <2> HIDE DEF policy
  <2>3. job \in Jobs /\ job.kind = "policy" /\ job.val = policy
    BY <2>1, PolicyJob
  <2> HIDE DEF job
  <2>4. <<job>> \in Seq(Jobs) /\ <<job>> # <<>> /\ Entries(<<job>>) = {job} /\ LastOf(<<job>>) = job
    BY <2>3, OneJob
  <2>5. UNCHANGED <<flash, power, handle, active, choice, choiceStored, bootSingle, born,
                    choiceFailed, asked, turn, wish, previous>> /\ Free /\ turn = "handing"
    BY <1>4 DEF HandOver, storeVars, historyVars, turnVars
  <2> QED BY <1>1, <2>1, <2>2, <2>3, <2>4, <2>5, CallChooses
<1>5. CASE StoreChoice
  <2> DEFINE job == Single(wish)
  <2>1. job \in Jobs /\ job.kind = "single"
    BY <1>1, JobTypes DEF Single
  <2>2. Begin("choice", <<job>>)
    BY <1>5 DEF StoreChoice
  <2>3. UNCHANGED <<flash, power, handle, active, choice, choiceStored, bootSingle, born,
                    choiceFailed, asked, wish, previous>>
    BY <1>5 DEF StoreChoice, storeVars, historyVars
  <2>4. Free /\ turn = "handed" /\ turn' = "choosing" /\ job = Single(wish')
    BY <1>5 DEF StoreChoice
  <2>5. <<job>> = <<Single(wish')>>
    BY <2>4
  <2> HIDE DEF job
  <2>6. <<job>> \in Seq(Jobs) /\ Entries(<<job>>) = {job}
    BY <2>1, OneJob
  <2> QED BY <1>1, <2>1, <2>2, <2>3, <2>4, <2>5, <2>6, CallChooses
<1>6. CASE TakeBack
  <2> DEFINE job == Policy(previous)
  <2>1. previous \in Policies /\ previous # None
    BY <1>1, <1>6 DEF TakeBack, StoreInv, Queues
  <2>2. Begin("takeback", <<job>>)
    BY <1>6 DEF TakeBack
  <2>3. job \in Jobs /\ job.kind = "policy"
    BY <2>1, PolicyJob
  <2> HIDE DEF job
  <2>4. <<job>> \in Seq(Jobs) /\ Entries(<<job>>) = {job}
    BY <2>3, OneJob
  <2>5. UNCHANGED <<flash, power, handle, active, choice, choiceStored, bootSingle, born,
                    choiceFailed, asked, wish, previous>>
    BY <1>6 DEF TakeBack, storeVars, historyVars
  <2>6. Free /\ turn = "failed" /\ turn' = "takingBack"
    BY <1>6 DEF TakeBack
  <2>7. power = "on" /\ bootSingle /\ ~choiceFailed => ~ToRange'
    <3>1. todo = <<>>
      BY <2>6, Between DEF Free
    <3> QED BY <1>1, <2>1, <2>5, <2>6, <3>1 DEF ChoiceInv, ChoiceLoads, ToRange
  <2> QED BY <1>1, <2>2, <2>3, <2>4, <2>5, <2>6, <2>7, CallChooses
<1> QED BY <1>2, <1>3, <1>4, <1>5, <1>6
\* The user chooses: towards Range, a device that ran Single hands Auto over first.
LEMMA ChooseChooses ==
  ASSUME StoreInv, PolicyInv, ChoiceInv, NEW single \in BOOLEAN, ChooseAutoSingle(single)
  PROVE  ChoiceInv'
<1>1. /\ Free /\ turn = "none" /\ ~resetting /\ choice # single
      /\ asked' = TRUE /\ wish' = single
      /\ UNCHANGED <<flash, power, handle, active, choice, choiceStored, bootSingle, born,
                     choiceFailed>>
  BY DEF ChooseAutoSingle, storeVars
<1>2. power = "on"
  BY <1>1 DEF Free, StoreInv, Wiped, TypeOK
<1>3. active \in Policies /\ choice \in BOOLEAN
  BY DEF StoreInv, TypeOK
<1>4. CASE HandsOver(single) /\ ~UNCHANGED saveVars
  <2>1. PICK b \in Bands :
          Begin("import", <<Policy([active EXCEPT !.band = b, !.owner = "unit"])>>)
    BY <1>4 DEF ChooseAutoSingle
  <2>2. turn' = "handing" /\ choice
    BY <1>1, <1>3, <1>4 DEF ChooseAutoSingle, HandsOver
  <2> DEFINE policy == [active EXCEPT !.band = b, !.owner = "unit"]
             job == Policy(policy)
  <2>3. ToUnit(policy) /\ policy \in Policies /\ policy.owner = "unit"
    BY <1>3, ToUnitPolicy DEF ToUnit
  <2>4. Begin("import", <<job>>)
    BY <2>1
  <2> HIDE DEF policy
  <2>5. job \in Jobs /\ job.kind = "policy" /\ job.val = policy
    BY <2>3, PolicyJob
  <2> HIDE DEF job
  <2>6. <<job>> \in Seq(Jobs) /\ <<job>> # <<>> /\ Entries(<<job>>) = {job} /\ LastOf(<<job>>) = job
    BY <2>5, OneJob
  <2> QED BY <1>1, <2>2, <2>3, <2>4, <2>5, <2>6, CallChooses
<1>5. CASE UNCHANGED saveVars
  <2>1. plan = <<>> /\ todo = <<>> /\ ~Saving /\ running = "none"
    BY <1>1, Between DEF Free
  <2>2. plan' = <<>> /\ todo' = <<>> /\ running' = "none"
    BY <1>5, <2>1 DEF saveVars
  <2>3. Entries(<<>>) = {}
    BY DEF Entries
  <2>4. \/ turn' = "handing" /\ ~single /\ choice
        \/ turn' = "handed" /\ previous' = None /\ (single \/ ~bootSingle)
    BY <1>1, <1>3 DEF ChooseAutoSingle, HandsOver
  <2>5. ChoiceFirst' /\ ChoiceCarried' /\ HandingOver'
    <3>1. ChoiceFirst'
      BY <1>1, <2>2 DEF ChoiceInv, ChoiceFirst
    <3>2. ChoiceCarried'
      BY <2>2, <2>3 DEF ChoiceCarried
    <3>3. HandingOver'
      BY <1>1, <1>2, <2>2, <2>4 DEF HandingOver
    <3> QED BY <3>1, <3>2, <3>3
  <2>6. DefaultKept'
    BY <1>1 DEF DefaultKept
  <2>7. ChoiceLoads'
    BY <1>1, <2>1 DEF ChoiceInv, ChoiceLoads
  <2>8. RangeReady'
    <3> SUFFICES ASSUME bootSingle, ~choiceFailed, ToRange'
                 PROVE  Handed'
      BY <1>1 DEF RangeReady
    <3>1. ToRange
      BY <1>1, <1>2, <2>4 DEF ToRange
    <3>2. Handed
      BY <1>2, <3>1 DEF ChoiceInv, RangeReady
    <3>3. ~Saving'
      BY <2>2 DEF Saving
    <3> QED BY <1>1, <2>1, <2>2, <3>2, <3>3 DEF Handed
  <2> QED BY <2>5, <2>6, <2>7, <2>8 DEF ChoiceInv
<1>6. UNCHANGED saveVars \/ HandsOver(single)
  BY DEF ChooseAutoSingle
<1> QED BY <1>4, <1>5, <1>6

-----------------------------------------------------------------------------
(* The Auto setpoint mode: restarts and the reset *)

LEMMA NoEntries == Entries(<<>>) = {}
BY DEF Entries

\* A boot takes what flash has or stands for.
LEMMA BootChooses ==
  ASSUME StoreInv, PolicyInv, ChoiceInv, Boot
  PROVE  ChoiceInv'
<1>1. /\ power = "off" /\ power' = "on"
      /\ choice' = LoadedChoice(flash) /\ choiceStored' = (flash.single # None)
      /\ bootSingle' = LoadedChoice(flash)
      /\ UNCHANGED <<flash, turn, wish, previous, born, asked, choiceFailed>>
  BY DEF Boot, turnVars
<1>2. running' = "boot" /\ todo' = <<>> /\ plan' = BootPlan(flash)
  BY DEF Boot, Begin
<1>3. flash \in Flash /\ LoadedChoice(flash) \in BOOLEAN
  BY LoadedTypes DEF StoreInv, TypeOK
<1>4. turn = "none" /\ previous = None
  BY <1>1 DEF ChoiceInv, HandingOver
<1>5. ChoiceFirst'
  BY <1>1, <1>2 DEF ChoiceFirst
<1>6. ChoiceCarried'
  BY <1>1, <1>2, <1>3, BootPlanSingles, NoEntries DEF ChoiceCarried
<1>7. DefaultKept'
  <2>1. Fresh' = Fresh /\ Fresh \in BOOLEAN
    BY <1>1 DEF Fresh
  <2>2. ASSUME ~asked
        PROVE  LoadedChoice(flash) = Fresh
    BY <2>1, <2>2 DEF ChoiceInv, DefaultKept, LoadedChoice
  <2> QED BY <1>1, <1>4, <2>1, <2>2 DEF ChoiceInv, DefaultKept
<1>8. HandingOver'
  BY <1>1, <1>2, <1>4 DEF HandingOver
<1>9. ChoiceLoads'
  BY <1>1 DEF ChoiceLoads
<1>10. RangeReady'
  BY <1>1, <1>4 DEF RangeReady, ToRange
<1> QED BY <1>5, <1>6, <1>7, <1>8, <1>9, <1>10 DEF ChoiceInv

LEMMA UnopenedChooses ==
  ASSUME StoreInv, PolicyInv, ChoiceInv, BootUnopened
  PROVE  ChoiceInv'
<1>1. /\ power = "off" /\ power' = "on" /\ handle' = FALSE
      /\ choice' = FALSE /\ choiceStored' = FALSE /\ bootSingle' = FALSE
      /\ UNCHANGED <<flash, running, plan, todo, turn, wish, previous, born, asked,
                     choiceFailed>>
  BY DEF BootUnopened, saveVars, turnVars, historyVars
<1>2. plan = <<>> /\ todo = <<>> /\ running = "none"
  BY <1>1, Between DEF PolicyInv, OffIdle
<1>3. turn = "none" /\ previous = None
  BY <1>1 DEF ChoiceInv, HandingOver
<1>4. ChoiceFirst' /\ ChoiceLoads' /\ RangeReady'
  BY <1>1, <1>2 DEF ChoiceFirst, ChoiceLoads, RangeReady
<1>5. ChoiceCarried'
  BY <1>1, <1>2, NoEntries DEF ChoiceCarried
<1>6. DefaultKept'
  <2>1. Fresh' = Fresh
    BY <1>1 DEF Fresh
  <2> QED BY <1>1, <1>2, <1>3, <2>1 DEF ChoiceInv, DefaultKept
<1>7. HandingOver'
  BY <1>1, <1>2, <1>3 DEF HandingOver
<1> QED BY <1>4, <1>5, <1>6, <1>7 DEF ChoiceInv

LEMMA LossChooses ==
  ASSUME StoreInv, PolicyInv, ChoiceInv, PowerLoss
  PROVE  ChoiceInv'
<1>1. /\ power \in {"on", "erased"} /\ power' = "off"
      /\ turn' = "none" /\ previous' = None
      /\ running' = "none" /\ plan' = <<>> /\ todo' = <<>>
      /\ UNCHANGED <<flash, bootSingle, born, asked, choiceFailed>>
  BY DEF PowerLoss, Begin
<1>2. ChoiceFirst' /\ HandingOver' /\ ChoiceLoads'
  BY <1>1 DEF ChoiceFirst, HandingOver, ChoiceLoads
<1>3. ChoiceCarried'
  BY <1>1, NoEntries DEF ChoiceCarried
<1>4. DefaultKept'
  <2>1. Fresh' = Fresh
    BY <1>1 DEF Fresh
  <2> QED BY <1>1, <2>1 DEF ChoiceInv, DefaultKept
<1>5. RangeReady'
  <2> SUFFICES ASSUME bootSingle, ~choiceFailed, ~LoadedChoice(flash)
               PROVE  ToUnit(flash.cfg)
    BY <1>1 DEF RangeReady, ToRange, Handed
  <2>1. power # "erased"
    <3>1. LoadedChoice(Blank)
      BY DEF LoadedChoice, Blank, HadSettings, Keys
    <3> QED BY <3>1 DEF StoreInv, Wiped
  <2> QED BY <2>1 DEF ChoiceInv, RangeReady, ToRange, Handed
<1> QED BY <1>2, <1>3, <1>4, <1>5 DEF ChoiceInv

LEMMA EraseChooses ==
  ASSUME StoreInv, PolicyInv, ChoiceInv, Erase
  PROVE  ChoiceInv'
<1>1. /\ flash' = Blank /\ power' = "erased" /\ born' = "fresh"
      /\ UNCHANGED <<running, plan, todo>>
  BY DEF Erase, saveVars
<1>2. plan = <<>> /\ todo = <<>> /\ running = "none"
  BY Between DEF Erase, NoWriter
<1>3. ChoiceFirst' /\ HandingOver' /\ ChoiceLoads' /\ RangeReady'
  BY <1>1, <1>2 DEF ChoiceFirst, HandingOver, ChoiceLoads, RangeReady
<1>4. ChoiceCarried'
  BY <1>1, <1>2, NoEntries DEF ChoiceCarried
<1>5. DefaultKept'
  <2>1. Blank.single = None /\ ~HadSettings(Blank)
    BY DEF Blank, HadSettings, Keys
  <2> QED BY <1>1, <2>1 DEF DefaultKept, Fresh
<1> QED BY <1>3, <1>4, <1>5 DEF ChoiceInv

LEMMA LatchChooses ==
  ASSUME ChoiceInv, LatchReset \/ UNCHANGED vars
  PROVE  ChoiceInv'
<1>1. UNCHANGED <<flash, power, handle, active, choice, choiceStored, bootSingle, born, asked,
                  choiceFailed>>
  BY DEF LatchReset, vars, storeVars, historyVars
<1>2. UNCHANGED <<running, plan, todo, undoing, before, turn, wish, previous>>
  BY DEF LatchReset, vars, saveVars, turnVars
<1>3. (Saving' <=> Saving) /\ Fresh' = Fresh /\ (ToRange' <=> ToRange)
  BY <1>1, <1>2 DEF Saving, Fresh, ToRange
<1>4. ChoiceFirst' /\ ChoiceCarried'
  BY <1>1, <1>2 DEF ChoiceInv, ChoiceFirst, ChoiceCarried
<1>5. DefaultKept' /\ HandingOver' /\ ChoiceLoads'
  BY <1>1, <1>2, <1>3 DEF ChoiceInv, DefaultKept, HandingOver, ChoiceLoads
<1>6. RangeReady'
  BY <1>1, <1>2, <1>3 DEF ChoiceInv, RangeReady, Handed
<1> QED BY <1>4, <1>5, <1>6 DEF ChoiceInv

-----------------------------------------------------------------------------
(* The theorem about the Auto setpoint mode *)

\* A namespace with nothing in it is blank.
LEMMA EmptyIsBlank ==
  ASSUME NEW f \in Flash, \A key \in Keys : f[key] = None
  PROVE  f = Blank
<1>1. f = [key \in Keys |-> f[key]]
  BY DEF Flash, Keys
<1> QED BY <1>1 DEF Blank

LEMMA ChoiceInit == Init => ChoiceInv
<1> SUFFICES ASSUME Init PROVE ChoiceInv
  OBVIOUS
<1>1. /\ flash \in Births /\ power = "off" /\ running = "none" /\ plan = <<>> /\ todo = <<>>
      /\ turn = "none" /\ previous = None /\ bootSingle = FALSE
      /\ born = IF flash = Blank THEN "fresh" ELSE "upgrade"
      /\ asked = (flash.single = TRUE)
  BY DEF Init, Idle
<1>2. flash \in Flash
  BY <1>1, StoreAssumption
<1>3. ChoiceFirst /\ HandingOver /\ ChoiceLoads /\ RangeReady
  BY <1>1 DEF ChoiceFirst, HandingOver, ChoiceLoads, RangeReady
<1>4. ChoiceCarried
  BY <1>1, NoEntries DEF ChoiceCarried
<1>5. DefaultKept
  <2>1. Fresh <=> flash = Blank
    BY <1>1 DEF Fresh
  <2>2. Blank.single = None /\ ~HadSettings(Blank)
    BY DEF Blank, HadSettings, Keys
  <2>3. flash.single = None /\ ~HadSettings(flash) => flash = Blank
    BY <1>2, EmptyIsBlank DEF HadSettings, Keys
  <2>4. flash.single = FALSE => Fresh = FALSE
    BY <1>1, <2>2, StoreAssumption DEF Fresh
  <2>5. ASSUME ~asked
        PROVE  /\ flash.single \in {None, Fresh}
               /\ flash.single = None => (HadSettings(flash) <=> ~Fresh)
    <3>1. flash.single \in {None, FALSE}
      BY <1>1, <1>2, <2>5 DEF Flash
    <3>2. flash.single \in {None, Fresh}
      BY <2>4, <3>1
    <3>3. flash.single = None => (HadSettings(flash) <=> ~Fresh)
      BY <2>1, <2>2, <2>3
    <3> QED BY <3>2, <3>3
  <2> QED BY <1>1, <2>5 DEF DefaultKept
<1> QED BY <1>3, <1>4, <1>5 DEF ChoiceInv

LEMMA ChoiceStep ==
  StoreInv /\ StoreInv' /\ PolicyInv /\ ChoiceInv /\ [Next]_vars => ChoiceInv'
<1> SUFFICES ASSUME StoreInv, StoreInv', PolicyInv, ChoiceInv, [Next]_vars PROVE ChoiceInv'
  OBVIOUS
<1>1. TypeOK /\ Queues /\ InHand
  BY DEF StoreInv
<1>2. CASE InsideASave \/ StartJob \/ Discard
  BY <1>2, InsideChooses, StartChooses, DiscardChooses
<1>3. CASE \/ CommitSave /\ JobDone /\ Call = Commit /\ ~undoing
           \/ CommitFails /\ JobDone /\ Job.kind = "migrate"
  BY <1>3, CommitChooses, MigrationChooses
<1>4. CASE Save \/ SavePolicy \/ SaveRanges \/ HandOver \/ StoreChoice \/ TakeBack
  BY <1>4, SaveChooses, CallersChoose
<1>5. CASE \E single \in BOOLEAN : ChooseAutoSingle(single)
  BY <1>5, ChooseChooses
<1>6. CASE Boot \/ BootUnopened \/ PowerLoss \/ Erase
  BY <1>6, BootChooses, UnopenedChooses, LossChooses, EraseChooses
<1>7. CASE LatchReset \/ UNCHANGED vars
  BY <1>7, LatchChooses
<1> QED BY <1>1, <1>2, <1>3, <1>4, <1>5, <1>6, <1>7, StepKinds DEF Aside

LEMMA ChoiceInvHolds == Spec => []ChoiceInv
BY ChoiceInit, ChoiceStep, StoreInvHolds, PolicyInvHolds, PTL DEF Spec

\* Every boot runs Single on a fresh device and Range on an upgraded one until
\* someone chooses, wherever the power was lost and whatever writes failed: begin()
\* makes the default durable before anything else.  And the first boot in Range
\* after Single finds Auto with the unit, since saveAutoSingle() has stored the
\* handover before the choice.
THEOREM RunsAsChosen == Spec => BootsAsChosen
<1>1. ChoiceInv => (Boot => asked \/ bootSingle' = (born = "fresh"))
  <2> SUFFICES ASSUME ChoiceInv, Boot, ~asked
               PROVE  bootSingle' = (born = "fresh")
    OBVIOUS
  <2>1. bootSingle' = LoadedChoice(flash)
    BY DEF Boot
  <2>2. /\ flash.single \in {None, Fresh}
        /\ flash.single = None => (HadSettings(flash) <=> ~Fresh)
    BY DEF ChoiceInv, DefaultKept
  <2>3. LoadedChoice(flash) = Fresh
    <3>1. Fresh \in BOOLEAN
      BY DEF Fresh
    <3> QED BY <2>2, <3>1 DEF LoadedChoice
  <2> QED BY <2>1, <2>3 DEF Fresh
<1>2. ChoiceInv => (Boot /\ bootSingle /\ ~bootSingle' /\ available'
                      => active'.owner = "unit" \/ choiceFailed)
  <2> SUFFICES ASSUME ChoiceInv, Boot, bootSingle, ~bootSingle', ~choiceFailed
               PROVE  active'.owner = "unit"
    OBVIOUS
  <2>1. bootSingle' = LoadedChoice(flash) /\ active' = LoadedPolicy(flash) /\ power = "off"
    BY DEF Boot
  <2>2. ToUnit(flash.cfg)
    BY <2>1 DEF ChoiceInv, RangeReady, ToRange, Handed
  <2> QED BY <2>1, <2>2 DEF ToUnit, LoadedPolicy
<1>3. Spec => DefaultChoiceStays
  BY <1>1, ChoiceInvHolds, PTL DEF Spec, DefaultChoiceStays
<1>4. Spec => RangeIsHandedOver
  BY <1>2, ChoiceInvHolds, PTL DEF Spec, RangeIsHandedOver
<1> QED BY <1>3, <1>4 DEF BootsAsChosen
=============================================================================
