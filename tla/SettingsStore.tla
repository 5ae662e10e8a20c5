--------------------------- MODULE SettingsStore ---------------------------
(***************************************************************************)
(* The checked part of SettingsStore: the setpoint policy, the Auto        *)
(* setpoint mode and the detected ranges, kept in NVS across power losses, *)
(* failing writes and a factory reset.                                     *)
(*                                                                         *)
(* Every save holds s_settingsWriteMutex and is a sequence of NVS calls.   *)
(* As on ESP-IDF, a write is in flash as soon as it is made, also one that *)
(* then returns an error; closing the handle takes nothing back.  The      *)
(* power can go between any two calls.                                     *)
(*                                                                         *)
(* "band" stands for the mirrors heatThresh and coolThresh, "rest" for the *)
(* keys that only save() writes, "legacy" for a key that a migration       *)
(* erases (a bleTimeout out of range).                                     *)
(***************************************************************************)
EXTENDS Naturals, Sequences

CONSTANTS
  None,          \* an absent key, and no value
  Damaged,       \* a rangeCfg record this firmware cannot decode
  Bands,         \* setpoint bands
  DefaultBand,   \* the band of a device that has none stored
  Births,        \* what the namespace may hold when this firmware first boots
  MaxLosses,     \* bound: power losses
  MaxFailures    \* bound: NVS calls that fail

Owners == {"device", "unit"}
Selections == {"automatic", "compatibility"}
Policies == [selection : Selections, band : Bands, owner : Owners]

Flash == [cfg : Policies \cup {None, Damaged}, band : Bands \cup {None},
          owner : Owners \cup {None}, single : BOOLEAN \cup {None},
          cache : {TRUE, None}, rest : {TRUE, None}, legacy : {TRUE, None}]
Keys == {"cfg", "band", "owner", "single", "cache", "rest", "legacy"}
Blank == [key \in Keys |-> None]

ASSUME StoreAssumption ==
  /\ DefaultBand \in Bands
  /\ None \notin Bands /\ None \notin Owners /\ None \notin BOOLEAN
  /\ None # Damaged /\ None \notin Policies /\ Damaged \notin Policies
  /\ Births \subseteq Flash
  /\ MaxLosses \in Nat /\ MaxFailures \in Nat

\* An older installation leaves more than a key that a migration erases: its
\* save() wrote all of them.
ASSUME EvidenceAssumption ==
  \A f \in Births : f.cfg = None /\ f.legacy # None =>
    \E key \in Keys \ {"single", "legacy", "cfg"} : f[key] # None

VARIABLES
  flash,
  power,         \* "off", "on", "erased": the reset has wiped the partition
  handle,        \* _handle is open
  resetting,     \* s_factoryResetting
  \* SettingsStore in memory
  active,        \* _setpoint
  available, stored,      \* _setpointAvailable, _setpointStored
  choice, choiceStored,   \* autoSingleSetpoint, _autoSingleStored
  bootSingle,    \* _autoSingleBoot
  cached,        \* _detected holds something
  \* the save under way, under s_settingsWriteMutex
  running,       \* "none", or who holds the lock
  plan,          \* what it still saves, in order
  todo,          \* the NVS calls left of the first of these
  undoing, attempted, restored,  \* after a failure: recordAttempted, recordRestored
  before,        \* the keys as they were when the save began
  \* SetpointControl::saveAutoSingle(), under controlMutex
  turn, wish, previous,
  \* bounds and history, read by properties only
  losses, failures,
  born,          \* "fresh" or "upgrade"
  last, attempt, \* the policy last in force, and one being saved since
  asked,         \* someone has chosen the Auto setpoint mode; TRUE is no older one's default
  choiceFailed,  \* a save of that choice has reported failure
  undoBroken     \* an undo was interrupted or did not succeed

storeVars == <<active, available, stored, choice, choiceStored, bootSingle, cached>>
saveVars  == <<running, plan, todo, undoing, attempted, restored, before>>
turnVars  == <<turn, wish, previous>>
boundVars == <<losses, failures>>
historyVars == <<born, last, attempt, asked, choiceFailed, undoBroken>>
vars == <<flash, power, handle, resetting, storeVars, saveVars, turnVars, boundVars,
          historyVars>>

-----------------------------------------------------------------------------
(* Boot: begin() *)

\* Auto alone is no evidence of an older installation.
HadSettings(f) == \E key \in Keys \ {"single"} : f[key] # None
LoadedChoice(f) == IF f.single # None THEN f.single ELSE ~HadSettings(f)
DefaultPolicy == [selection |-> "compatibility", band |-> DefaultBand, owner |-> "device"]
\* The policy of a namespace without a record.
InitialPolicy(f) ==
  [selection |-> IF HadSettings(f) THEN "compatibility" ELSE "automatic",
   band  |-> IF f.band # None THEN f.band ELSE DefaultBand,
   owner |-> IF f.owner # None THEN f.owner ELSE "device"]
LoadedPolicy(f) ==
  IF f.cfg \in Policies THEN f.cfg
  ELSE IF f.cfg = Damaged THEN DefaultPolicy ELSE InitialPolicy(f)

Single(val) == [kind |-> "single", val |-> val]
Policy(val) == [kind |-> "policy", val |-> val]
Migrate == [kind |-> "migrate", val |-> None]
Rest == [kind |-> "rest", val |-> None]
Cache == [kind |-> "cache", val |-> TRUE]

\* The Auto default is made durable before anything else is written.
BootPlan(f) ==
  (IF f.single = None THEN <<Single(LoadedChoice(f))>> ELSE <<>>)
  \o <<Migrate>>
  \o (IF f.cfg = None THEN <<Policy(LoadedPolicy(f))>> ELSE <<>>)

Idle ==
  /\ running = "none" /\ plan = <<>> /\ todo = <<>>
  /\ undoing = FALSE /\ attempted = FALSE /\ restored = TRUE /\ before = Blank

Init ==
  /\ flash \in Births
  /\ power = "off" /\ handle = FALSE /\ resetting = FALSE
  /\ active = DefaultPolicy /\ available = FALSE /\ stored = FALSE
  /\ choice = FALSE /\ choiceStored = FALSE /\ bootSingle = FALSE /\ cached = FALSE
  /\ Idle
  /\ turn = "none" /\ wish = FALSE /\ previous = None
  /\ losses = 0 /\ failures = 0
  /\ born = IF flash = Blank THEN "fresh" ELSE "upgrade"
  /\ last = LoadedPolicy(flash) /\ attempt = None
  /\ asked = (flash.single = TRUE) /\ choiceFailed = FALSE /\ undoBroken = FALSE

Begin(who, jobs) ==
  /\ running' = who /\ plan' = jobs /\ todo' = <<>>
  /\ undoing' = FALSE /\ attempted' = FALSE /\ restored' = TRUE /\ before' = Blank

Boot ==
  /\ power = "off"
  /\ power' = "on" /\ handle' = TRUE
  /\ choice' = LoadedChoice(flash) /\ choiceStored' = (flash.single # None)
  /\ bootSingle' = LoadedChoice(flash)
  /\ active' = LoadedPolicy(flash)
  /\ available' = (flash.cfg # Damaged) /\ stored' = (flash.cfg \in Policies)
  /\ cached' = (flash.cache # None)
  /\ Begin("boot", BootPlan(flash))
  /\ last' = LoadedPolicy(flash) /\ attempt' = None
  /\ UNCHANGED <<flash, resetting, turnVars, boundVars, born, asked, choiceFailed,
                 undoBroken>>

\* nvs_open() fails: the defaults of the class, and nothing is ever written.
BootUnopened ==
  /\ power = "off" /\ failures < MaxFailures
  /\ failures' = failures + 1
  /\ power' = "on" /\ handle' = FALSE
  /\ active' = DefaultPolicy
  /\ available' = FALSE /\ stored' = FALSE
  /\ choice' = FALSE /\ choiceStored' = FALSE /\ bootSingle' = FALSE /\ cached' = FALSE
  /\ UNCHANGED <<flash, resetting, saveVars, turnVars, losses, historyVars>>

\* A restart is a power loss, also the one that ends a factory reset.  What was
\* being decided is forgotten; bootSingle is what the last boot ran.
PowerLoss ==
  /\ \/ power = "on" /\ losses < MaxLosses /\ losses' = losses + 1
     \/ power = "erased" /\ UNCHANGED losses
  /\ power' = "off" /\ handle' = FALSE /\ resetting' = FALSE
  /\ undoBroken' = (undoBroken \/ (undoing /\ todo # <<>>))
  /\ Begin("none", <<>>)
  /\ turn' = "none" /\ wish' = FALSE /\ previous' = None
  /\ active' = DefaultPolicy /\ available' = FALSE /\ stored' = FALSE
  /\ choice' = FALSE /\ choiceStored' = FALSE /\ cached' = FALSE
  /\ UNCHANGED <<flash, bootSingle, failures, born, last, attempt, asked, choiceFailed>>

-----------------------------------------------------------------------------
(* A save: the jobs of a plan, one after another, each a sequence of calls *)

Set(key, val) == [op |-> key, val |-> val]
Commit == [op |-> "commit", val |-> None]
Reopen == [op |-> "reopen", val |-> None]   \* discardPending()

\* The record comes first when there is none yet, so that a power loss never
\* leaves mirrors that look like an older installation.  Mutant: always last.
PolicyCalls_RecordLast(val, f) ==
  <<Set("band", val.band), Set("owner", val.owner), Set("cfg", val), Commit>>
PolicyCalls(val, f) ==
  IF f.cfg = None THEN <<Set("cfg", val), Set("band", val.band), Set("owner", val.owner), Commit>>
                  ELSE <<Set("band", val.band), Set("owner", val.owner), Set("cfg", val), Commit>>

Calls(job) ==
  CASE job.kind = "single"  -> <<Set("single", job.val), Commit>>
    [] job.kind = "policy"  -> PolicyCalls(job.val, flash)
    [] job.kind = "cache"   -> <<Set("cache", TRUE), Commit>>
    [] job.kind = "rest"    -> <<Set("rest", TRUE), Set("single", choice), Commit>>
    [] job.kind = "migrate" -> <<Set("legacy", None), Commit>>

\* What a failed save puts back: the record and the cache as they were, the
\* mirrors from the policy in force, keys it created erased.  Mutant: the
\* mirrors only.
OldBand == Set("band", IF before.band = None THEN None ELSE active.band)
OldOwner == Set("owner", IF before.owner = None THEN None ELSE active.owner)
UndoCalls_MirrorsOnly(job, tried) == <<OldBand, OldOwner, Commit, Reopen>>
UndoCalls(job, tried) ==
  IF job.kind = "cache" THEN <<Set("cache", before.cache), Commit, Reopen>>
  ELSE IF tried THEN <<Set("cfg", before.cfg), OldBand, OldOwner, Commit, Reopen>>
  ELSE <<OldBand, OldOwner, Commit, Reopen>>

\* Normal writers establish the Auto choice first.
NeedsChoice(job) == job.kind \in {"policy", "cache", "rest"} /\ ~choiceStored

AlreadySaved(job) ==
  \/ job.kind = "policy" /\ available /\ stored /\ job.val = active
  \/ job.kind = "cache" /\ cached
  \/ job.kind = "migrate" /\ (~choiceStored \/ flash.legacy = None)

\* Ranges detected wait for the initial policy; an unavailable one needs repair.
NeedsPolicy(job) == job.kind = "cache" /\ ~stored

Release == Begin("none", <<>>)

\* The next step of saveAutoSingle() once the store returns to it.
Returned(ok) ==
  IF \/ running \notin {"import", "handover", "choice", "takeback"}
     \/ running = "import" \/ (running = "handover" /\ ok)
     \/ running = "choice" /\ ~ok /\ previous # None
  THEN /\ turn' = CASE running \in {"import", "handover"} /\ ok -> "handed"
                     [] running = "choice" -> "failed"
                     [] OTHER -> turn
       /\ UNCHANGED <<wish, previous>>
  ELSE turn' = "none" /\ wish' = FALSE /\ previous' = None

\* begin() goes on when the choice cannot be stored; every other save ends.
GoesOn == running = "boot" /\ Len(plan) > 1 /\ plan[2] = Migrate

JobFails ==
  IF GoesOn THEN Begin("boot", Tail(plan)) /\ UNCHANGED turnVars
  ELSE Release /\ Returned(FALSE)

JobDone ==
  IF Len(plan) > 1 THEN Begin(running, Tail(plan)) /\ UNCHANGED turnVars
  ELSE Release /\ Returned(TRUE)

Writable == handle /\ ~resetting

Job == plan[1]
\* The migrations look at no result, save() itself at that of its commit only.
Checked == Job.kind \notin {"rest", "migrate"}

StartJob ==
  /\ plan # <<>> /\ todo = <<>>
  /\ IF ~Writable /\ Checked
     THEN JobFails /\ UNCHANGED attempt
     ELSE IF NeedsChoice(Job)
     THEN Begin(running, <<Single(choice)>> \o plan) /\ UNCHANGED <<turnVars, attempt>>
     ELSE IF AlreadySaved(Job)
     THEN JobDone /\ UNCHANGED attempt
     ELSE IF NeedsPolicy(Job)
     THEN /\ IF available THEN Begin(running, <<Policy(active)>> \o plan) /\ UNCHANGED turnVars
                          ELSE JobFails
          /\ UNCHANGED attempt
     ELSE /\ todo' = Calls(Job) /\ before' = flash
          /\ attempt' = IF Job.kind = "policy" THEN Job.val ELSE attempt
          /\ UNCHANGED <<running, plan, undoing, attempted, restored, turnVars>>
  /\ UNCHANGED <<flash, power, handle, resetting, storeVars, boundVars,
                 born, last, asked, choiceFailed, undoBroken>>

Call == todo[1]
Applied == [flash EXCEPT ![Call.op] = Call.val]

\* A checked call fails, or finds the reset latched: undo, except during a reset.
GiveUp(tried) ==
  /\ undoing' = TRUE
  /\ todo' = IF Job.kind \in {"single", "rest"} \/ resetting THEN <<Reopen>>
             ELSE UndoCalls(Job, tried)
  /\ UNCHANGED <<running, plan, restored, before>>

\* isFactoryResetting() is asked after these calls.
Asks ==
  /\ ~undoing
  /\ \/ Call.op \in {"cfg", "owner", "single", "cache"} /\ Checked
     \/ Call.op = "commit" /\ Job.kind # "migrate"

Write ==
  /\ todo # <<>> /\ Call.op \in Keys
  /\ flash' = Applied
  /\ attempted' = (attempted \/ (Call.op = "cfg" /\ ~undoing))
  /\ IF Asks /\ resetting THEN GiveUp(attempted')
     ELSE todo' = Tail(todo) /\ UNCHANGED <<running, plan, undoing, restored, before>>
  /\ UNCHANGED <<power, handle, resetting, storeVars, turnVars, boundVars, historyVars>>

\* A failing write may have happened all the same.
WriteFails ==
  /\ todo # <<>> /\ Call.op \in Keys /\ failures < MaxFailures
  /\ failures' = failures + 1
  /\ flash' \in {flash, Applied}
  /\ attempted' = (attempted \/ (Call.op = "cfg" /\ ~undoing))
  /\ undoBroken' = (undoBroken \/ undoing)
  /\ IF undoing
     THEN /\ restored' = (restored /\ Call.op # "cfg") /\ todo' = Tail(todo)
          /\ UNCHANGED <<running, plan, undoing, before>>
     ELSE IF Checked THEN GiveUp(attempted')
     ELSE todo' = Tail(todo) /\ UNCHANGED <<running, plan, undoing, restored, before>>
  /\ UNCHANGED <<power, handle, resetting, storeVars, turnVars, losses, born, last, attempt,
                 asked, choiceFailed>>

\* The commit of a save that went well.
CommitSave ==
  /\ todo # <<>> /\ Call = Commit /\ ~undoing
  /\ IF Asks /\ resetting
     THEN /\ GiveUp(attempted)
          /\ UNCHANGED <<attempted, storeVars, turnVars, last, attempt>>
     ELSE /\ JobDone
          /\ IF Job.kind = "single" THEN choice' = Job.val /\ choiceStored' = TRUE
             ELSE UNCHANGED <<choice, choiceStored>>
          /\ IF Job.kind = "policy"
             THEN /\ active' = Job.val /\ available' = TRUE /\ stored' = TRUE
                  /\ last' = Job.val /\ attempt' = None
             ELSE UNCHANGED <<active, available, stored, last, attempt>>
          /\ cached' = (cached \/ Job.kind = "cache")
          /\ UNCHANGED bootSingle
  /\ UNCHANGED <<flash, power, handle, resetting, boundVars, born, asked, choiceFailed,
                 undoBroken>>

\* A failing commit.  The migrations do not look.
CommitFails ==
  /\ todo # <<>> /\ Call = Commit /\ failures < MaxFailures
  /\ failures' = failures + 1
  /\ undoBroken' = (undoBroken \/ undoing)
  /\ IF undoing
     THEN /\ restored' = FALSE /\ todo' = Tail(todo)
          /\ UNCHANGED <<running, plan, undoing, attempted, before, turnVars>>
     ELSE IF Job.kind = "migrate" THEN JobDone
     ELSE GiveUp(attempted) /\ UNCHANGED <<attempted, turnVars>>
  /\ UNCHANGED <<flash, power, handle, resetting, storeVars, losses, born,
                 last, attempt, asked, choiceFailed>>

\* The commit of an undo.
CommitUndo ==
  /\ todo # <<>> /\ Call = Commit /\ undoing
  /\ todo' = Tail(todo)
  /\ UNCHANGED <<flash, power, handle, resetting, storeVars, running, plan, undoing,
                 attempted, restored, before, turnVars, boundVars, historyVars>>

\* discardPending(), and the save reports failure.  A policy whose record could
\* not be put back is unavailable until it is saved again.
Discard ==
  /\ todo = <<Reopen>>
  /\ \/ handle' = ~resetting /\ failures' = failures
     \/ /\ ~resetting /\ failures < MaxFailures
        /\ handle' = FALSE /\ failures' = failures + 1
  /\ available' = (available /\ ~(Job.kind = "policy" /\ attempted /\ ~restored))
  /\ attempt' = IF Job.kind = "policy" /\ restored /\ ~resetting THEN None ELSE attempt
  /\ choiceFailed' = (choiceFailed \/ running = "choice")
  /\ JobFails
  /\ UNCHANGED <<flash, power, resetting, active, stored, choice, choiceStored, bootSingle,
                 cached, losses, born, last, asked, undoBroken>>

-----------------------------------------------------------------------------
(* The callers *)

Free == power # "off" /\ running = "none"

\* save(): the policy first when there is one to keep, then everything else.
Save ==
  /\ Free /\ Writable
  /\ Begin("save", (IF available THEN <<Policy(active)>> ELSE <<>>) \o <<Rest>>)
  /\ UNCHANGED <<flash, power, handle, resetting, storeVars, turnVars, boundVars,
                 historyVars>>

\* What the coordinator saves: submit(), applySettings(), importAutoTargetLocked().
\* Single keeps the stored band and owner.
Edits ==
  {next \in Policies :
     bootSingle => next.band = active.band /\ next.owner = active.owner}

SavePolicy ==
  /\ Free /\ turn = "none" /\ Writable
  /\ \E next \in Edits : Begin("policy", <<Policy(next)>>)
  /\ UNCHANGED <<flash, power, handle, resetting, storeVars, turnVars, boundVars,
                 historyVars>>

\* loop() saves the detected ranges, and with them whatever must come first.
SaveRanges ==
  /\ Free /\ turn = "none" /\ Writable
  /\ ~(cached /\ choiceStored)
  /\ Begin("cache", <<Cache>>)
  /\ UNCHANGED <<flash, power, handle, resetting, storeVars, turnVars, boundVars,
                 historyVars>>

\* saveAutoSingle(): back to Range, the unit is given Auto first, since Single
\* left the band stale: with a band around its own target when it is in Auto, and
\* with the stored one otherwise, or when the first cannot be saved.  Mutant: it
\* is not.
HandsOver_Never(single) == FALSE
HandsOver(single) == ~single /\ bootSingle

ChooseAutoSingle(single) ==
  /\ Free /\ turn = "none" /\ ~resetting /\ choice # single
  /\ HandsOver(single) => available
  /\ asked' = TRUE /\ wish' = single
  /\ IF HandsOver(single)
     THEN /\ previous' = active /\ turn' = "handing"
          /\ \/ UNCHANGED saveVars
             \/ \E b \in Bands :
                  Begin("import", <<Policy([active EXCEPT !.band = b, !.owner = "unit"])>>)
     ELSE previous' = None /\ turn' = "handed" /\ UNCHANGED saveVars
  /\ UNCHANGED <<flash, power, handle, resetting, storeVars, boundVars, born, last, attempt,
                 choiceFailed, undoBroken>>

HandOver ==
  /\ Free /\ turn = "handing"
  /\ Begin("handover", <<Policy([active EXCEPT !.owner = "unit"])>>)
  /\ UNCHANGED <<flash, power, handle, resetting, storeVars, turnVars, boundVars,
                 historyVars>>

StoreChoice ==
  /\ Free /\ turn = "handed"
  /\ turn' = "choosing"
  /\ Begin("choice", <<Single(wish)>>)
  /\ UNCHANGED <<flash, power, handle, resetting, storeVars, wish, previous, boundVars,
                 historyVars>>

\* The choice could not be saved, so the handover must not outlive it.
TakeBack ==
  /\ Free /\ turn = "failed"
  /\ turn' = "takingBack"
  /\ Begin("takeback", <<Policy(previous)>>)
  /\ UNCHANGED <<flash, power, handle, resetting, storeVars, wish, previous, boundVars,
                 historyVars>>

\* beginFactoryReset() latches, then waits for the save under way.  Mutant: it
\* does not wait.
LatchReset ==
  /\ power = "on" /\ running # "boot" /\ ~resetting
  /\ resetting' = TRUE
  /\ UNCHANGED <<flash, power, handle, storeVars, saveVars, turnVars, boundVars,
                 historyVars>>

NoWriter_Unlocked == TRUE
NoWriter == running = "none"

\* nvs_flash_erase(); the device restarts after it.
Erase ==
  /\ power = "on" /\ resetting /\ NoWriter
  /\ flash' = Blank /\ power' = "erased"
  /\ born' = "fresh" /\ last' = LoadedPolicy(Blank) /\ attempt' = None
  /\ asked' = FALSE /\ choiceFailed' = FALSE /\ undoBroken' = FALSE
  /\ UNCHANGED <<handle, resetting, storeVars, saveVars, turnVars, boundVars>>

Next ==
  \/ Boot \/ BootUnopened \/ PowerLoss
  \/ StartJob \/ Write \/ WriteFails \/ CommitSave \/ CommitFails \/ CommitUndo \/ Discard
  \/ Save \/ SavePolicy \/ SaveRanges
  \/ \E single \in BOOLEAN : ChooseAutoSingle(single)
  \/ HandOver \/ StoreChoice \/ TakeBack
  \/ LatchReset \/ Erase

Spec == Init /\ [][Next]_vars

-----------------------------------------------------------------------------
(* Properties *)

\* Every variable has its type.
TypeOK ==
  /\ flash \in Flash /\ before \in Flash
  /\ power \in {"off", "on", "erased"} /\ handle \in BOOLEAN /\ resetting \in BOOLEAN
  /\ active \in Policies /\ available \in BOOLEAN /\ stored \in BOOLEAN
  /\ choice \in BOOLEAN /\ choiceStored \in BOOLEAN /\ bootSingle \in BOOLEAN
  /\ cached \in BOOLEAN
  /\ running \in {"none", "boot", "save", "policy", "cache", "import", "handover",
                 "choice", "takeback"}
  /\ undoing \in BOOLEAN /\ attempted \in BOOLEAN /\ restored \in BOOLEAN
  /\ turn \in {"none", "handing", "handed", "choosing", "failed", "takingBack"}
  /\ wish \in BOOLEAN /\ previous \in Policies \cup {None}
  /\ losses \in 0 .. MaxLosses /\ failures \in 0 .. MaxFailures
  /\ born \in {"fresh", "upgrade"} /\ last \in Policies /\ attempt \in Policies \cup {None}
  /\ asked \in BOOLEAN /\ choiceFailed \in BOOLEAN /\ undoBroken \in BOOLEAN

\* Between saves, the policy in force is the one a restart will load: a failed
\* save is undone, or the policy is marked unavailable.
ActiveIsDurable ==
  power = "on" /\ running = "none" /\ ~resetting /\ available /\ stored => flash.cfg = active

\* A restart finds the policy last in force or the one that was being saved, so
\* a fresh device stays fresh and an upgraded one keeps its band and its
\* compatibility range, wherever the power was lost; an undo that was itself cut
\* short is excepted.
PolicyIsOldOrNew ==
  [][Boot /\ available' => active' \in {last, attempt} \/ undoBroken]_vars

\* "begin() defaults fresh installations to Single and upgrades to Range"
\* (settings.h): every boot decides alike until someone chooses.
DefaultChoiceStays ==
  [][Boot => asked \/ bootSingle' = (born = "fresh")]_vars

\* "a restart into Range would otherwise steer from a stale band"
\* (handAutoToUnitLocked()): the first boot in Range after Single finds Auto with
\* the unit.
RangeIsHandedOver ==
  [][Boot /\ bootSingle /\ ~bootSingle' /\ available'
       => active'.owner = "unit" \/ choiceFailed]_vars

\* A boot decides between Single and Range as it was told to, and hands Auto over.
BootsAsChosen == DefaultChoiceStays /\ RangeIsHandedOver

\* Once the reset has wiped the partition nothing is written before the restart.
ErasedStaysErased == [][power = "erased" /\ power' = "erased" => flash' = Blank]_vars
=============================================================================
