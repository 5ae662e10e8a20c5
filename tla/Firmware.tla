-------------------------------- MODULE Firmware --------------------------------
(***************************************************************************)
(* The life of a firmware image: the crash counter and safe mode of        *)
(* app_main(), validation, the upload of web_ota.cpp, and the event log    *)
(* that follows it all across resets (event_log.cpp, event_ring.h).        *)
(***************************************************************************)
EXTENDS Integers, FiniteSets

CONSTANTS
  Threshold,   \* CRASH_THRESHOLD (5)
  Cap,         \* EVENTLOG_CAP (24)
  Contents,    \* what an uploaded file may be
  MaxUploads,  \* bound: uploads
  MaxLosses,   \* bound: power losses and restarts by the user
  MaxHangs     \* bound: panics and hangs of the main task

ASSUME FirmwareAssumption ==
  /\ Threshold \in Nat \ {0} /\ Cap \in Nat \ {0}
  /\ Contents \subseteq {"good", "early", "foreign", "short", "damaged"}

VARIABLES
  flash,   \* what is in the two slots: an image, "empty", or "partial"
  marks,   \* the OTA state of each slot, and the slot chosen last
  main,    \* where app_main() is: "reset", "start", "counted" or "loop"
  app,     \* the running image's flags
  crash,   \* s_crashCount, and why the chip was last reset
  upload,  \* the POST /upload in progress
  wdt,     \* the watchdog's timeout, in seconds
  nvs,     \* bootCount, crashTotal and the ring, as they are in flash
  ram,     \* s_bootCount, s_crashTotal, s_blob
  spent    \* uploads, losses and hangs so far

fwVars == <<flash, marks, main, app, crash, upload, wdt, nvs, ram, spent>>

Slots == {0, 1}
\* early: it panics before it is validated; foreign: another project's image
Images == {"good", "early", "foreign", "damaged"}
Ours == {"good", "early"}
NoUpload == [at |-> "none", got |-> 0, of |-> "good", gone |-> FALSE]
\* http: whether the web server can start; ota: s_otaActive
NoFlags == [slot |-> 0, http |-> TRUE, safe |-> FALSE, ready |-> FALSE, validated |-> FALSE, ota |-> FALSE]
NoEntry == [boot |-> 0, type |-> "none"]
EmptyRing == [head |-> 0, count |-> 0, e |-> [i \in 0 .. Cap - 1 |-> NoEntry]]
NoLog == [boots |-> 0, crashes |-> 0, ring |-> EmptyRing]
Other(s) == 1 - s

\* Any image of ours can have been put there by the flasher.
FwInit ==
  /\ \E flashed \in Ours : flash = [s \in Slots |-> IF s = 0 THEN flashed ELSE "empty"]
  /\ marks = [state |-> [s \in Slots |-> "none"], last |-> 0]
  /\ main = "reset"
  /\ app = NoFlags
  /\ crash = [count |-> 0, reset |-> "power"]
  /\ upload = NoUpload
  /\ wdt = 10
  /\ nvs = NoLog
  /\ ram = NoLog
  /\ spent = [uploads |-> 0, losses |-> 0, hangs |-> 0]

---------------------------------------------------------------------------
(***************************************************************************)
(* The bootloader (external): an image that was started and not validated  *)
(* is given up for the other one.                                          *)
(***************************************************************************)
Booted(s) == IF s = "pending" THEN "aborted" ELSE s
NextBoot ==
  IF Booted(marks.state[marks.last]) # "aborted" THEN marks.last ELSE Other(marks.last)
MarksAtBoot ==
  [marks EXCEPT !.state = [s \in Slots |->
     LET left == IF s = marks.last THEN Booted(@[s]) ELSE @[s]
     IN  IF s = NextBoot /\ left = "new" THEN "pending" ELSE left]]

---------------------------------------------------------------------------
(***************************************************************************)
(* app_main()                                                              *)
(***************************************************************************)
\* s_crashCount at the start of app_main()
Counted(c) == IF c.reset = "crash" THEN c.count + 1 ELSE 0

Start ==
  /\ main = "reset"
  /\ main' = "start"
  /\ marks' = MarksAtBoot
  /\ crash' = [crash EXCEPT !.count = Counted(crash)]
  /\ \E http \in BOOLEAN :
       app' = [NoFlags EXCEPT !.slot = NextBoot, !.http = http,
                              !.safe = Counted(crash) >= Threshold]
  /\ UNCHANGED <<flash, upload, wdt, nvs, ram, spent>>

\* Mutant: the oldest entry is overwritten and stays the oldest.
AppendedInPlace(b, e) ==
  IF b.count < Cap THEN [b EXCEPT !.e[(b.head + b.count) % Cap] = e, !.count = @ + 1]
  ELSE [b EXCEPT !.e[b.head] = e]
\* eventblob_append()
Appended(b, e) ==
  IF b.count < Cap THEN [b EXCEPT !.e[(b.head + b.count) % Cap] = e, !.count = @ + 1]
  ELSE [b EXCEPT !.e[b.head] = e, !.head = (@ + 1) % Cap]

\* eventblob_newest()
Newest(b, i) == b.e[(b.head + b.count - 1 - i) % Cap]

CountersSaved(log, boots, crashes) == [log EXCEPT !.boots = boots, !.crashes = crashes]

\* The counters, first half of eventlog_init()
CountBoot ==
  /\ main = "start"
  /\ main' = "counted"
  /\ LET boots == nvs.boots + 1
         crashes == nvs.crashes + IF crash.reset = "crash" THEN 1 ELSE 0
     IN  /\ ram' = [boots |-> boots, crashes |-> crashes, ring |-> nvs.ring]
         /\ nvs' = CountersSaved(nvs, boots, crashes)
  /\ UNCHANGED <<flash, marks, app, crash, upload, wdt, spent>>

Logged(ring, type) == Appended(ring, [boot |-> ram.boots, type |-> type])
BootLogged ==
  LET boot == Logged(ram.ring, "boot")
      crashed == IF crash.reset = "crash" THEN Logged(boot, "crash") ELSE boot
  IN  IF app.safe THEN Logged(crashed, "safeMode") ELSE crashed

\* The boot's events, in one write
RecordBoot ==
  /\ main = "counted"
  /\ main' = "loop"
  /\ ram' = [ram EXCEPT !.ring = BootLogged]
  /\ nvs' = [nvs EXCEPT !.ring = BootLogged]
  /\ UNCHANGED <<flash, marks, app, crash, upload, wdt, spent>>

\* Mutant: the network counts as ready when its server runs.
HttpRuns(flags) == flags.http
\* networkReady does not depend on the server.
Ready(flags) == TRUE

\* The first attempt to start the web server, on Wi-Fi or on the recovery AP
NetworkReady ==
  /\ main = "loop" /\ ~app.ready
  /\ Ready(app)
  /\ app' = [app EXCEPT !.ready = TRUE]
  /\ UNCHANGED <<flash, marks, main, crash, upload, wdt, nvs, ram, spent>>

\* The heat pump has answered, or a minute has passed.
Validate ==
  /\ main = "loop"
  /\ ~app.safe /\ ~app.validated /\ app.ready
  /\ flash[app.slot] # "early"
  /\ app' = [app EXCEPT !.validated = TRUE]
  /\ marks' = [marks EXCEPT !.state[app.slot] = IF @ = "pending" THEN "valid" ELSE @]
  /\ crash' = [crash EXCEPT !.count = 0]
  /\ UNCHANGED <<flash, main, upload, wdt, nvs, ram, spent>>

---------------------------------------------------------------------------
(***************************************************************************)
(* Resets                                                                  *)
(***************************************************************************)
Reset(why) ==
  /\ main' = "reset"
  /\ crash' = [crash EXCEPT !.reset = why]
  /\ app' = NoFlags
  /\ upload' = NoUpload
  /\ wdt' = 10
  /\ ram' = NoLog

PowerLoss ==
  /\ main # "reset"
  /\ spent.losses < MaxLosses /\ spent' = [spent EXCEPT !.losses = @ + 1]
  /\ \E why \in {"power", "sw"} : Reset(why)
  /\ UNCHANGED <<flash, marks, nvs>>

Hang ==
  /\ main # "reset"
  /\ spent.hangs < MaxHangs /\ spent' = [spent EXCEPT !.hangs = @ + 1]
  /\ Reset("crash")
  /\ UNCHANGED <<flash, marks, nvs>>

\* A bad image shows its fault, in safe mode never.
EarlyCrash ==
  /\ main = "loop" /\ flash[app.slot] = "early" /\ ~app.safe
  /\ Reset("crash")
  /\ UNCHANGED <<flash, marks, nvs, spent>>

---------------------------------------------------------------------------
(***************************************************************************)
(* handleOtaUpload(), on httpd's task                                      *)
(***************************************************************************)
\* Every early return: the guards put the watchdog and s_otaActive back.
Unwound ==
  /\ upload' = NoUpload
  /\ wdt' = 10
  /\ app' = [app EXCEPT !.ota = FALSE]

Open(content) ==
  /\ main = "loop" /\ app.ready /\ app.http /\ upload.at = "none"
  /\ spent.uploads < MaxUploads /\ spent' = [spent EXCEPT !.uploads = @ + 1]
  /\ wdt' = 30
  /\ upload' = [NoUpload EXCEPT !.at = "begin", !.of = content]
  /\ UNCHANGED <<flash, marks, main, app, crash, nvs, ram>>

\* esp_ota_begin() erases the other slot; it refuses while the running image
\* may still be rolled back to it.
Begin ==
  /\ upload.at = "begin"
  /\ \/ /\ marks.state[app.slot] # "pending"
        /\ flash' = [flash EXCEPT ![Other(app.slot)] = "partial"]
        /\ app' = [app EXCEPT !.ota = TRUE]
        /\ upload' = [upload EXCEPT !.at = "receive"]
        /\ UNCHANGED wdt
     \/ Unwound /\ UNCHANGED flash
  /\ UNCHANGED <<marks, main, crash, nvs, ram, spent>>

\* Mutant: an upload may be shorter than the header, or of any project.
PassesAny(content) == TRUE
\* ota_guard_check(), on the first 288 bytes
PassesGuard(content) == content \notin {"foreign", "short"}

\* One chunk of two; the first holds the header.
Receive ==
  /\ upload.at = "receive" /\ ~upload.gone
  /\ \/ /\ PassesGuard(upload.of)
        /\ upload' = [upload EXCEPT !.got = @ + 1, !.at = IF @ = "receive" /\ upload.got = 1
                                                          THEN "end" ELSE @]
        /\ flash' = IF upload.got = 1 THEN [flash EXCEPT ![Other(app.slot)] = upload.of] ELSE flash
        /\ UNCHANGED <<app, wdt>>
     \/ Unwound /\ UNCHANGED flash
  /\ UNCHANGED <<marks, main, crash, nvs, ram, spent>>

\* The browser is gone without a FIN.
ClientGone ==
  /\ upload.at = "receive" /\ ~upload.gone
  /\ upload' = [upload EXCEPT !.gone = TRUE]
  /\ UNCHANGED <<flash, marks, main, app, crash, wdt, nvs, ram, spent>>

\* OTA_STALL_MS have passed without a byte.
Stalled == upload.gone

Stall ==
  /\ upload.at = "receive" /\ Stalled
  /\ Unwound
  /\ UNCHANGED <<flash, marks, main, crash, nvs, ram, spent>>

\* The hash, where the browser sent one, and esp_ota_end()
End ==
  /\ upload.at = "end"
  /\ \/ /\ upload.of # "damaged"
        /\ upload' = [upload EXCEPT !.at = "setBoot"]
        /\ UNCHANGED <<app, wdt>>
     \/ Unwound
  /\ UNCHANGED <<flash, marks, main, crash, nvs, ram, spent>>

\* esp_ota_set_boot_partition()
SetBoot ==
  /\ upload.at = "setBoot"
  /\ \/ /\ marks' = [state |-> [marks.state EXCEPT ![Other(app.slot)] = "new"],
                     last |-> Other(app.slot)]
        /\ upload' = [upload EXCEPT !.at = "installed"]
        /\ UNCHANGED <<app, wdt>>
     \/ Unwound /\ UNCHANGED marks
  /\ UNCHANGED <<flash, main, crash, nvs, ram, spent>>

\* EV_OTA_INSTALLED
Installed ==
  /\ upload.at = "installed"
  /\ upload' = [upload EXCEPT !.at = "restart"]
  /\ ram' = [ram EXCEPT !.ring = Logged(@, "ota")]
  /\ nvs' = [nvs EXCEPT !.ring = Logged(ram.ring, "ota")]
  /\ UNCHANGED <<flash, marks, main, app, crash, wdt, spent>>

Restart ==
  /\ upload.at = "restart"
  /\ Reset("sw")
  /\ UNCHANGED <<flash, marks, nvs, spent>>

Upload == Begin \/ Receive \/ Stall \/ End \/ SetBoot \/ Installed \/ Restart

FwNext ==
  \/ Start \/ CountBoot \/ RecordBoot \/ NetworkReady \/ Validate
  \/ PowerLoss \/ Hang \/ EarlyCrash
  \/ \E content \in Contents : Open(content)
  \/ ClientGone
  \/ Upload

\* app_main() goes on, a bad image shows its fault, and httpd's task runs.
FwFairness ==
  /\ WF_fwVars(Start \/ CountBoot \/ RecordBoot \/ NetworkReady)
  /\ WF_fwVars(Validate)
  /\ WF_fwVars(EarlyCrash)
  /\ WF_fwVars(Upload)

FwSpec == FwInit /\ [][FwNext]_fwVars
FwFairSpec == FwSpec /\ FwFairness

---------------------------------------------------------------------------
(***************************************************************************)
(* Properties                                                              *)
(***************************************************************************)
\* Whatever the moment of a power loss, a crash or a failing upload, what the
\* bootloader would start next is a complete image of this project
\* (web_ota.cpp 98-282, main.cpp 615-625).
BootsOurs == flash[NextBoot] \in Ours

\* The device comes to rest in an image that has been validated, or in safe
\* mode with its recovery page, not in a crash loop, and also where there is no
\* memory for the web server (main.cpp 128-149, 493-508, 615-625).
ComesUp == <>[](main = "loop" /\ app.ready /\ (app.safe \/ app.validated))

\* The log survives resets between its writes: it is in the order things
\* happened, and never names a boot or a crash that has not been counted
\* (event_log.cpp 52-92, event_ring.h 50-67).
LogInOrder ==
  LET b == nvs.ring
      crashEntries == {i \in 0 .. b.count - 1 : Newest(b, i).type = "crash"}
  IN  /\ \A i, j \in 0 .. b.count - 1 : i <= j => Newest(b, i).boot >= Newest(b, j).boot
      /\ \A i \in 0 .. b.count - 1 : Newest(b, i).boot <= nvs.boots
      /\ Cardinality(crashEntries) <= nvs.crashes

\* What boots is one of ours and the log tells its boots in order.
BootsSoundly == BootsOurs /\ LogInOrder

FwTypeOK ==
  /\ flash \in [Slots -> Images \cup {"empty", "partial"}]
  /\ marks.state \in [Slots -> {"none", "new", "pending", "valid", "aborted"}] /\ marks.last \in Slots
  /\ main \in {"reset", "start", "counted", "loop"}
  /\ upload.at \in {"none", "begin", "receive", "end", "setBoot", "installed", "restart"}
===============================================================================
