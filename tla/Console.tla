-------------------------------- MODULE Console --------------------------------
(***************************************************************************)
(* The serial console and its two users: the REPL of espnow_link.cpp,      *)
(* started once by a helper task of app_main(), and Improv Serial          *)
(* (improv_serial.cpp), which comes and goes with the recovery AP.  Wi-Fi, *)
(* the AP and the USB host change as they like (WifiRecovery).             *)
(***************************************************************************)
EXTENDS Integers

VARIABLES
  consoleNet,  \* Wi-Fi, the recovery AP, and a USB host on the bus
  repl,        \* "none", "starting", "probing", "failed" or "up"
  improv,      \* s_task_handle, s_task_alive, s_stop_requested, and what the task does
  driver       \* the USB-Serial-JTAG driver: installed, and s_usj_driver_ours

conVars == <<consoleNet, repl, improv, driver>>

Users == {"nobody", "repl", "improv"}
ConTypeOK ==
  /\ consoleNet \in [wifi: BOOLEAN, ap: BOOLEAN, host: BOOLEAN]
  /\ repl \in {"none", "starting", "probing", "failed", "up"}
  /\ improv \in [handle: BOOLEAN, alive: BOOLEAN, stop: BOOLEAN, busy: BOOLEAN, hears: BOOLEAN]
  /\ driver \in Users

ConInit ==
  /\ consoleNet = [wifi |-> FALSE, ap |-> FALSE, host |-> TRUE]
  /\ repl = "none"
  /\ improv = [handle |-> FALSE, alive |-> FALSE, stop |-> FALSE, busy |-> FALSE, hears |-> FALSE]
  /\ driver = "nobody"

ConsoleStarted == repl = "up"

---------------------------------------------------------------------------
(***************************************************************************)
(* The REPL                                                                *)
(***************************************************************************)
\* The one-shot of the main loop: a helper task does the rest.
ReplGate ==
  /\ repl = "none"
  /\ consoleNet.wifi /\ ~consoleNet.ap /\ consoleNet.host
  /\ repl' = "starting"
  /\ UNCHANGED <<consoleNet, improv, driver>>

\* esp_console_new_repl_usb_serial_jtag(): it needs the driver to itself.
ReplInstall ==
  /\ repl = "starting"
  /\ IF driver = "nobody" THEN repl' = "probing" /\ driver' = "repl"
     ELSE repl' = "failed" /\ UNCHANGED driver
  /\ UNCHANGED <<consoleNet, improv>>

\* The probe of the terminal blocks while there is no host.
ReplUp ==
  /\ repl = "probing" /\ consoleNet.host
  /\ repl' = "up"
  /\ UNCHANGED <<consoleNet, improv, driver>>

---------------------------------------------------------------------------
(***************************************************************************)
(* Improv                                                                  *)
(***************************************************************************)
Refused == improv.handle \/ improv.alive \/ ConsoleStarted

\* improv_serial_start(); created: the task could be created.
ImprovStarted(created) ==
  IF Refused \/ ~created THEN UNCHANGED <<improv, driver>>
  ELSE /\ driver' = IF driver = "nobody" THEN "improv" ELSE driver
       /\ improv' = [handle |-> TRUE, alive |-> TRUE, stop |-> FALSE, busy |-> FALSE, hears |-> TRUE]

\* enableFallbackAP()
ApUp ==
  /\ ~consoleNet.ap
  /\ consoleNet' = [consoleNet EXCEPT !.ap = TRUE]
  /\ \E created \in BOOLEAN : ImprovStarted(created)
  /\ UNCHANGED repl

\* Mutant: the slot is freed when the task is known to be gone.
HandleKept(i) == [i EXCEPT !.stop = TRUE, !.handle = i.busy]
\* improv_serial_stop() waits three seconds for the task, and no longer.
Stopping(i) == [i EXCEPT !.stop = TRUE, !.handle = FALSE]

\* Mutant: the driver is removed by stop() itself.
TakenBack == IF driver = "improv" THEN "nobody" ELSE driver
\* stop() leaves the console to the task.
LeftToTask == driver

\* disableFallbackAP()
ApDown ==
  /\ consoleNet.ap
  /\ consoleNet' = [consoleNet EXCEPT !.ap = FALSE]
  /\ improv' = IF improv.handle THEN Stopping(improv) ELSE improv
  /\ driver' = IF improv.handle THEN LeftToTask ELSE driver
  /\ UNCHANGED repl

\* A command: the scan and the connect wait block the task.
CommandTaken ==
  /\ improv.alive /\ ~improv.busy /\ ~improv.stop
  /\ improv' = [improv EXCEPT !.busy = TRUE]
  /\ UNCHANGED <<consoleNet, repl, driver>>

CommandDone ==
  /\ improv.busy
  /\ improv' = [improv EXCEPT !.busy = FALSE]
  /\ UNCHANGED <<consoleNet, repl, driver>>

\* improv_console_rx_detach(), and the end of the task
ImprovExit ==
  /\ improv.alive /\ ~improv.busy /\ improv.stop
  /\ improv' = [improv EXCEPT !.alive = FALSE, !.hears = FALSE]
  /\ driver' = IF driver = "improv" THEN "nobody" ELSE driver
  /\ UNCHANGED <<consoleNet, repl>>

Surroundings == /\ \E wifi, host \in BOOLEAN : consoleNet' = [consoleNet EXCEPT !.wifi = wifi, !.host = host]
           /\ UNCHANGED <<repl, improv, driver>>

ConNext ==
  \/ ReplGate \/ ReplInstall \/ ReplUp
  \/ ApUp \/ ApDown
  \/ CommandTaken \/ CommandDone \/ ImprovExit
  \/ Surroundings

ConSpec == ConInit /\ [][ConNext]_conVars

---------------------------------------------------------------------------
\* No task reads from a driver that has been removed, however long a command
\* outlives the wait of stop() (improv_serial.cpp 351-358, 453-489).
DriverHeld == (improv.hears \/ repl \in {"probing", "up"}) => driver # "nobody"

\* A task that has ended leaves the way free for the next one: a handle without
\* a task would refuse every later start (improv_serial.cpp 360-364, 453-459).
NeverLockedOut == improv.handle => improv.alive /\ ~improv.stop

\* The console's driver outlives its readers, and a task that ended its handle.
ConsoleShared == DriverHeld /\ NeverLockedOut

===============================================================================
