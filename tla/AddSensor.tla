------------------------------- MODULE AddSensor -------------------------------
(***************************************************************************)
(* The Add Sensor session of ble_sensor.cpp: one scan with a list of its   *)
(* own, opened and closed on the main task, stopped from any.              *)
(***************************************************************************)
EXTENDS Integers

\* open: s_discoveryMode; stop: s_discoveryStopReq; fresh: the list has grown
\* since it was last pushed.
NoSession == [scan |-> 0, open |-> FALSE, stop |-> FALSE, fresh |-> FALSE]

\* startDiscovery(), where Bluetooth is on
Opened(s, on) ==
  IF on THEN [scan |-> s.scan + 1, open |-> TRUE, stop |-> FALSE, fresh |-> FALSE] ELSE s

\* addDiscoveryResult(): a device that was not listed
Listed(s) == [s EXCEPT !.fresh = s.open]

\* stopDiscovery()
StopRequested(s) == IF s.open THEN [s EXCEPT !.stop = TRUE] ELSE s

\* pollDiscoveryUpdate()
HasNews(s) == s.open /\ s.fresh
Pushed(s) == [s EXCEPT !.fresh = FALSE]

\* pollDiscoveryComplete(): over at the cap, or on a stop
Completes(s, capped) == s.open /\ (s.stop \/ capped)
Closed(s) == [s EXCEPT !.open = FALSE, !.stop = FALSE]
===============================================================================
