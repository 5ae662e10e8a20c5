----------------------------- MODULE WebDiscovery -----------------------------
(***************************************************************************)
(* Add Sensor, from a tap in the browser to the list on the page: httpd    *)
(* posts requests, WebUI::loop() on the main task opens and closes the     *)
(* session and offers its results to the mailbox of WsTransport, which may *)
(* refuse them (web_ws.cpp).  The radio behind the session is in BleScan.  *)
(***************************************************************************)
EXTENDS WsTransport, AddSensor

CONSTANT MaxRequests   \* bound: bleScan commands and toggles

VARIABLES
  bleOn,   \* BleSensor::isBleEnabled()
  session, \* the Add Sensor session
  web,     \* _discoveryRequested, _discoveryResync, _discoveryDonePending, _discoveryPushPending
  asks,    \* bleScan commands so far
  shown    \* the last end of a scan that httpd took for the browsers

vars == <<wsVars, bleOn, session, web, asks, shown>>

DiscoveryTypeOK ==
  web \in [requested: BOOLEAN, resync: BOOLEAN, donePending: BOOLEAN, pushPending: BOOLEAN]

Init ==
  /\ WsInit
  /\ bleOn = TRUE
  /\ session = NoSession
  /\ web = [requested |-> FALSE, resync |-> FALSE, donePending |-> FALSE, pushPending |-> FALSE]
  /\ asks = 0
  /\ shown = 0

---------------------------------------------------------------------------
\* {"cmd": "bleScan"}
BleScanCommand ==
  /\ asks < MaxRequests /\ asks' = asks + 1
  /\ flight = None
  /\ bleOn /\ ~session.open
  /\ web' = [web EXCEPT !.requested = TRUE]
  /\ UNCHANGED <<wsVars, bleOn, session, shown>>

\* {"cmd": "bleScanStop"}
BleScanStop ==
  /\ flight = None
  /\ web.requested \/ session.open
  /\ web' = [web EXCEPT !.requested = FALSE]
  /\ session' = StopRequested(session)
  /\ UNCHANGED <<wsVars, bleOn, asks, shown>>

\* A page is loaded: connected(), and the list so far is asked for.
Open(fd) ==
  /\ Connect(fd)
  /\ web' = [web EXCEPT !.resync = TRUE]
  /\ UNCHANGED <<bleOn, session, asks, shown>>

\* Mutant: the new session inherits the last one's end.
RequestHeard_Done(w, starts) ==
  IF ~starts THEN w ELSE [w EXCEPT !.requested = FALSE, !.pushPending = TRUE]
RequestHeard(w, starts) ==
  IF ~starts THEN w
  ELSE [w EXCEPT !.requested = FALSE, !.donePending = FALSE, !.pushPending = TRUE]

\* Mutant: a message is offered once.
StillPending_Never(push, accepted) == FALSE
StillPending(push, accepted) == push /\ ~accepted

\* What is to be pushed, and whether it is the end
Heard(w, s, completes) ==
  [w EXCEPT !.resync = FALSE, !.donePending = @ \/ completes,
            !.pushPending = @ \/ (w.resync /\ s.open) \/ completes \/ HasNews(s)]

\* The discovery part of WebUI::loop(); capped: BLE_DISCOVERY_MS have passed.
WebLoop(capped, busy) ==
  \E opened1 \in {IF web.requested THEN Opened(session, bleOn) ELSE session} :
  \E web1 \in {RequestHeard(web, web.requested)} :
  \E web2 \in {Heard(web1, opened1, Completes(opened1, capped))} :
     /\ session' = IF Completes(opened1, capped) THEN Closed(opened1) ELSE Pushed(opened1)
     /\ \E accepted \in {web2.pushPending /\ Accepted("discovery", busy)} :
          web' = [web2 EXCEPT !.pushPending = StillPending(@, accepted)]
     /\ IF web2.pushPending
        THEN Publish("discovery", IF web2.donePending THEN opened1.scan ELSE NoBody, busy)
        ELSE UNCHANGED <<pending, bytes, ready>>
     /\ UNCHANGED <<clients, opened, socket, broken, flight, jobs, worker, strayed,
                    bleOn, asks, shown>>

WebTick == \E capped, busy \in BOOLEAN : WebLoop(capped, busy)

\* setBleEnabled(): an open session does not outlive the radio.
SetBleEnabled ==
  /\ flight = None
  /\ asks < MaxRequests /\ asks' = asks + 1
  /\ bleOn' = ~bleOn
  /\ session' = IF bleOn THEN StopRequested(session) ELSE session
  /\ UNCHANGED <<wsVars, web, shown>>

DeviceFound ==
  /\ HasNews(Listed(session))
  /\ session' = Listed(session)
  /\ UNCHANGED <<wsVars, bleOn, web, asks, shown>>

\* A step of the transport; what httpd takes is on its way to the pages.
Transport(step) ==
  /\ step
  /\ shown' = IF flight' # None /\ flight'.message.body # NoBody
              THEN flight'.message.body ELSE shown
  /\ UNCHANGED <<bleOn, session, web, asks>>

Next ==
  \/ Transport(WsNext)
  \/ WebTick \/ DeviceFound \/ SetBleEnabled
  \/ BleScanCommand \/ BleScanStop
  \/ \E fd \in Fds : Open(fd)

Spec == Init /\ [][Next]_vars

\* Every task gets its turn, the lock is not busy for ever, a request put to
\* httpd again and again arrives in the end, and a session reaches its cap.
Fairness ==
  /\ WF_vars(Transport(Scheduler))
  /\ SF_vars(Transport(QueueWork /\ jobs' > 0))
  /\ WF_vars(Transport(Httpd))
  /\ SF_vars(WebLoop(TRUE, FALSE) /\ ~web'.pushPending)

FairSpec == Spec /\ Fairness

---------------------------------------------------------------------------
(***************************************************************************)
(* Properties                                                              *)
(***************************************************************************)
\* What the browsers are told of a session's end is true of that session, and
\* never inherited from the one before (web_ws.cpp 1673-1680).
DoneIsItsOwn ==
  \A i \in DOMAIN pending :
    pending[i].body # NoBody /\ pending[i].body = session.scan => ~session.open

\* What httpd sends goes where it was meant to, and says what is true.
SaidToTheRight == SentToItsOwn /\ DoneIsItsOwn

\* A session that is over is reported to the browsers, although the mailbox is
\* full, busy, or its request to httpd is lost (web_ws.cpp 1673-1693,
\* web_ws_transport.cpp 167-187): the button of every page comes back.
DoneIsReported ==
  (session.scan # 0 /\ ~session.open) ~>
    session.open \/ shown = session.scan \/ ~HasClients

===============================================================================
