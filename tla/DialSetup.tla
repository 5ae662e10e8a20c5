------------------------------- MODULE DialSetup -------------------------------
(***************************************************************************)
(* The setup sessions of the dials (sl2_link.c): a dial asks for the setup *)
(* network under a session number of its own, repeats the request until it *)
(* sees the network, and may cancel the session.  Frames are lost, delayed *)
(* and repeated; dials take the session over from each other; the device   *)
(* restarts and opens its network for other reasons too.  The bookkeeping  *)
(* must keep a cancelled session from opening the network again, and a     *)
(* cancel from ending what another session opened.                         *)
(***************************************************************************)
EXTENDS Naturals, FiniteSets

CONSTANTS
  Heads,       \* bonded dials
  Sessions,    \* pairs <<dial, number>>; 0 is the start of a dial without sessions
  Unset,       \* no session, no status
  MaxAsked,    \* bound: sessions asked for
  MaxEpochs    \* bound: boots of the device

\* Sessions belong to dials, and what stands for none is none of them.
ASSUME SetupAssumption ==
  /\ Sessions \subseteq Heads \X Nat
  /\ Unset \notin Sessions
  /\ Unset \notin {"closed", "waiting", "recovery", "stale"}
  /\ MaxEpochs \in Nat \ {0}

VARIABLES
  bonded,     \* the dials of the bond table
  owner,      \* wifi_owner_*: the session in charge, or Unset
  started,    \* wifi_setup_started
  cancelled,  \* wifi_owner_cancelled with its status, or Unset
  asked,      \* dials with wifi_setup_req
  retired,    \* per session the status it was retired with, or Unset
  net,        \* the recovery network, as WifiRecovery keeps it
  bootEpoch,  \* sl2_link's epoch
  sky,        \* frames sent: each may arrive at any time, again, or never
  opener,     \* history: the session that opened the window last
  answers     \* history: the final answers to cancels, as <<session, epoch, answer>>

linkVars == <<bonded, owner, started, cancelled, asked, retired>>
setupVars == <<linkVars, net, bootEpoch, sky, opener, answers>>

Statuses == {"closed", "waiting", "recovery", "stale"}
Dial(s) == s[1]
HasNumber(s) == s[2] # 0

SetupTypeOK ==
  /\ owner \in Sessions \union {Unset}
  /\ started \in BOOLEAN
  /\ cancelled \in Statuses \union {Unset}
  /\ bonded \subseteq Heads /\ asked \subseteq bonded
  /\ retired \in [Sessions -> Statuses \union {Unset}]
  /\ net \in [ap: BOOLEAN, window: BOOLEAN, reprovisioned: BOOLEAN, trial: BOOLEAN,
              online: BOOLEAN]
  /\ bootEpoch \in 1..MaxEpochs
  /\ sky \subseteq [kind: {"setup", "cancel"}, session: Sessions, epoch: 1..MaxEpochs]
  /\ opener \in Sessions \union {Unset}
  /\ answers \subseteq Sessions \X (1..MaxEpochs) \X {"ended", "stale"}

---------------------------------------------------------------------------
(***************************************************************************)
(* The network of WifiRecovery, as far as the sessions can tell            *)
(***************************************************************************)
Begin(n) == [n EXCEPT !.ap = TRUE, !.window = TRUE,
                      !.reprovisioned = @ /\ n.window]

ApClosed(n) == [n EXCEPT !.ap = FALSE, !.window = FALSE, !.reprovisioned = FALSE]

\* cancelChangeWindow() and what it returns
CancelledWindow(n) ==
  CASE ~n.window -> [net |-> n, status |-> IF n.ap THEN "recovery" ELSE "closed"]
    [] n.window /\ n.trial -> [net |-> n, status |-> "waiting"]
    [] n.window /\ ~n.trial /\ n.online -> [net |-> ApClosed(n), status |-> "closed"]
    [] OTHER -> [net |-> [n EXCEPT !.window = FALSE, !.reprovisioned = FALSE],
                 status |-> "recovery"]

---------------------------------------------------------------------------
(***************************************************************************)
(* Bookkeeping                                                             *)
(***************************************************************************)

\* wifi_retire(): the starts without a number are not remembered.  The ring
\* remembers more sessions of a dial than the instances have.
Retire(ret, s, status) == IF HasNumber(s) THEN [ret EXCEPT ![s] = status] ELSE ret

\* Mutant: a new owner inherits what the old one had started.
QueueInherits(s) ==
  IF HasNumber(s) /\ (retired[s] # Unset \/ (owner = s /\ cancelled # Unset))
  THEN UNCHANGED <<owner, started, cancelled, asked, retired>>
  ELSE IF owner = s /\ ~(~HasNumber(s) /\ cancelled # Unset)
  THEN /\ asked' = asked \union {Dial(s)}
       /\ UNCHANGED <<owner, started, cancelled, retired>>
  ELSE /\ retired' = IF owner = Unset THEN retired ELSE Retire(retired, owner, "stale")
       /\ owner' = s
       /\ cancelled' = Unset
       /\ asked' = {Dial(s)}
       /\ UNCHANGED started

\* wifi_queue_setup(): a session that is over stays so; a new owner retires
\* the old one and every other request.
QueueSetup(s) ==
  IF HasNumber(s) /\ (retired[s] # Unset \/ (owner = s /\ cancelled # Unset))
  THEN UNCHANGED <<owner, started, cancelled, asked, retired>>
  ELSE IF owner = s /\ ~(~HasNumber(s) /\ cancelled # Unset)
  THEN /\ asked' = asked \union {Dial(s)}
       /\ UNCHANGED <<owner, started, cancelled, retired>>
  ELSE /\ retired' = IF owner = Unset THEN retired ELSE Retire(retired, owner, "stale")
       /\ owner' = s
       /\ started' = FALSE
       /\ cancelled' = Unset
       /\ asked' = {Dial(s)}

\* wifi_observe_ap_closed(): an executed session whose network is down is over
Observes == owner # Unset /\ started /\ cancelled = Unset /\ Dial(owner) \notin asked

\* wifi_terminal_status()
Terminal(status, apStatus) == IF status \in {"closed", "recovery"} THEN apStatus ELSE status

Answered(s, status) ==
  CASE status = "waiting" -> answers
    [] status = "stale" -> answers \union {<<s, bootEpoch, "stale">>}
    [] OTHER -> answers \union {<<s, bootEpoch, "ended">>}

\* wifi_cancel(): a session that never started must not touch the network.
CancelSession(s) ==
  LET ap == IF net.ap THEN "recovery" ELSE "closed"
      seen == ~net.ap /\ Observes
      isOver == IF seen THEN "closed" ELSE cancelled
      runs == started /\ ~seen
      was == IF seen THEN Retire(retired, owner, "closed") ELSE retired
      mine == owner = s
      foreign == owner # Unset /\ ~mine /\ isOver \in {Unset, "waiting"}
      ended == mine /\ isOver \notin {Unset, "waiting"}
      past == ~foreign /\ ~ended /\ was[s] \notin {Unset, "waiting"}
      call == ~past /\ ~ended /\ mine /\ runs
      status == CASE foreign -> "stale"
                  [] ended -> Terminal(isOver, ap)
                  [] past -> Terminal(was[s], ap)
                  [] call -> CancelledWindow(net).status
                  [] OTHER -> ap
  IN  /\ net' = IF call THEN CancelledWindow(net).net ELSE net
      /\ started' = runs
      /\ cancelled' = IF mine THEN status ELSE isOver
      /\ asked' = IF mine THEN asked \ {Dial(s)} ELSE asked
      /\ retired' = Retire(was, s, status)
      /\ answers' = Answered(s, status)

---------------------------------------------------------------------------
(***************************************************************************)
(* The main task                                                           *)
(***************************************************************************)

\* Mutant: a session echoes any epoch, as a start without a number may.
HeardAnyEpoch(f) == Dial(f.session) \in bonded

\* wifi_epoch_ok(): a session packet always echoes the epoch of this boot.
EpochOk(f) == /\ Dial(f.session) \in bonded
              /\ HasNumber(f.session) => f.epoch = bootEpoch

ReceiveSetup(f) ==
  /\ f \in sky /\ f.kind = "setup" /\ EpochOk(f)
  /\ QueueSetup(f.session)
  /\ UNCHANGED <<bonded, net, bootEpoch, sky, opener, answers>>

ReceiveCancel(f) ==
  /\ f \in sky /\ f.kind = "cancel" /\ EpochOk(f)
  /\ CancelSession(f.session)
  /\ UNCHANGED <<bonded, owner, bootEpoch, sky, opener>>

\* sl2_link_loop(): builds STATE when a dial is there to see it, and serves
\* the requests of those that are.
\* Which dials are live is up to them: any were heard of lately, or not.
Loop(live) ==
  /\ LET seen == ~net.ap /\ Observes
         serves == asked \intersect live
     IN  /\ started' = ((started /\ ~seen) \/ serves # {})
         /\ cancelled' = IF seen THEN "closed" ELSE cancelled
         /\ retired' = IF seen THEN Retire(retired, owner, "closed") ELSE retired
         /\ asked' = asked \ serves
         /\ net' = IF serves = {} THEN net ELSE Begin(net)
         /\ opener' = IF serves = {} THEN opener ELSE owner
  /\ UNCHANGED <<bonded, owner, bootEpoch, sky, answers>>

\* sl2_link_forget_dial(): the bond goes, and with it what the dial may do.
ForgetDial(d) ==
  /\ d \in bonded
  /\ bonded' = bonded \ {d}
  /\ owner' = IF owner # Unset /\ Dial(owner) = d THEN Unset ELSE owner
  /\ asked' = asked \ {d}
  /\ retired' = [s \in Sessions |-> IF Dial(s) = d THEN Unset ELSE retired[s]]
  /\ UNCHANGED <<started, cancelled, net, bootEpoch, sky, opener, answers>>

---------------------------------------------------------------------------
(***************************************************************************)
(* The network's own course                                                *)
(***************************************************************************)
NetworkOnly(n) == /\ net' = n
                  /\ UNCHANGED <<linkVars, bootEpoch, sky, opener, answers>>

Recover == ~net.online /\ ~net.ap /\ NetworkOnly([net EXCEPT !.ap = TRUE])

Submit == net.ap /\ ~net.trial
          /\ NetworkOnly([net EXCEPT !.trial = TRUE, !.reprovisioned = TRUE])

TrialEnds == \E joined \in BOOLEAN :
               net.trial /\ NetworkOnly([net EXCEPT !.trial = FALSE, !.online = joined])

Weather == ~net.trial /\ NetworkOnly([net EXCEPT !.online = ~@])

WindowExpires == net.window /\ ~net.trial /\ NetworkOnly(CancelledWindow(net).net)

Completes == /\ net.ap /\ net.online /\ ~net.trial /\ (~net.window \/ net.reprovisioned)
             /\ NetworkOnly(ApClosed(net))

\* A restart forgets the sessions and draws another epoch.
Reboot ==
  /\ bootEpoch < MaxEpochs
  /\ bootEpoch' = bootEpoch + 1
  /\ owner' = Unset /\ started' = FALSE /\ cancelled' = Unset /\ asked' = {}
  /\ retired' = [s \in Sessions |-> Unset]
  /\ net' \in {[ap |-> ~online, window |-> FALSE, reprovisioned |-> FALSE, trial |-> FALSE,
                online |-> online] : online \in BOOLEAN}
  /\ opener' = Unset
  /\ UNCHANGED <<bonded, sky, answers>>

---------------------------------------------------------------------------
(***************************************************************************)
(* The dials (external): a session is cancelled after it was asked for,    *)
(* and is not asked for once it was cancelled.                             *)
(***************************************************************************)
Sent(kind, s) == \E f \in sky : f.kind = kind /\ f.session = s

SendFrame(kind, s) ==
  /\ sky' = sky \union {[kind |-> kind, session |-> s, epoch |-> bootEpoch]}
  /\ sky' # sky /\ Dial(s) \in bonded
  /\ UNCHANGED <<linkVars, net, bootEpoch, opener, answers>>

AskSetup(s) ==
  /\ ~Sent("cancel", s)
  /\ Cardinality({f.session : f \in sky} \union {s}) <= MaxAsked
  /\ SendFrame("setup", s)

AskCancel(s) == Sent("setup", s) /\ HasNumber(s) /\ SendFrame("cancel", s)

---------------------------------------------------------------------------
SetupInit ==
  /\ bonded = Heads
  /\ owner = Unset /\ started = FALSE /\ cancelled = Unset
  /\ asked = {}
  /\ retired = [s \in Sessions |-> Unset]
  /\ net \in {[ap |-> ~online, window |-> FALSE, reprovisioned |-> FALSE, trial |-> FALSE,
               online |-> online] : online \in BOOLEAN}
  /\ bootEpoch = 1
  /\ sky = {} /\ answers = {}
  /\ opener = Unset

SetupNext ==
  \/ \E f \in sky : ReceiveSetup(f) \/ ReceiveCancel(f)
  \/ \E d \in Heads : ForgetDial(d)
  \/ \E s \in Sessions : AskSetup(s) \/ AskCancel(s)
  \/ \E live \in (SUBSET bonded) \ {{}} : Loop(live)
  \/ Recover \/ Submit \/ TrialEnds \/ Weather \/ WindowExpires \/ Completes
  \/ Reboot

SetupSpec == SetupInit /\ [][SetupNext]_setupVars

---------------------------------------------------------------------------
\* The answer is for good: a session whose cancel was answered "closed" or
\* "recovery" holds the setup window no more, whatever frame of it arrives
\* late or again and whatever happened to the device in between.
CancelIsFinal ==
  \A s \in Sessions, e \in 1..MaxEpochs :
    <<s, e, "ended">> \in answers => ~(net.window /\ opener = s)

\* Cancelling a session ends its own window, never one that another session
\* has opened since, nor an access point the device opened for itself.
CancelsItsOwn ==
  [][\A f \in sky : ReceiveCancel(f) => (net' # net => net.window /\ opener = f.session)]_setupVars
=============================================================================
