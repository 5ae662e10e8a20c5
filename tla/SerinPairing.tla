----------------------------- MODULE SerinPairing -----------------------------
(***************************************************************************)
(* Pairing and bonds of the Serin Link controller (sl2_link.c,             *)
(* sl2_bond.h, sl2_pair_auth.h, sl2_rxq.h) and the mailbox through which   *)
(* other tasks ask for them (espnow_link.cpp).                             *)
(*                                                                         *)
(* A dial asks with a fresh ephemeral key, the controller answers with its *)
(* own, both derive a key, the dial proves it and is acknowledged.  The    *)
(* radio decrypts a frame with the key installed when it arrives; the main *)
(* task handles it later.  Frames are lost, delayed and repeated; saves and*)
(* key installations fail; the controller restarts.                        *)
(* A key is the pair of ephemerals it is derived from.                     *)
(***************************************************************************)
EXTENDS Naturals, Sequences, FiniteSets

CONSTANTS
  Dials,       \* addresses
  Identities,  \* long-term keys a dial may have
  None,
  MaxDials,    \* SL2_MAX_DIALS
  Slots,       \* SL2_RXQ_SLOTS
  MaxDrawn,    \* bound: ephemerals drawn, by dials and for windows, and commands sent
  MaxBoots     \* bound: boots, each with an epoch of its own

ASSUME SerinAssumption ==
  /\ IsFiniteSet(Dials)
  /\ None \notin Dials \union Identities
  /\ MaxDials \in Nat /\ Slots \in Nat
  /\ MaxDrawn \in Nat
  /\ MaxBoots \in Nat \ {0}

VARIABLES
  bonds,      \* dial[].bond: per address the key, the pinned identity, the latch
  seen,       \* dials with epoch_seen
  stored,     \* the bond table in flash
  pair,       \* pair, cand_* and eph_*
  peers,      \* encrypted peers of the radio: the key installed per address
  broadcast,  \* whether the broadcast peer is installed
  rxq,        \* frames decrypted and queued for the main task
  epoch,      \* of this boot
  air,        \* every frame sent so far: each may arrive at any time, or never
  dial,       \* the dials (external)
  drawn,      \* ephemerals drawn: by the dials, by the controller
  ran,        \* history: the last command applied in this boot
  proved,     \* history: the keys the dials have proved
  latched,    \* history: dials that echo epochs, by their handshake or a command applied
  torn        \* history: dials whose key could not be installed again

link == <<bonds, seen, stored, pair, peers, broadcast>>
world == <<air, dial, drawn>>
history == <<ran, proved, latched, torn>>
vars == <<link, rxq, epoch, world, history>>

Keys == (0..MaxDrawn) \X (0..MaxDrawn)
Bonds == [key: Keys, id: Identities, latch: BOOLEAN]
Frames ==
  [type: {"req"}, from: Dials, eph: 0..MaxDrawn, id: Identities]
  \union [type: {"resp", "proof", "ack"}, from: Dials, key: Keys]
  \union [type: {"cmd"}, from: Dials, key: Keys, echo: 0..MaxBoots, sent: 1..MaxBoots]

ASSUME NoneAssumption == None \notin Keys \union Bonds \union Frames

Closed == [state |-> "off", eph |-> 0, cand |-> None, key |-> <<0, 0>>, id |-> None]

TypeOK ==
  /\ bonds \in [Dials -> Bonds \union {None}] /\ stored \in [Dials -> Bonds \union {None}]
  /\ seen \subseteq Dials
  /\ pair \in [state: {"off", "window", "confirm"}, eph: 0..MaxDrawn,
               cand: Dials \union {None}, key: Keys, id: Identities \union {None}]
  /\ peers \in [Dials -> Keys \union {None}] /\ broadcast \in BOOLEAN
  /\ rxq \in Seq(Frames) /\ Len(rxq) <= Slots
  /\ epoch \in 1..MaxBoots
  /\ air \subseteq Frames

Bonded(d) == bonds[d] # None
Table == {d \in Dials : Bonded(d)}
IsCandidate(d) == pair.state = "confirm" /\ d = pair.cand

---------------------------------------------------------------------------
(***************************************************************************)
(* Saving and closing                                                      *)
(***************************************************************************)

\* persist_bonds(): the table is saved before RAM and radio follow it.
Save(table) == stored' = table

\* pair_cleanup_candidate(): a dial that paired again gets its old key back,
\* if the radio accepts it; `table` is the bond table as it then is.
\* Mutant: the old key is not put back.
NotRestored(table, installed) == [peers EXCEPT ![pair.cand] = None]

Restored(table, installed) ==
  [peers EXCEPT ![pair.cand] = IF table[pair.cand] # None /\ installed
                               THEN table[pair.cand].key ELSE None]

Torn(table, installed) ==
  IF table[pair.cand] # None /\ ~installed THEN torn \union {pair.cand} ELSE torn \ {pair.cand}

\* pair_end()
EndPairing == pair' = Closed /\ broadcast' = FALSE

CleanUp(table) ==
  \E installed \in BOOLEAN :
    /\ peers' = Restored(table, installed)
    /\ torn' = Torn(table, installed)

\* sl2_link_pair_cancel()
CancelWith(table) ==
  IF pair.state = "confirm" THEN CleanUp(table) /\ EndPairing
  ELSE EndPairing /\ UNCHANGED <<peers, torn>>

---------------------------------------------------------------------------
(***************************************************************************)
(* Frames the main task handles                                            *)
(***************************************************************************)
Handling(type) == rxq # <<>> /\ Head(rxq).type = type /\ rxq' = Tail(rxq)

\* What on_pair_req() lets through: during a handshake only its own dial, the
\* pinned identity for a known dial, a free place for a new one.
Admitted(f) ==
  /\ pair.state # "off"
  /\ pair.state = "confirm" => f.from = pair.cand
  /\ IF Bonded(f.from) THEN bonds[f.from].id = f.id ELSE Cardinality(Table) < MaxDials

AgreedKey(f) == <<f.eph, pair.eph>>

Answer(f) == air' = air \union {[type |-> "resp", from |-> f.from, key |-> AgreedKey(f)]}

\* The answer may have been lost: it is repeated, and nothing else changes.
RepeatAnswer ==
  LET f == Head(rxq) IN
  /\ Handling("req")
  /\ Admitted(f) /\ pair.state = "confirm"
  /\ AgreedKey(f) = pair.key /\ f.id = pair.id
  /\ Answer(f)
  /\ UNCHANGED <<link, epoch, dial, drawn, history>>

StartHandshake ==
  LET f == Head(rxq) IN
  /\ Handling("req")
  /\ Admitted(f) /\ pair.state = "window"
  /\ pair' = [pair EXCEPT !.state = "confirm", !.cand = f.from, !.key = AgreedKey(f), !.id = f.id]
  /\ peers' = [peers EXCEPT ![f.from] = AgreedKey(f)]
  /\ Answer(f)
  /\ UNCHANGED <<bonds, seen, stored, broadcast, epoch, dial, drawn, history>>

\* The radio refuses the key: the window closes, the old key returns.
HandshakeRefused ==
  LET f == Head(rxq) IN
  /\ Handling("req")
  /\ Admitted(f) /\ pair.state = "window"
  /\ EndPairing
  /\ \E installed \in BOOLEAN :
       LET back == Bonded(f.from) /\ installed IN
       /\ peers' = [peers EXCEPT ![f.from] = IF back THEN bonds[f.from].key ELSE None]
       /\ torn' = IF Bonded(f.from) /\ ~installed THEN torn \union {f.from} ELSE torn \ {f.from}
  /\ UNCHANGED <<bonds, seen, stored, epoch, world, ran, proved, latched>>

IgnoreRequest ==
  LET f == Head(rxq) IN
  /\ Handling("req")
  /\ ~Admitted(f) \/ (pair.state = "confirm" /\ (AgreedKey(f) # pair.key \/ f.id # pair.id))
  /\ UNCHANGED <<link, epoch, world, history>>

\* The key the proof has to show
ProofKey(d) == IF IsCandidate(d) THEN pair.key ELSE bonds[d].key

\* Mutant: any proof the radio could decrypt counts.
ProvesAnyKey(f) == IsCandidate(f.from) \/ Bonded(f.from)

Proves(f) == (IsCandidate(f.from) \/ Bonded(f.from)) /\ f.key = ProofKey(f.from)

Acknowledge(f) == air' = air \union {[f EXCEPT !.type = "ack"]}

\* pair_commit(): saved, then published; a new bond never accepts old echoes.
CommitBond ==
  LET f == Head(rxq)
      table == [bonds EXCEPT ![f.from] = [key |-> pair.key, id |-> pair.id, latch |-> TRUE]]
  IN
  /\ Handling("proof")
  /\ Proves(f) /\ IsCandidate(f.from)
  /\ Save(table)
  /\ bonds' = table
  /\ seen' = seen \ {f.from}
  /\ EndPairing
  /\ Acknowledge(f)
  /\ torn' = torn \ {f.from} /\ latched' = latched \union {f.from}
  /\ UNCHANGED <<peers, epoch, dial, drawn, ran, proved>>

CommitFails ==
  /\ Handling("proof")
  /\ Proves(Head(rxq)) /\ IsCandidate(Head(rxq).from)
  /\ CleanUp(bonds) /\ EndPairing
  /\ UNCHANGED <<bonds, seen, stored, epoch, world, ran, proved, latched>>

\* The acknowledgement may have been lost: a proof of the bond's key repeats it.
AcknowledgeAgain ==
  /\ Handling("proof")
  /\ Proves(Head(rxq)) /\ ~IsCandidate(Head(rxq).from)
  /\ Acknowledge(Head(rxq))
  /\ UNCHANGED <<link, epoch, dial, drawn, history>>

IgnoreProof ==
  /\ Handling("proof")
  /\ ~Proves(Head(rxq))
  /\ UNCHANGED <<link, epoch, world, history>>

\* epoch_ok(): dials that never echoed are let through; the first right echo is
\* saved before its command counts.
Guarded(d) == bonds[d].latch \/ d \in seen
Heard(f) == ~IsCandidate(f.from) /\ Bonded(f.from)
Latches(f) == f.echo = epoch /\ ~bonds[f.from].latch
\* Mutant: the guard is not remembered over a restart.
FreshInThisBoot(f) == f.echo = epoch \/ f.from \notin seen

Fresh(f) == f.echo = epoch \/ ~Guarded(f.from)

Apply(f) ==
  /\ ran' = f
  /\ latched' = IF f.echo = epoch THEN latched \union {f.from} ELSE latched

ApplyCommand ==
  LET f == Head(rxq) IN
  /\ Handling("cmd")
  /\ Heard(f) /\ Fresh(f) /\ ~Latches(f)
  /\ Apply(f)
  /\ UNCHANGED <<link, epoch, world, proved, torn>>

LatchAndApply ==
  LET f == Head(rxq)
      table == [bonds EXCEPT ![f.from].latch = TRUE]
  IN
  /\ Handling("cmd")
  /\ Heard(f) /\ Latches(f)
  /\ Save(table)
  /\ bonds' = table
  /\ seen' = seen \union {f.from}
  /\ Apply(f)
  /\ UNCHANGED <<pair, peers, broadcast, epoch, world, proved, torn>>

\* Mutant: the latch is published though it could not be saved.
LatchFailsInFlash ==
  LET f == Head(rxq) IN
  /\ Handling("cmd")
  /\ Heard(f) /\ Latches(f)
  /\ bonds' = [bonds EXCEPT ![f.from].latch = TRUE]
  /\ UNCHANGED <<seen, stored, pair, peers, broadcast, epoch, world, history>>

LatchFails ==
  LET f == Head(rxq) IN
  /\ Handling("cmd")
  /\ Heard(f) /\ Latches(f)
  /\ seen' = seen \union {f.from}
  /\ UNCHANGED <<bonds, stored, pair, peers, broadcast, epoch, world, history>>

IgnoreCommand ==
  LET f == Head(rxq) IN
  /\ Handling("cmd")
  /\ ~(Heard(f) /\ Fresh(f))
  /\ UNCHANGED <<link, epoch, world, history>>

---------------------------------------------------------------------------
(***************************************************************************)
(* Requests of other tasks, which the main task takes from s_reqForgetAll,  *)
(* s_forgetMacs, s_reqPairStart and s_reqPairCancel between frames, and    *)
(* the deadlines                                                           *)
(***************************************************************************)
NoBonds == [d \in Dials |-> None]

\* A save that fails leaves the bonds and the pairing as they are.
ForgetAll ==
  /\ \/ UNCHANGED <<link, torn>>
     \/ /\ Save(NoBonds)
        /\ bonds' = NoBonds /\ seen' = {}
        /\ peers' = [d \in Dials |-> None]
        /\ torn' = {}
        /\ EndPairing
  /\ UNCHANGED <<rxq, epoch, world, ran, proved, latched>>

\* The candidate is forgotten too, after the removal: what is cleaned up must
\* not come back.
Forget(d) ==
  LET table == [bonds EXCEPT ![d] = None] IN
  /\ \/ Bonded(d) /\ UNCHANGED <<link, torn>>
     \/ /\ Bonded(d) \/ IsCandidate(d)
        /\ stored' = IF Bonded(d) THEN table ELSE stored
        /\ bonds' = table /\ seen' = seen \ {d}
        /\ peers' = [peers EXCEPT ![d] = None]
        /\ torn' = torn \ {d}
        /\ IF IsCandidate(d) THEN EndPairing ELSE UNCHANGED <<pair, broadcast>>
     \/ ~Bonded(d) /\ ~IsCandidate(d) /\ UNCHANGED <<link, torn>>
  /\ UNCHANGED <<rxq, epoch, world, ran, proved, latched>>

MayDraw == drawn.dials + drawn.controller + Cardinality({f \in air : f.type = "cmd"}) < MaxDrawn

\* A second start only extends the window: the handshake goes on.
StartPairing ==
  /\ \/ UNCHANGED <<pair, broadcast, drawn>>
     \/ /\ pair.state = "off" /\ MayDraw
        /\ drawn' = [drawn EXCEPT !.controller = @ + 1]
        /\ pair' = [Closed EXCEPT !.state = "window", !.eph = drawn'.controller]
        /\ broadcast' = TRUE
  /\ UNCHANGED <<bonds, seen, stored, peers, rxq, epoch, air, dial, history>>

CancelPairing ==
  /\ IF pair.state # "off" THEN CancelWith(bonds) ELSE UNCHANGED <<pair, broadcast, peers, torn>>
  /\ UNCHANGED <<bonds, seen, stored, rxq, epoch, world, ran, proved, latched>>

\* sl2_link_loop(): the window or the confirmation has run out.
PairingTimeout ==
  /\ pair.state # "off"
  /\ CancelWith(bonds)
  /\ UNCHANGED <<bonds, seen, stored, rxq, epoch, world, ran, proved, latched>>

\* sl2_link_start(): the table is read back and its keys installed.
Restart ==
  /\ epoch < MaxBoots
  /\ epoch' = epoch + 1
  /\ bonds' = stored /\ seen' = {}
  /\ peers' = [d \in Dials |-> IF stored[d] = None THEN None ELSE stored[d].key]
  /\ pair' = Closed /\ broadcast' = FALSE
  /\ rxq' = <<>>
  /\ ran' = None /\ torn' = {}
  /\ UNCHANGED <<stored, world, proved, latched>>

---------------------------------------------------------------------------
(***************************************************************************)
(* The radio and the dials                                                 *)
(***************************************************************************)

\* A request is in the clear; the rest needs the key installed for its sender.
Arrive(f) ==
  /\ Len(rxq) < Slots
  /\ f.type = "req" \/ (f.type \in {"proof", "cmd"} /\ peers[f.from] = f.key)
  /\ rxq' = Append(rxq, f)
  /\ UNCHANGED <<link, epoch, world, history>>

Send(f) == air' = air \union {f}

DialAsks(d) ==
  /\ MayDraw
  /\ drawn' = [drawn EXCEPT !.dials = @ + 1]
  /\ dial' = [dial EXCEPT ![d].eph = drawn'.dials, ![d].key = None]
  /\ Send([type |-> "req", from |-> d, eph |-> drawn'.dials, id |-> dial[d].id])
  /\ UNCHANGED <<link, rxq, epoch, history>>

DialProves(f) ==
  /\ f.type = "resp" /\ f.key[1] = dial[f.from].eph /\ dial[f.from].key = None
  /\ dial' = [dial EXCEPT ![f.from].key = f.key]
  /\ Send([f EXCEPT !.type = "proof"])
  /\ proved' = proved \union {<<f.from, f.key, dial[f.from].id>>}
  /\ UNCHANGED <<link, rxq, epoch, drawn, ran, latched, torn>>

DialPaired(f) ==
  /\ f.type = "ack" /\ f.key = dial[f.from].key /\ dial[f.from].bond # f.key
  /\ dial' = [dial EXCEPT ![f.from].bond = f.key]
  /\ UNCHANGED <<link, rxq, epoch, air, drawn, history>>

\* It echoes the epoch a STATE frame told it, perhaps before a restart; old
\* firmware echoes nothing.
DialCommands(d) ==
  /\ dial[d].bond # None
  /\ MayDraw
  /\ \E echo \in 0..epoch :
       Send([type |-> "cmd", from |-> d, key |-> dial[d].bond, echo |-> echo, sent |-> epoch])
  /\ UNCHANGED <<link, rxq, epoch, dial, drawn, history>>

\* A dial is reset, or replaced by another with its address.
DialReset(d) ==
  /\ \E id \in Identities \ {dial[d].id} :
       dial' = [dial EXCEPT ![d] = [eph |-> 0, key |-> None, bond |-> None, id |-> id]]
  /\ UNCHANGED <<link, rxq, epoch, air, drawn, history>>

---------------------------------------------------------------------------
\* A new controller, or one with dials, paired before or after epochs were echoed.
Init ==
  \E old \in SUBSET Dials, id \in Identities, v5 \in BOOLEAN :
    /\ Cardinality(old) <= MaxDials
    /\ bonds = [d \in Dials |-> IF d \in old THEN [key |-> <<0, 0>>, id |-> id, latch |-> v5]
                                ELSE None]
    /\ stored = bonds
    /\ seen = {}
    /\ pair = Closed
    /\ peers = [d \in Dials |-> IF d \in old THEN <<0, 0>> ELSE None]
    /\ broadcast = FALSE
    /\ rxq = <<>>
    /\ epoch = 1
    /\ air = IF v5 THEN {[type |-> "proof", from |-> d, key |-> <<0, 0>>] : d \in old} ELSE {}
    /\ dial = [d \in Dials |-> [eph |-> 0, key |-> None, id |-> id,
                                bond |-> IF d \in old THEN <<0, 0>> ELSE None]]
    /\ drawn = [dials |-> 0, controller |-> 0]
    /\ ran = None
    /\ proved = {<<d, <<0, 0>>, id>> : d \in old}
    /\ latched = (IF v5 THEN old ELSE {}) /\ torn = {}

Handle ==
  \/ RepeatAnswer \/ StartHandshake \/ HandshakeRefused \/ IgnoreRequest
  \/ CommitBond \/ CommitFails \/ AcknowledgeAgain \/ IgnoreProof
  \/ ApplyCommand \/ LatchAndApply \/ LatchFails \/ IgnoreCommand

Manage ==
  \/ ForgetAll \/ (\E d \in Dials : Forget(d))
  \/ StartPairing \/ CancelPairing \/ PairingTimeout \/ Restart

Outside ==
  \/ \E f \in air : Arrive(f) \/ DialProves(f) \/ DialPaired(f)
  \/ \E d \in Dials : DialAsks(d) \/ DialCommands(d) \/ DialReset(d)

Next == Handle \/ Manage \/ Outside

Spec == Init /\ [][Next]_vars

---------------------------------------------------------------------------
(***************************************************************************)
(* Properties                                                              *)
(***************************************************************************)

\* The radio holds the key of each bond, of the candidate instead while its
\* handshake runs, and no other: a handshake that fails in any way leaves a
\* bonded dial as it was (pair_cleanup_candidate(), sl2_link_forget_dial()).
\* Excepted is a key the radio refused to take back, which is logged.
PeersMatch ==
  /\ broadcast = (pair.state # "off")
  /\ \A d \in Dials :
       \/ peers[d] = IF IsCandidate(d) THEN pair.key
                     ELSE IF Bonded(d) THEN bonds[d].key ELSE None
       \/ d \in torn /\ peers[d] = None

\* A save precedes what it saves: a power loss at any moment changes no bond.
Durable == bonds = stored

\* The radio's keys and the flash both follow the bonds.
BondsKept == PeersMatch /\ Durable

\* A key becomes a bond only after the dial with the pinned identity proved it,
\* whatever was queued under an older key (sl2_link_on_recv(): "only an explicit
\* candidate-key proof can cross the rekey boundary").
BondsProved == \A d \in Table : <<d, bonds[d].key, bonds[d].id>> \in proved

\* Once a dial's echo of an epoch was accepted, or it paired since epochs are
\* echoed, no command sent before a restart is applied again (epoch_ok()).
NoReplay == [][ran' # ran /\ ran' # None /\ ran'.from \in latched => ran'.sent = epoch]_vars
=============================================================================
