------------------------------ MODULE Serin_proofs ------------------------------
(***************************************************************************)
(* Theorems about the Serin Link, for any number of dials, keys, setup     *)
(* sessions, lost, delayed and repeated frames, failing saves and          *)
(* restarts.                                                               *)
(*                                                                         *)
(* Of SerinPairing, with SerinInv: bonds, radio and flash agree, a bond    *)
(* was proved by the dial it pins, and no command is replayed to a dial    *)
(* that echoes epochs.                                                     *)
(*                                                                         *)
(* Of DialSetup, with SetupInv: it ties the owner to the window it has     *)
(* opened, the ring of retired sessions to what was answered, and every    *)
(* answer to the frames it was given for, which may all still arrive.      *)
(*                                                                         *)
(* Of Console, with ConInv: the driver is held by the REPL from its        *)
(* installation on, or by an Improv task that is alive.                    *)
(***************************************************************************)
EXTENDS SerinPairing, DialSetup, Console, FiniteSetTheorems, SequenceTheorems, TLAPS

---------------------------------------------------------------------------
(***************************************************************************)
(* SerinPairing: the inductive invariant                                   *)
(***************************************************************************)
DialStates ==
  [eph: 0..MaxDrawn, key: Keys \union {None}, bond: Keys \union {None}, id: Identities]

DialTypes ==
  /\ dial \in [Dials -> DialStates]
  /\ drawn \in [dials: 0..MaxDrawn, controller: 0..MaxDrawn]
  /\ IsFiniteSet(air)
  /\ ran \in Frames \union {None}

\* The handshake under way has a dial, whose key is installed.
CandidateHolds ==
  pair.state = "confirm" =>
    /\ pair.cand \in Dials /\ pair.id \in Identities
    /\ peers[pair.cand] = pair.key

\* The request behind a key, and whose identity it showed.
Asked(d, key, id) == [type |-> "req", from |-> d, eph |-> key[1], id |-> id] \in air

\* An ephemeral is drawn once, and every later step of a handshake names it.
Requests ==
  /\ \A f, g \in air : f.type = "req" => f.eph \in 1..drawn.dials
                                        /\ (g.type = "req" /\ g.eph = f.eph => g = f)
  /\ \A d \in Dials : dial[d].eph # 0 =>
       [type |-> "req", from |-> d, eph |-> dial[d].eph, id |-> dial[d].id] \in air
  /\ pair.state = "confirm" => Asked(pair.cand, pair.key, pair.id)
  /\ \A f \in air : f.type = "resp" => f.key[1] # 0

\* Only a dial proves its keys.
Proofs ==
  \A f \in air : f.type = "proof" /\ f.key[1] # 0 =>
    \E id \in Identities : Asked(f.from, f.key, id) /\ <<f.from, f.key, id>> \in proved

\* A dial that echoes epochs is guarded for good, and a command is no younger
\* than its epoch.
Latched == \A d \in Table : d \in latched => bonds[d].latch
Commands == \A f \in air : f.type = "cmd" => f.echo <= f.sent /\ f.sent <= epoch

Queued == \A i \in 1..Len(rxq) : rxq[i] \in air

Origins == Requests /\ Proofs /\ BondsProved /\ Latched /\ Commands /\ Queued

SerinInv == TypeOK /\ DialTypes /\ BondsKept /\ CandidateHolds /\ Origins
---------------------------------------------------------------------------
(***************************************************************************)
(* Frames, keys and bonds                                                  *)
(***************************************************************************)
BondTables == [Dials -> Bonds \union {None}]
Pairings == [state: {"off", "window", "confirm"}, eph: 0..MaxDrawn, cand: Dials \union {None},
             key: Keys, id: Identities \union {None}]
Installed == [Dials -> Keys \union {None}]

\* The fields of a frame, by its type.
LEMMA FrameIs ==
  ASSUME NEW f \in Frames
  PROVE  /\ f.from \in Dials
         /\ f.type = "req" =>
              /\ f.eph \in 0..MaxDrawn /\ f.id \in Identities
              /\ f = [type |-> "req", from |-> f.from, eph |-> f.eph, id |-> f.id]
         /\ f.type \in {"resp", "proof", "ack"} =>
              /\ f.key \in Keys
              /\ f = [type |-> f.type, from |-> f.from, key |-> f.key]
         /\ f.type = "cmd" => f.key \in Keys /\ f.echo \in 0..MaxBoots /\ f.sent \in 1..MaxBoots
         /\ f.type \in {"req", "resp", "proof", "ack", "cmd"}
BY DEF Frames

\* The frame at the head of the queue was sent.
LEMMA HeadIs ==
  ASSUME TypeOK, Queued, rxq # <<>>
  PROVE  /\ Head(rxq) \in Frames /\ Head(rxq) \in air
         /\ Tail(rxq) \in Seq(Frames) /\ Len(Tail(rxq)) <= Slots
         /\ \A i \in 1..Len(Tail(rxq)) : Tail(rxq)[i] \in air
BY SerinAssumption DEF TypeOK, Queued

\* Keys are pairs of ephemerals.
LEMMA KeyIs ==
  /\ \A a, b \in 0..MaxDrawn : <<a, b>> \in Keys
  /\ \A key \in Keys : key[1] \in 0..MaxDrawn /\ key[2] \in 0..MaxDrawn
BY SerinAssumption DEF Keys

\* A pairing that is over.
LEMMA ClosedIs == Closed \in Pairings /\ Closed.state = "off"
<1>1. 0 \in 0..MaxDrawn
  BY SerinAssumption
<1> QED BY <1>1, KeyIs DEF Closed, Pairings

\* While an ephemeral may be drawn, the next one is within the bound.
LEMMA DrawIs ==
  ASSUME DialTypes, MayDraw
  PROVE  /\ drawn.dials + 1 \in 1..MaxDrawn /\ drawn.controller + 1 \in 1..MaxDrawn
<1>1. Cardinality({f \in air : f.type = "cmd"}) \in Nat
  BY FS_Subset, FS_CardinalityType DEF DialTypes
<1>2. drawn.dials \in 0..MaxDrawn /\ drawn.controller \in 0..MaxDrawn
  BY DEF DialTypes
<1> QED BY <1>1, <1>2, SerinAssumption DEF MayDraw

\* What is cleaned up leaves the radio with a key, or none, per address.
LEMMA CleanUpIs ==
  ASSUME TypeOK, CleanUp(bonds)
  PROVE  peers' \in Installed
<1> QED BY DEF CleanUp, Restored, TypeOK, Bonds, Installed
---------------------------------------------------------------------------
(***************************************************************************)
(* Types                                                                   *)
(***************************************************************************)

\* TypeOK with its sets named.
LEMMA TypesNamed ==
  TypeOK <=>
    /\ bonds \in BondTables /\ stored \in BondTables /\ seen \subseteq Dials
    /\ pair \in Pairings /\ peers \in Installed /\ broadcast \in BOOLEAN
    /\ rxq \in Seq(Frames) /\ Len(rxq) <= Slots
    /\ epoch \in 1..MaxBoots /\ air \subseteq Frames
BY DEF TypeOK, BondTables, Pairings, Installed

\* A window that ends, by whatever way.
LEMMA EndTypes ==
  ASSUME TypeOK
  PROVE  /\ EndPairing => pair' \in Pairings /\ broadcast' \in BOOLEAN
         /\ CancelWith(bonds) => pair' \in Pairings /\ broadcast' \in BOOLEAN /\ peers' \in Installed
<1>1. EndPairing => pair' \in Pairings /\ broadcast' \in BOOLEAN
  BY ClosedIs DEF EndPairing
<1>2. CancelWith(bonds) => pair' \in Pairings /\ broadcast' \in BOOLEAN /\ peers' \in Installed
  BY <1>1, CleanUpIs, TypesNamed DEF CancelWith
<1> QED BY <1>1, <1>2

\* What a handled frame leaves, by what the handler changes.
LEMMA HandleTypes ==
  ASSUME TypeOK, DialTypes, CandidateHolds, Queued, Handle
  PROVE  TypeOK' /\ DialTypes'
<1> DEFINE f == Head(rxq)
<1>0. /\ bonds \in BondTables /\ stored \in BondTables /\ seen \subseteq Dials
      /\ pair \in Pairings /\ peers \in Installed /\ broadcast \in BOOLEAN
      /\ epoch \in 1..MaxBoots /\ air \subseteq Frames
  BY TypesNamed
<1>1. /\ f \in Frames /\ f.from \in Dials
      /\ rxq' \in Seq(Frames) /\ Len(rxq') <= Slots
      /\ f.type = "req" => AgreedKey(f) \in Keys /\ f.id \in Identities
      /\ f.type = "proof" => [f EXCEPT !.type = "ack"] \in Frames
  <2>1. f \in Frames /\ rxq' \in Seq(Frames) /\ Len(rxq') <= Slots
    BY HeadIs DEF Handle, Handling, RepeatAnswer, StartHandshake, HandshakeRefused, IgnoreRequest,
                  CommitBond, CommitFails, AcknowledgeAgain, IgnoreProof, ApplyCommand,
                  LatchAndApply, LatchFails, IgnoreCommand
  <2>2. f.type = "req" => AgreedKey(f) \in Keys
    BY <1>0, <2>1, FrameIs, KeyIs DEF AgreedKey, Pairings
  <2>3. f.type = "proof" => [f EXCEPT !.type = "ack"] \in Frames
    BY <2>1 DEF Frames
  <2> QED BY <2>1, <2>2, <2>3, FrameIs
<1> HIDE DEF f
<1>2. SUFFICES /\ bonds' \in BondTables /\ stored' \in BondTables /\ seen' \subseteq Dials
               /\ pair' \in Pairings /\ peers' \in Installed /\ broadcast' \in BOOLEAN
               /\ air' \subseteq Frames /\ IsFiniteSet(air') /\ ran' \in Frames \union {None}
               /\ UNCHANGED <<epoch, dial, drawn>>
  BY <1>0, <1>1 DEF TypeOK, DialTypes, BondTables, Pairings, Installed
<1>3. Answer(f) /\ f.type = "req" => air' \subseteq Frames /\ IsFiniteSet(air')
  <2> DEFINE answer == [type |-> "resp", from |-> f.from, key |-> AgreedKey(f)]
  <2>1. f.type = "req" => answer \in Frames
    BY <1>1 DEF Frames
  <2> HIDE DEF answer
  <2>2. IsFiniteSet(air \union {answer})
    BY FS_AddElement DEF DialTypes
  <2> QED BY <1>0, <2>1, <2>2 DEF Answer, answer
<1>4. Acknowledge(f) /\ f.type = "proof" => air' \subseteq Frames /\ IsFiniteSet(air')
  <2>1. IsFiniteSet(air \union {[f EXCEPT !.type = "ack"]})
    BY FS_AddElement DEF DialTypes
  <2> QED BY <1>0, <1>1, <2>1 DEF Acknowledge
<1>5. air \subseteq Frames /\ IsFiniteSet(air) /\ ran \in Frames \union {None}
  BY <1>0 DEF DialTypes
<1>6. CASE RepeatAnswer
  BY <1>0, <1>3, <1>5, <1>6 DEF RepeatAnswer, Handling, link, history, f
<1>7. CASE StartHandshake
  <2>1. pair' \in Pairings /\ peers' \in Installed
    BY <1>0, <1>1, <1>7 DEF StartHandshake, Handling, Pairings, Installed, f
  <2> QED BY <1>0, <1>3, <1>5, <1>7, <2>1 DEF StartHandshake, Handling, history, f
<1>8. CASE HandshakeRefused
  <2>1. peers' \in Installed
    BY <1>0, <1>1, <1>8 DEF HandshakeRefused, Installed, BondTables, Bonds, Bonded, f
  <2> QED BY <1>0, <1>5, <1>8, <2>1, EndTypes DEF HandshakeRefused, world
<1>9. CASE IgnoreRequest \/ IgnoreProof \/ IgnoreCommand
  BY <1>0, <1>5, <1>9 DEF IgnoreRequest, IgnoreProof, IgnoreCommand, link, world, history
<1>10. CASE CommitBond
  <2>1. [key |-> pair.key, id |-> pair.id, latch |-> TRUE] \in Bonds
    BY <1>0, <1>10 DEF CommitBond, IsCandidate, CandidateHolds, Pairings, Bonds
  <2>2. bonds' \in BondTables /\ stored' \in BondTables
    BY <1>0, <1>1, <1>10, <2>1 DEF CommitBond, Save, BondTables, f
  <2> QED BY <1>0, <1>4, <1>5, <1>10, <2>2, EndTypes DEF CommitBond, Handling, f
<1>11. CASE CommitFails
  BY <1>0, <1>5, <1>11, EndTypes, CleanUpIs DEF CommitFails, world
<1>12. CASE AcknowledgeAgain
  BY <1>0, <1>4, <1>5, <1>12 DEF AcknowledgeAgain, Handling, link, history, f
<1>13. CASE ApplyCommand
  BY <1>0, <1>1, <1>5, <1>13 DEF ApplyCommand, Apply, link, world, f
<1>14. CASE LatchAndApply
  <2>1. [bonds[f.from] EXCEPT !.latch = TRUE] \in Bonds
    BY <1>0, <1>1, <1>14 DEF LatchAndApply, Heard, Bonded, BondTables, Bonds, f
  <2>2. bonds' = [bonds EXCEPT ![f.from] = [bonds[f.from] EXCEPT !.latch = TRUE]]
    BY <1>14 DEF LatchAndApply, f
  <2>3. bonds' \in BondTables /\ stored' = bonds'
    BY <1>0, <1>1, <1>14, <2>1, <2>2 DEF LatchAndApply, Save, BondTables, f
  <2> QED BY <1>0, <1>1, <1>5, <1>14, <2>3 DEF LatchAndApply, Apply, world, f
<1>15. CASE LatchFails
  BY <1>0, <1>1, <1>5, <1>15 DEF LatchFails, world, history, f
<1> QED BY <1>6, <1>7, <1>8, <1>9, <1>10, <1>11, <1>12, <1>13, <1>14, <1>15 DEF Handle

\* The requests of the other tasks, the deadlines and the restart.
LEMMA ManageTypes ==
  ASSUME TypeOK, DialTypes, Manage
  PROVE  TypeOK' /\ DialTypes'
<1>0. /\ bonds \in BondTables /\ stored \in BondTables /\ seen \subseteq Dials
      /\ pair \in Pairings /\ peers \in Installed /\ broadcast \in BOOLEAN
      /\ rxq \in Seq(Frames) /\ Len(rxq) <= Slots
      /\ epoch \in 1..MaxBoots /\ air \subseteq Frames
  BY TypesNamed
<1>1. SUFFICES /\ bonds' \in BondTables /\ stored' \in BondTables /\ seen' \subseteq Dials
               /\ pair' \in Pairings /\ peers' \in Installed /\ broadcast' \in BOOLEAN
               /\ rxq' \in Seq(Frames) /\ Len(rxq') <= Slots
               /\ epoch' \in 1..MaxBoots /\ ran' \in Frames \union {None}
               /\ drawn' \in [dials: 0..MaxDrawn, controller: 0..MaxDrawn]
               /\ UNCHANGED <<air, dial>>
  BY <1>0 DEF TypeOK, DialTypes, BondTables, Pairings, Installed
<1>2. drawn \in [dials: 0..MaxDrawn, controller: 0..MaxDrawn] /\ ran \in Frames \union {None}
  BY DEF DialTypes
<1>3. CASE ForgetAll
  BY <1>0, <1>2, <1>3, EndTypes
     DEF ForgetAll, Save, NoBonds, link, world, BondTables, Installed
<1>4. ASSUME NEW d \in Dials, Forget(d)
      PROVE  /\ bonds' \in BondTables /\ stored' \in BondTables /\ seen' \subseteq Dials
             /\ pair' \in Pairings /\ peers' \in Installed /\ broadcast' \in BOOLEAN
             /\ UNCHANGED <<rxq, epoch, world, ran>>
  <2>1. [bonds EXCEPT ![d] = None] \in BondTables /\ [peers EXCEPT ![d] = None] \in Installed
    BY <1>0 DEF BondTables, Installed
  <2> QED BY <1>0, <1>4, <2>1, EndTypes DEF Forget, link
<1>5. CASE \E d \in Dials : Forget(d)
  BY <1>0, <1>2, <1>4, <1>5 DEF world
<1>6. CASE StartPairing
  <2>1. CASE UNCHANGED <<pair, broadcast, drawn>>
    BY <1>0, <1>2, <1>6, <2>1 DEF StartPairing, history
  <2>2. CASE ~UNCHANGED <<pair, broadcast, drawn>>
    <3>1. /\ MayDraw /\ drawn' = [drawn EXCEPT !.controller = @ + 1]
          /\ pair' = [Closed EXCEPT !.state = "window", !.eph = drawn'.controller]
          /\ broadcast' = TRUE
          /\ UNCHANGED <<bonds, seen, stored, peers, rxq, epoch, air, dial, ran>>
      BY <1>6, <2>2 DEF StartPairing, history
    <3>2. drawn' \in [dials: 0..MaxDrawn, controller: 0..MaxDrawn]
      BY <1>2, <3>1, DrawIs
    <3>3. pair' \in Pairings
      BY <3>1, <3>2, ClosedIs DEF Pairings
    <3> QED BY <1>0, <1>2, <3>1, <3>2, <3>3
  <2> QED BY <2>1, <2>2
<1>7. CASE CancelPairing \/ PairingTimeout
  BY <1>0, <1>2, <1>7, EndTypes DEF CancelPairing, PairingTimeout, world
<1>8. CASE Restart
  <2>1. peers' \in Installed
    BY <1>0, <1>8 DEF Restart, Installed, BondTables, Bonds
  <2>2. epoch' \in 1..MaxBoots
    BY <1>0, <1>8, SerinAssumption DEF Restart
  <2>3. rxq' \in Seq(Frames) /\ Len(rxq') <= Slots
    BY <1>8, SerinAssumption DEF Restart
  <2> QED BY <1>0, <1>2, <1>8, <2>1, <2>2, <2>3, ClosedIs DEF Restart, world
<1> QED BY <1>3, <1>5, <1>6, <1>7, <1>8 DEF Manage

\* The air and the dials.
LEMMA OutsideTypes ==
  ASSUME TypeOK, DialTypes, Outside
  PROVE  TypeOK' /\ DialTypes'
<1>0. /\ rxq \in Seq(Frames) /\ Len(rxq) <= Slots /\ epoch \in 1..MaxBoots /\ air \subseteq Frames
      /\ dial \in [Dials -> DialStates] /\ IsFiniteSet(air)
      /\ drawn \in [dials: 0..MaxDrawn, controller: 0..MaxDrawn]
  BY TypesNamed DEF DialTypes
<1>1. SUFFICES /\ rxq' \in Seq(Frames) /\ Len(rxq') <= Slots
               /\ air' \subseteq Frames /\ IsFiniteSet(air')
               /\ dial' \in [Dials -> DialStates]
               /\ drawn' \in [dials: 0..MaxDrawn, controller: 0..MaxDrawn]
               /\ UNCHANGED <<link, epoch, ran>>
  BY DEF TypeOK, DialTypes, link
<1>2. ASSUME NEW f \in Frames, Send(f) PROVE air' \subseteq Frames /\ IsFiniteSet(air')
  BY <1>0, <1>2, FS_AddElement DEF Send
<1>3. ASSUME NEW f \in air, Arrive(f) PROVE rxq' \in Seq(Frames) /\ Len(rxq') <= Slots
  BY <1>0, <1>3, SerinAssumption DEF Arrive
<1>4. CASE \E f \in air : Arrive(f)
  BY <1>0, <1>3, <1>4 DEF Arrive, world, history
<1>5. ASSUME NEW f \in air, DialProves(f)
      PROVE  air' \subseteq Frames /\ IsFiniteSet(air') /\ dial' \in [Dials -> DialStates]
  <2>1. f.key \in Keys /\ f.from \in Dials
    BY <1>0, <1>5, FrameIs DEF DialProves
  <2>2. [f EXCEPT !.type = "proof"] \in Frames
    BY <1>0, <1>5 DEF DialProves, Frames
  <2>3. dial' \in [Dials -> DialStates]
    <3>1. [dial[f.from] EXCEPT !.key = f.key] \in DialStates
      BY <1>0, <2>1 DEF DialStates
    <3>2. dial' = [dial EXCEPT ![f.from] = [dial[f.from] EXCEPT !.key = f.key]]
      BY <1>5 DEF DialProves
    <3> QED BY <1>0, <2>1, <3>1, <3>2
  <2> QED BY <1>2, <1>5, <2>2, <2>3 DEF DialProves
<1>6. CASE \E f \in air : DialProves(f)
  BY <1>0, <1>5, <1>6 DEF DialProves
<1>7. CASE \E f \in air : DialPaired(f)
  <2>1. PICK f \in air : DialPaired(f)
    BY <1>7
  <2>2. f.key \in Keys /\ f.from \in Dials
    BY <1>0, <2>1, FrameIs DEF DialPaired
  <2>3. dial' \in [Dials -> DialStates]
    <3>1. dial[f.from] \in DialStates /\ [dial[f.from] EXCEPT !.bond = f.key] \in DialStates
      BY <1>0, <2>2 DEF DialStates
    <3>2. dial' = [dial EXCEPT ![f.from] = [dial[f.from] EXCEPT !.bond = f.key]]
      BY <2>1 DEF DialPaired
    <3> QED BY <1>0, <2>2, <3>1, <3>2
  <2> QED BY <1>0, <2>1, <2>3 DEF DialPaired, history
<1>8. CASE \E d \in Dials : DialAsks(d)
  <2>1. PICK d \in Dials : DialAsks(d)
    BY <1>8
  <2>2. drawn' \in [dials: 0..MaxDrawn, controller: 0..MaxDrawn] /\ drawn'.dials \in 0..MaxDrawn
    BY <1>0, <2>1, DrawIs DEF DialAsks
  <2>3. [type |-> "req", from |-> d, eph |-> drawn'.dials, id |-> dial[d].id] \in Frames
    BY <1>0, <2>2 DEF Frames, DialStates
  <2>4. dial' \in [Dials -> DialStates]
    <3>1. [dial[d] EXCEPT !.eph = drawn'.dials, !.key = None] \in DialStates
      BY <1>0, <2>2 DEF DialStates
    <3>2. dial' = [dial EXCEPT ![d] = [dial[d] EXCEPT !.eph = drawn'.dials, !.key = None]]
      BY <1>0, <2>1 DEF DialAsks
    <3> QED BY <1>0, <3>1, <3>2
  <2> QED BY <1>0, <1>2, <2>1, <2>2, <2>3, <2>4 DEF DialAsks, history
<1>9. CASE \E d \in Dials : DialCommands(d)
  <2>1. PICK d \in Dials : DialCommands(d)
    BY <1>9
  <2>2. PICK echo \in 0..epoch :
          Send([type |-> "cmd", from |-> d, key |-> dial[d].bond, echo |-> echo, sent |-> epoch])
    BY <2>1 DEF DialCommands
  <2>3. [type |-> "cmd", from |-> d, key |-> dial[d].bond, echo |-> echo, sent |-> epoch] \in Frames
    <3>1. dial[d].bond \in Keys
      BY <1>0, <2>1 DEF DialCommands, DialStates
    <3>2. echo \in 0..MaxBoots
      BY <1>0, SerinAssumption
    <3> QED BY <1>0, <3>1, <3>2 DEF Frames
  <2> QED BY <1>0, <1>2, <2>1, <2>2, <2>3 DEF DialCommands, history
<1>10. CASE \E d \in Dials : DialReset(d)
  <2>1. PICK d \in Dials : DialReset(d)
    BY <1>10
  <2>2. dial' \in [Dials -> DialStates]
    BY <1>0, <2>1, SerinAssumption DEF DialReset, DialStates
  <2> QED BY <1>0, <2>1, <2>2 DEF DialReset, history
<1> QED BY <1>4, <1>6, <1>7, <1>8, <1>9, <1>10 DEF Outside
---------------------------------------------------------------------------
(***************************************************************************)
(* The radio and the flash follow the bonds                                *)
(***************************************************************************)

\* A handshake that ends by cleaning up leaves each address its bond's key.
LEMMA EndKeeps ==
  ASSUME TypeOK, BondsKept, CandidateHolds, UNCHANGED <<bonds, stored>>,
         CancelWith(bonds) \/ (pair.state = "confirm" /\ CleanUp(bonds) /\ EndPairing)
  PROVE  BondsKept' /\ CandidateHolds'
<1>1. pair' = Closed /\ broadcast' = FALSE
  BY DEF CancelWith, EndPairing
<1>2. peers \in Installed
  BY TypesNamed
<1>3. CASE pair.state = "confirm"
  <2>1. CleanUp(bonds)
    BY <1>3 DEF CancelWith
  <2>2. pair.cand \in Dials
    BY <1>3 DEF CandidateHolds
  <2> QED BY <1>1, <1>2, <1>3, <2>1, <2>2, ClosedIs
          DEF CleanUp, Restored, Torn, BondsKept, PeersMatch, Durable, CandidateHolds, IsCandidate,
              Bonded, Installed
<1>4. CASE pair.state # "confirm"
  <2>1. UNCHANGED <<peers, torn>>
    BY <1>4 DEF CancelWith
  <2> QED BY <1>1, <1>4, <2>1, ClosedIs
          DEF BondsKept, PeersMatch, Durable, CandidateHolds, IsCandidate, Bonded
<1> QED BY <1>3, <1>4

LEMMA HandleKeeps ==
  ASSUME TypeOK, BondsKept, CandidateHolds, Queued, Handle
  PROVE  BondsKept' /\ CandidateHolds'
<1> USE DEF BondsKept, PeersMatch, Durable, CandidateHolds, IsCandidate, Bonded
<1> DEFINE f == Head(rxq)
<1>0. bonds \in BondTables /\ peers \in Installed /\ pair \in Pairings
  BY TypesNamed
<1>1. f.from \in Dials /\ (f.type = "req" => f.id \in Identities)
  <2>1. f \in Frames
    BY HeadIs DEF Handle, Handling, RepeatAnswer, StartHandshake, HandshakeRefused, IgnoreRequest,
                  CommitBond, CommitFails, AcknowledgeAgain, IgnoreProof, ApplyCommand,
                  LatchAndApply, LatchFails, IgnoreCommand
  <2> QED BY <2>1, FrameIs
<1> HIDE DEF f
<1>2. CASE StartHandshake
  <2>1. /\ pair.state = "window" /\ pair'.state = "confirm" /\ pair'.cand = f.from
        /\ pair'.key = AgreedKey(f) /\ pair'.id = f.id /\ f.type = "req"
        /\ peers' = [peers EXCEPT ![f.from] = AgreedKey(f)]
        /\ UNCHANGED <<bonds, stored, broadcast, torn>>
    BY <1>0, <1>2 DEF StartHandshake, Handling, history, Pairings, f
  <2> QED BY <1>0, <1>1, <2>1 DEF Installed
<1>3. CASE HandshakeRefused
  <2>1. /\ pair.state = "window" /\ pair' = Closed /\ broadcast' = FALSE
        /\ UNCHANGED <<bonds, stored>>
    BY <1>3 DEF HandshakeRefused, EndPairing
  <2>2. PICK installed \in BOOLEAN :
          /\ peers' = [peers EXCEPT ![f.from] = IF Bonded(f.from) /\ installed
                                                THEN bonds[f.from].key ELSE None]
          /\ torn' = IF Bonded(f.from) /\ ~installed THEN torn \union {f.from} ELSE torn \ {f.from}
    BY <1>3 DEF HandshakeRefused, f
  <2> QED BY <1>0, <1>1, <2>1, <2>2, ClosedIs DEF Installed
<1>4. CASE CommitBond
  <2> DEFINE bond == [key |-> pair.key, id |-> pair.id, latch |-> TRUE]
  <2>1. /\ pair.state = "confirm" /\ f.from = pair.cand /\ pair' = Closed /\ broadcast' = FALSE
        /\ bonds' = [bonds EXCEPT ![f.from] = bond] /\ stored' = bonds'
        /\ UNCHANGED peers /\ torn' = torn \ {f.from}
    BY <1>4 DEF CommitBond, Save, EndPairing, f
  <2>2. bond \in Bonds
    BY <1>0, <2>1 DEF Pairings, Bonds
  <2>3. bond # None /\ bond.key = pair.key
    BY <2>2, NoneAssumption
  <2> HIDE DEF bond
  <2> QED BY <1>0, <1>1, <2>1, <2>3, ClosedIs DEF BondTables
<1>5. CASE CommitFails
  <2>1. pair.state = "confirm" /\ CleanUp(bonds) /\ EndPairing /\ UNCHANGED <<bonds, stored>>
    BY <1>5 DEF CommitFails
  <2> QED BY <2>1, EndKeeps
<1>6. CASE LatchAndApply
  <2>1. [bonds[f.from] EXCEPT !.latch = TRUE] \in Bonds
    BY <1>0, <1>1, <1>6 DEF LatchAndApply, Heard, BondTables, Bonds, f
  <2>2. [bonds[f.from] EXCEPT !.latch = TRUE] # None
    BY <2>1, NoneAssumption
  <2>3. /\ bonds' = [bonds EXCEPT ![f.from] = [bonds[f.from] EXCEPT !.latch = TRUE]]
        /\ stored' = bonds' /\ bonds[f.from] # None
        /\ UNCHANGED <<pair, peers, broadcast, torn>>
    BY <1>6 DEF LatchAndApply, Heard, Save, f
  <2>4. bonds[f.from] \in Bonds
    BY <1>0, <1>1, <2>3 DEF BondTables
  <2>5. [bonds[f.from] EXCEPT !.latch = TRUE].key = bonds[f.from].key
    BY <2>4 DEF Bonds
  <2>6. \A d \in Dials : /\ bonds'[d] = None <=> bonds[d] = None
                         /\ bonds[d] # None => bonds'[d].key = bonds[d].key
    BY <1>0, <1>1, <2>2, <2>3, <2>5 DEF BondTables
  <2> QED BY <2>3, <2>6
<1>7. CASE RepeatAnswer \/ IgnoreRequest \/ AcknowledgeAgain \/ IgnoreProof \/ ApplyCommand
             \/ LatchFails \/ IgnoreCommand
  BY <1>7 DEF RepeatAnswer, IgnoreRequest, AcknowledgeAgain, IgnoreProof, ApplyCommand, LatchFails,
              IgnoreCommand, link, history
<1> QED BY <1>2, <1>3, <1>4, <1>5, <1>6, <1>7 DEF Handle

LEMMA ManageKeeps ==
  ASSUME TypeOK, BondsKept, CandidateHolds, Manage
  PROVE  BondsKept' /\ CandidateHolds'
<1> USE DEF BondsKept, PeersMatch, Durable, CandidateHolds, IsCandidate, Bonded
<1>0. bonds \in BondTables /\ peers \in Installed /\ pair \in Pairings
  BY TypesNamed
<1>1. CASE ForgetAll
  BY <1>1, ClosedIs DEF ForgetAll, Save, NoBonds, EndPairing, link
<1>2. ASSUME NEW e \in Dials, Forget(e) PROVE BondsKept' /\ CandidateHolds'
  <2>1. CASE UNCHANGED <<link, torn>>
    BY <2>1 DEF link
  <2>2. CASE /\ Bonded(e) \/ IsCandidate(e)
             /\ stored' = IF Bonded(e) THEN [bonds EXCEPT ![e] = None] ELSE stored
             /\ bonds' = [bonds EXCEPT ![e] = None]
             /\ peers' = [peers EXCEPT ![e] = None]
             /\ torn' = torn \ {e}
             /\ IF IsCandidate(e) THEN EndPairing ELSE UNCHANGED <<pair, broadcast>>
    <3>1. stored' = bonds'
      BY <1>0, <2>2 DEF BondTables
    <3>2. CASE IsCandidate(e)
      BY <1>0, <2>2, <3>1, <3>2, ClosedIs DEF EndPairing, BondTables, Installed
    <3>3. CASE ~IsCandidate(e)
      BY <1>0, <2>2, <3>1, <3>3 DEF BondTables, Installed
    <3> QED BY <3>2, <3>3
  <2> QED BY <1>2, <2>1, <2>2 DEF Forget
<1>3. CASE StartPairing
  <2>1. CASE UNCHANGED <<pair, broadcast, drawn>>
    BY <1>3, <2>1 DEF StartPairing, history
  <2>2. CASE ~UNCHANGED <<pair, broadcast, drawn>>
    <3>1. /\ pair.state = "off" /\ broadcast' = TRUE
          /\ pair' = [Closed EXCEPT !.state = "window", !.eph = drawn'.controller]
          /\ UNCHANGED <<bonds, stored, peers, torn>>
      BY <1>3, <2>2 DEF StartPairing, history
    <3>2. pair'.state = "window"
      BY <3>1 DEF Closed
    <3> QED BY <3>1, <3>2
  <2> QED BY <2>1, <2>2
<1>4. CASE CancelPairing \/ PairingTimeout
  <2>1. CASE CancelWith(bonds)
    BY <1>4, <2>1, EndKeeps DEF CancelPairing, PairingTimeout
  <2>2. CASE ~CancelWith(bonds)
    BY <1>4, <2>2 DEF CancelPairing, PairingTimeout
  <2> QED BY <2>1, <2>2
<1>5. CASE Restart
  BY <1>5, ClosedIs DEF Restart
<1> QED BY <1>1, <1>2, <1>3, <1>4, <1>5 DEF Manage
---------------------------------------------------------------------------
(***************************************************************************)
(* Where keys and commands come from                                       *)
(***************************************************************************)

\* Nothing a handler sends is a request, a proof or a command; its answers name
\* the request they answer.
LEMMA HandleSends ==
  ASSUME TypeOK, Requests, Queued, Handle
  PROVE  /\ air \subseteq air'
         /\ \A g \in air' \ air : \/ g.type = "ack"
                                  \/ g.type = "resp" /\ g.key[1] # 0
         /\ UNCHANGED <<dial, drawn, epoch, proved>>
<1> DEFINE f == Head(rxq)
<1>1. f \in Frames /\ f \in air
  BY HeadIs DEF Handle, Handling, RepeatAnswer, StartHandshake, HandshakeRefused, IgnoreRequest,
                CommitBond, CommitFails, AcknowledgeAgain, IgnoreProof, ApplyCommand,
                LatchAndApply, LatchFails, IgnoreCommand
<1> HIDE DEF f
<1>2. CASE RepeatAnswer \/ StartHandshake
  <2>1. f.type = "req" /\ Answer(f) /\ UNCHANGED <<dial, drawn, epoch, proved>>
    BY <1>2 DEF RepeatAnswer, StartHandshake, Handling, history, f
  <2>2. f.eph # 0
    BY <1>1, <2>1, FrameIs, SerinAssumption DEF Requests
  <2> QED BY <2>1, <2>2 DEF Answer, AgreedKey
<1>3. CASE CommitBond \/ AcknowledgeAgain
  <2>1. f.type = "proof" /\ Acknowledge(f) /\ UNCHANGED <<dial, drawn, epoch, proved>>
    BY <1>3 DEF CommitBond, AcknowledgeAgain, Handling, history, f
  <2>2. [f EXCEPT !.type = "ack"].type = "ack"
    BY <1>1, <2>1 DEF Frames
  <2> QED BY <2>1, <2>2 DEF Acknowledge
<1>4. CASE HandshakeRefused \/ IgnoreRequest \/ CommitFails \/ IgnoreProof \/ ApplyCommand
             \/ LatchAndApply \/ LatchFails \/ IgnoreCommand
  BY <1>4 DEF HandshakeRefused, IgnoreRequest, CommitFails, IgnoreProof, ApplyCommand, LatchAndApply,
              LatchFails, IgnoreCommand, world, history
<1> QED BY <1>2, <1>3, <1>4 DEF Handle

\* A handshake is started by its request; otherwise it goes on, or is over.
LEMMA HandlePairs ==
  ASSUME TypeOK, Requests, Queued, Handle
  PROVE  pair'.state = "confirm" => Asked(pair'.cand, pair'.key, pair'.id)
<1> DEFINE f == Head(rxq)
<1>1. f \in Frames /\ f \in air
  BY HeadIs DEF Handle, Handling, RepeatAnswer, StartHandshake, HandshakeRefused, IgnoreRequest,
                CommitBond, CommitFails, AcknowledgeAgain, IgnoreProof, ApplyCommand,
                LatchAndApply, LatchFails, IgnoreCommand
<1> HIDE DEF f
<1>2. CASE StartHandshake
  <2>1. /\ f.type = "req"
        /\ pair'.cand = f.from /\ pair'.key = AgreedKey(f) /\ pair'.id = f.id
    BY <1>2, TypesNamed DEF StartHandshake, Handling, Pairings, f
  <2>2. AgreedKey(f)[1] = f.eph
    BY DEF AgreedKey
  <2>3. f = [type |-> "req", from |-> f.from, eph |-> f.eph, id |-> f.id]
    BY <1>1, <2>1, FrameIs
  <2> QED BY <1>1, <2>1, <2>2, <2>3 DEF Asked
<1>3. CASE HandshakeRefused \/ CommitBond \/ CommitFails
  BY <1>3, ClosedIs DEF HandshakeRefused, CommitBond, CommitFails, EndPairing
<1>4. CASE RepeatAnswer \/ IgnoreRequest \/ AcknowledgeAgain \/ IgnoreProof \/ ApplyCommand
             \/ LatchAndApply \/ LatchFails \/ IgnoreCommand
  <2>1. UNCHANGED pair
    BY <1>4 DEF RepeatAnswer, IgnoreRequest, AcknowledgeAgain, IgnoreProof, ApplyCommand,
                LatchAndApply, LatchFails, IgnoreCommand, link
  <2> QED BY <2>1 DEF Requests
<1> QED BY <1>2, <1>3, <1>4 DEF Handle

\* A proof of the candidate's key is a proof by the dial with the pinned identity:
\* the key names its request, and a request has one sender and one identity.
LEMMA CandidateProved ==
  ASSUME TypeOK, CandidateHolds, Requests, Proofs, Queued, CommitBond
  PROVE  <<Head(rxq).from, pair.key, pair.id>> \in proved
<1> DEFINE f == Head(rxq)
<1>1. f \in Frames /\ f \in air
  BY HeadIs DEF CommitBond, Handling
<1>2. f.type = "proof" /\ pair.state = "confirm" /\ f.from = pair.cand /\ f.key = pair.key
  BY DEF CommitBond, Handling, Proves, ProofKey, IsCandidate
<1> HIDE DEF f
<1>3. Asked(f.from, f.key, pair.id)
  BY <1>2 DEF Requests
<1>4. f.key[1] # 0
  BY <1>3, SerinAssumption DEF Requests, Asked
<1>5. PICK id \in Identities : Asked(f.from, f.key, id) /\ <<f.from, f.key, id>> \in proved
  BY <1>1, <1>2, <1>4 DEF Proofs
<1>6. id = pair.id
  BY <1>3, <1>5 DEF Requests, Asked
<1> QED BY <1>2, <1>5, <1>6 DEF f
\* A bond changes by its commit, which is latched, and by its latch; a dial is
\* known to echo epochs only with its bond latched.
LEMMA HandleBonds ==
  ASSUME TypeOK, CandidateHolds, Requests, Proofs, BondsProved, Latched, Queued, Handle
  PROVE  BondsProved' /\ Latched'
<1> DEFINE f == Head(rxq)
<1>0. bonds \in BondTables
  BY TypesNamed
<1>1. f \in Frames /\ f \in air /\ f.from \in Dials
  BY HeadIs, FrameIs
     DEF Handle, Handling, RepeatAnswer, StartHandshake, HandshakeRefused, IgnoreRequest, CommitBond,
         CommitFails, AcknowledgeAgain, IgnoreProof, ApplyCommand, LatchAndApply, LatchFails,
         IgnoreCommand
<1>2. UNCHANGED proved
  BY HandleSends
<1>3. CASE CommitBond
  <2> DEFINE bond == [key |-> pair.key, id |-> pair.id, latch |-> TRUE]
  <2>1. /\ bonds' = [bonds EXCEPT ![f.from] = bond]
        /\ latched' = latched \union {f.from}
        /\ bond.key = pair.key /\ bond.id = pair.id /\ bond.latch = TRUE
    BY <1>3 DEF CommitBond
  <2>2. <<f.from, pair.key, pair.id>> \in proved
    BY <1>3, CandidateProved
  <2> HIDE DEF bond, f
  <2>3. BondsProved'
    BY <1>0, <1>1, <1>2, <2>1, <2>2 DEF BondsProved, Table, Bonded, BondTables
  <2>4. Latched'
    BY <1>0, <1>1, <2>1 DEF Latched, Table, Bonded, BondTables
  <2> QED BY <2>3, <2>4
<1>4. CASE LatchAndApply
  <2> DEFINE bond == [bonds[f.from] EXCEPT !.latch = TRUE]
  <2>1. /\ bonds[f.from] # None
        /\ bonds' = [bonds EXCEPT ![f.from] = bond]
        /\ latched' = latched \/ latched' = latched \union {f.from}
    BY <1>4 DEF LatchAndApply, Heard, Bonded, Apply
  <2>2. bonds[f.from] \in Bonds
    BY <1>0, <1>1, <2>1 DEF BondTables
  <2>3. bond.key = bonds[f.from].key /\ bond.id = bonds[f.from].id /\ bond.latch = TRUE
    BY <2>2 DEF Bonds
  <2> HIDE DEF bond, f
  <2>4. BondsProved'
    BY <1>0, <1>1, <1>2, <2>1, <2>3 DEF BondsProved, Table, Bonded, BondTables
  <2>5. Latched'
    BY <1>0, <1>1, <2>1, <2>3 DEF Latched, Table, Bonded, BondTables
  <2> QED BY <2>4, <2>5
<1>5. CASE ApplyCommand
  <2>1. /\ UNCHANGED bonds /\ ~Latches(f) /\ Bonded(f.from)
        /\ latched' = IF f.echo = epoch THEN latched \union {f.from} ELSE latched
    BY <1>5 DEF ApplyCommand, Apply, link, Heard
  <2> HIDE DEF f
  <2> QED BY <1>2, <2>1 DEF Latches, BondsProved, Latched, Table, Bonded
<1>6. CASE RepeatAnswer \/ StartHandshake \/ HandshakeRefused \/ IgnoreRequest \/ CommitFails
             \/ AcknowledgeAgain \/ IgnoreProof \/ LatchFails \/ IgnoreCommand
  <2>1. UNCHANGED <<bonds, latched>>
    BY <1>6 DEF RepeatAnswer, StartHandshake, HandshakeRefused, IgnoreRequest, CommitFails,
                AcknowledgeAgain, IgnoreProof, LatchFails, IgnoreCommand, link, history
  <2> QED BY <1>2, <2>1 DEF BondsProved, Latched, Table, Bonded
<1> QED BY <1>3, <1>4, <1>5, <1>6 DEF Handle

LEMMA HandleOrigins ==
  ASSUME TypeOK, CandidateHolds, Origins, Handle
  PROVE  Origins'
<1>0. Requests /\ Proofs /\ BondsProved /\ Latched /\ Commands /\ Queued
  BY DEF Origins
<1>1. /\ air \subseteq air'
      /\ \A g \in air' \ air : \/ g.type = "ack"
                               \/ g.type = "resp" /\ g.key[1] # 0
      /\ UNCHANGED <<dial, drawn, epoch, proved>>
  BY <1>0, HandleSends
<1>2. Requests'
  <2>1. pair'.state = "confirm" => Asked(pair'.cand, pair'.key, pair'.id)
    BY <1>0, HandlePairs
  <2>2. pair'.state = "confirm" => Asked(pair.cand, pair.key, pair.id)'
    BY <1>1, <2>1 DEF Asked
  <2>3. \A f, g \in air' : f.type = "req" =>
          f.eph \in 1..drawn'.dials /\ (g.type = "req" /\ g.eph = f.eph => g = f)
    BY <1>0, <1>1 DEF Requests
  <2>4. \A d \in Dials : dial'[d].eph # 0 =>
          [type |-> "req", from |-> d, eph |-> dial'[d].eph, id |-> dial'[d].id] \in air'
    BY <1>0, <1>1 DEF Requests
  <2>5. \A f \in air' : f.type = "resp" => f.key[1] # 0
    BY <1>0, <1>1 DEF Requests
  <2> QED BY <2>2, <2>3, <2>4, <2>5 DEF Requests
<1>3. Proofs' /\ Commands'
  BY <1>0, <1>1 DEF Proofs, Commands, Asked
<1>4. BondsProved' /\ Latched'
  BY <1>0, HandleBonds
<1>5. Queued'
  <2>1. rxq # <<>> /\ rxq' = Tail(rxq)
    BY DEF Handle, Handling, RepeatAnswer, StartHandshake, HandshakeRefused, IgnoreRequest,
           CommitBond, CommitFails, AcknowledgeAgain, IgnoreProof, ApplyCommand, LatchAndApply,
           LatchFails, IgnoreCommand
  <2> QED BY <1>0, <1>1, <2>1, HeadIs DEF Queued
<1> QED BY <1>2, <1>3, <1>4, <1>5 DEF Origins

LEMMA ManageOrigins ==
  ASSUME TypeOK, DialTypes, BondsKept, Origins, Manage
  PROVE  Origins'
<1>0. /\ Requests /\ Proofs /\ BondsProved /\ Latched /\ Commands /\ Queued
      /\ epoch \in 1..MaxBoots /\ bonds \in BondTables /\ bonds = stored
  BY TypesNamed DEF Origins, BondsKept, Durable
<1>1. /\ UNCHANGED <<air, dial, proved, latched>>
      /\ drawn'.dials = drawn.dials
      /\ epoch' = epoch \/ epoch' = epoch + 1
      /\ rxq' = rxq \/ rxq' = <<>>
  BY DEF Manage, ForgetAll, Forget, StartPairing, CancelPairing, PairingTimeout, Restart, world,
         history, DialTypes
<1>2. pair' = pair \/ pair'.state # "confirm"
  <2>1. CASE StartPairing
    BY <2>1 DEF StartPairing, Closed
  <2>2. CASE ForgetAll \/ (\E d \in Dials : Forget(d)) \/ CancelPairing \/ PairingTimeout \/ Restart
    BY <2>2, ClosedIs DEF ForgetAll, Forget, CancelPairing, PairingTimeout, Restart, CancelWith,
                          EndPairing, link
  <2> QED BY <2>1, <2>2 DEF Manage
<1>3. \A d \in Dials : bonds'[d] = bonds[d] \/ bonds'[d] = None
  <2>1. CASE ForgetAll
    BY <2>1 DEF ForgetAll, NoBonds, link
  <2>2. CASE \E d \in Dials : Forget(d)
    BY <1>0, <2>2 DEF Forget, link, BondTables
  <2>3. CASE StartPairing \/ CancelPairing \/ PairingTimeout \/ Restart
    BY <1>0, <2>3 DEF StartPairing, CancelPairing, PairingTimeout, Restart
  <2> QED BY <2>1, <2>2, <2>3 DEF Manage
<1>4. Requests'
  BY <1>0, <1>1, <1>2 DEF Requests, Asked
<1>5. Proofs' /\ Commands'
  <2>1. \A f \in air : f.type = "cmd" => f.sent \in 1..MaxBoots
    BY FrameIs, TypesNamed
  <2>2. epoch \in Nat /\ epoch' \in Nat /\ epoch <= epoch'
    BY <1>0, <1>1, SerinAssumption
  <2>3. ASSUME NEW f \in air, f.type = "cmd" PROVE f.echo <= f.sent /\ f.sent <= epoch'
    <3>1. f.echo <= f.sent /\ f.sent <= epoch /\ f.sent \in Nat
      BY <1>0, <2>1, <2>3, SerinAssumption DEF Commands
    <3> QED BY <2>2, <3>1
  <2>4. Commands'
    BY <1>1, <2>3 DEF Commands
  <2>5. Proofs'
    BY <1>0, <1>1 DEF Proofs, Asked
  <2> QED BY <2>4, <2>5
<1>6. BondsProved'
  BY <1>0, <1>1, <1>3 DEF BondsProved, Table, Bonded
<1>7. Latched' /\ Queued'
  BY <1>0, <1>1, <1>3 DEF Latched, Queued, Table, Bonded
<1> QED BY <1>4, <1>5, <1>6, <1>7 DEF Origins
LEMMA OutsideOrigins ==
  ASSUME TypeOK, DialTypes, Origins, Outside
  PROVE  Origins'
<1>0. /\ Requests /\ Proofs /\ BondsProved /\ Latched /\ Commands /\ Queued
      /\ epoch \in 1..MaxBoots /\ air \subseteq Frames /\ rxq \in Seq(Frames)
      /\ dial \in [Dials -> DialStates]
  BY TypesNamed DEF Origins, DialTypes
<1>1. UNCHANGED <<bonds, pair, epoch, latched>> /\ proved \subseteq proved'
  BY DEF Outside, Arrive, DialProves, DialPaired, DialAsks, DialCommands, DialReset, link, history
<1>2. BondsProved' /\ Latched'
  BY <1>0, <1>1 DEF BondsProved, Latched, Table, Bonded
<1> SUFFICES Requests' /\ Proofs' /\ Commands' /\ Queued'
  BY <1>2 DEF Origins
<1>3. ASSUME NEW f \in air, Arrive(f) PROVE Requests' /\ Proofs' /\ Commands' /\ Queued'
  <2>1. UNCHANGED <<air, dial, drawn, proved>> /\ rxq' = Append(rxq, f)
    BY <1>3 DEF Arrive, world, history
  <2>2. Queued'
    BY <1>0, <2>1 DEF Queued
  <2> QED BY <1>0, <1>1, <2>1, <2>2 DEF Requests, Proofs, Commands, Asked
<1>4. ASSUME NEW f \in air, DialProves(f) PROVE Requests' /\ Proofs' /\ Commands' /\ Queued'
  <2> DEFINE proof == [f EXCEPT !.type = "proof"]
  <2>1. /\ f.type = "resp" /\ f.key[1] = dial[f.from].eph
        /\ dial' = [dial EXCEPT ![f.from].key = f.key]
        /\ air' = air \union {proof}
        /\ proved' = proved \union {<<f.from, f.key, dial[f.from].id>>}
        /\ UNCHANGED <<rxq, drawn>>
    BY <1>4 DEF DialProves, Send, link
  <2>2. f.from \in Dials /\ f.key \in Keys
    BY <1>0, <2>1, FrameIs
  <2>3. proof.type = "proof" /\ proof.from = f.from /\ proof.key = f.key
    BY <1>0, <2>1 DEF Frames
  <2>4. Asked(f.from, f.key, dial[f.from].id) /\ dial[f.from].id \in Identities
    BY <1>0, <2>1, <2>2 DEF Requests, Asked, DialStates
  <2>5. \A d \in Dials : dial'[d].eph = dial[d].eph /\ dial'[d].id = dial[d].id
    BY <1>0, <2>1, <2>2 DEF DialStates
  <2> HIDE DEF proof
  <2>6. Requests'
    BY <1>0, <1>1, <2>1, <2>3, <2>5 DEF Requests, Asked
  <2>7. Proofs'
    BY <1>0, <2>1, <2>3, <2>4 DEF Proofs, Asked
  <2>8. Commands' /\ Queued'
    BY <1>0, <1>1, <2>1, <2>3 DEF Commands, Queued
  <2> QED BY <2>6, <2>7, <2>8
<1>5. ASSUME NEW f \in air, DialPaired(f) PROVE Requests' /\ Proofs' /\ Commands' /\ Queued'
  <2>1. /\ dial' = [dial EXCEPT ![f.from].bond = f.key]
        /\ UNCHANGED <<rxq, air, drawn, proved>>
    BY <1>5 DEF DialPaired, link, history
  <2>2. \A d \in Dials : dial'[d].eph = dial[d].eph /\ dial'[d].id = dial[d].id
    BY <1>0, <2>1 DEF DialStates
  <2>3. Requests'
    BY <1>0, <1>1, <2>1, <2>2 DEF Requests, Asked
  <2>4. Proofs' /\ Commands' /\ Queued'
    BY <1>0, <1>1, <2>1 DEF Proofs, Commands, Queued, Asked
  <2> QED BY <2>3, <2>4
<1>6. ASSUME NEW e \in Dials, DialAsks(e) PROVE Requests' /\ Proofs' /\ Commands' /\ Queued'
  <2> DEFINE request == [type |-> "req", from |-> e, eph |-> drawn'.dials, id |-> dial[e].id]
  <2>1. /\ drawn' = [drawn EXCEPT !.dials = @ + 1]
        /\ dial' = [dial EXCEPT ![e].eph = drawn'.dials, ![e].key = None]
        /\ air' = air \union {request}
        /\ UNCHANGED <<rxq, proved>>
    BY <1>6 DEF DialAsks, Send, history
  <2>2. /\ request.type = "req" /\ request.eph = drawn'.dials /\ drawn'.dials = drawn.dials + 1
        /\ drawn.dials \in Nat
    BY <2>1, SerinAssumption DEF DialTypes
  <2>3. \A d \in Dials : /\ dial'[d].id = dial[d].id
                         /\ dial'[d].eph = IF d = e THEN drawn'.dials ELSE dial[d].eph
    BY <1>0, <2>1 DEF DialStates
  <2>4. \A g \in air : g.type = "req" => g.eph \in 1..drawn.dials
    BY <1>0 DEF Requests
  <2>5. \A d \in Dials : dial'[d].eph # 0 =>
          [type |-> "req", from |-> d, eph |-> dial'[d].eph, id |-> dial'[d].id] \in air'
    BY <1>0, <2>1, <2>3 DEF Requests
  <2> HIDE DEF request
  <2>6. \A f, g \in air' : f.type = "req" =>
          f.eph \in 1..drawn'.dials /\ (g.type = "req" /\ g.eph = f.eph => g = f)
    <3> TAKE f, g \in air'
    <3>1. CASE f \in air /\ g \in air
      BY <1>0, <2>2, <3>1 DEF Requests
    <3>2. CASE f = request /\ g \in air
      BY <2>2, <2>4, <3>2
    <3>3. CASE f \in air /\ g = request
      BY <2>2, <2>4, <3>3
    <3>4. CASE f = request /\ g = request
      BY <2>2, <3>4
    <3> QED BY <2>1, <3>1, <3>2, <3>3, <3>4
  <2>7. Requests'
    BY <1>0, <1>1, <2>1, <2>2, <2>5, <2>6 DEF Requests, Asked
  <2>8. Proofs' /\ Commands' /\ Queued'
    BY <1>0, <1>1, <2>1, <2>2 DEF Proofs, Commands, Queued, Asked
  <2> QED BY <2>7, <2>8
<1>7. ASSUME NEW e \in Dials, DialCommands(e) PROVE Requests' /\ Proofs' /\ Commands' /\ Queued'
  <2>1. PICK echo \in 0..epoch :
          Send([type |-> "cmd", from |-> e, key |-> dial[e].bond, echo |-> echo, sent |-> epoch])
    BY <1>7 DEF DialCommands
  <2> DEFINE command == [type |-> "cmd", from |-> e, key |-> dial[e].bond, echo |-> echo,
                         sent |-> epoch]
  <2>2. /\ air' = air \union {command} /\ UNCHANGED <<rxq, dial, drawn, proved>>
        /\ command.type = "cmd" /\ command.echo <= command.sent /\ command.sent <= epoch
    BY <1>0, <1>7, <2>1 DEF DialCommands, Send, history
  <2> HIDE DEF command
  <2>3. Requests'
    BY <1>0, <1>1, <2>2 DEF Requests, Asked
  <2> QED BY <1>0, <1>1, <2>2, <2>3 DEF Proofs, Commands, Queued, Asked
<1>8. ASSUME NEW e \in Dials, DialReset(e) PROVE Requests' /\ Proofs' /\ Commands' /\ Queued'
  <2>1. UNCHANGED <<rxq, air, drawn, proved>>
    BY <1>8 DEF DialReset, link, history
  <2>2. \A d \in Dials : dial'[d].eph = 0 \/ dial'[d] = dial[d]
    BY <1>0, <1>8 DEF DialReset
  <2>3. Requests'
    BY <1>0, <1>1, <2>1, <2>2 DEF Requests, Asked
  <2>4. Proofs' /\ Commands' /\ Queued'
    BY <1>0, <1>1, <2>1 DEF Proofs, Commands, Queued, Asked
  <2> QED BY <2>3, <2>4
<1> QED BY <1>3, <1>4, <1>5, <1>6, <1>7, <1>8 DEF Outside

---------------------------------------------------------------------------
(***************************************************************************)
(* The invariant holds                                                     *)
(***************************************************************************)
LEMMA InvInit == Init => SerinInv
<1> SUFFICES ASSUME Init PROVE SerinInv
  OBVIOUS
<1>1. PICK old \in SUBSET Dials, id \in Identities, v5 \in BOOLEAN :
        /\ bonds = [d \in Dials |-> IF d \in old THEN [key |-> <<0, 0>>, id |-> id, latch |-> v5]
                                    ELSE None]
        /\ stored = bonds /\ seen = {} /\ pair = Closed /\ broadcast = FALSE
        /\ peers = [d \in Dials |-> IF d \in old THEN <<0, 0>> ELSE None]
        /\ rxq = <<>> /\ epoch = 1
        /\ air = IF v5 THEN {[type |-> "proof", from |-> d, key |-> <<0, 0>>] : d \in old} ELSE {}
        /\ dial = [d \in Dials |-> [eph |-> 0, key |-> None, id |-> id,
                                    bond |-> IF d \in old THEN <<0, 0>> ELSE None]]
        /\ drawn = [dials |-> 0, controller |-> 0]
        /\ ran = None
        /\ proved = {<<d, <<0, 0>>, id>> : d \in old}
        /\ latched = (IF v5 THEN old ELSE {}) /\ torn = {}
  BY ZenonT(60) DEF Init
<1>2. <<0, 0>> \in Keys /\ 0 \in 0..MaxDrawn
  BY SerinAssumption, KeyIs
<1>3. [key |-> <<0, 0>>, id |-> id, latch |-> v5] \in Bonds
  BY <1>1, <1>2 DEF Bonds
<1>4. [key |-> <<0, 0>>, id |-> id, latch |-> v5] # None
  BY <1>3, NoneAssumption
<1>5. air \subseteq Frames
  <2>1. \A d \in Dials : [type |-> "proof", from |-> d, key |-> <<0, 0>>] \in Frames
    BY <1>2 DEF Frames
  <2> QED BY <1>1, <2>1
<1>6. IsFiniteSet(air)
  <2> DEFINE frame == [d \in old |-> [type |-> "proof", from |-> d, key |-> <<0, 0>>]]
             sent == {[type |-> "proof", from |-> d, key |-> <<0, 0>>] : d \in old}
  <2>1. IsFiniteSet(old)
    BY SerinAssumption, FS_Subset
  <2>2. frame \in Surjection(old, sent)
    BY DEF Surjection
  <2> HIDE DEF frame, sent
  <2>3. IsFiniteSet(sent)
    BY <2>1, <2>2, FS_Surjection
  <2> QED BY <1>1, <2>3, FS_EmptySet DEF sent
<1>7. TypeOK
  <2>1. bonds \in BondTables /\ stored \in BondTables /\ peers \in Installed
    BY <1>1, <1>2, <1>3 DEF BondTables, Installed
  <2>2. rxq \in Seq(Frames) /\ Len(rxq) <= Slots /\ epoch \in 1..MaxBoots
    BY <1>1, SerinAssumption
  <2> QED BY <1>1, <1>5, <2>1, <2>2, ClosedIs, TypesNamed
<1>8. DialTypes
  <2>1. dial \in [Dials -> DialStates]
    BY <1>1, <1>2 DEF DialStates
  <2> QED BY <1>1, <1>2, <1>6, <2>1 DEF DialTypes
<1>9. BondsKept /\ CandidateHolds
  BY <1>1, <1>4, ClosedIs
     DEF BondsKept, PeersMatch, Durable, CandidateHolds, IsCandidate, Bonded
<1>10. Origins
  <2>1. Requests /\ Proofs /\ Commands
    BY <1>1, ClosedIs DEF Requests, Proofs, Commands
  <2>2. BondsProved
    BY <1>1, <1>4 DEF BondsProved, Table, Bonded
  <2>3. Latched /\ Queued
    BY <1>1, <1>4 DEF Latched, Queued, Table, Bonded
  <2> QED BY <2>1, <2>2, <2>3 DEF Origins
<1> QED BY <1>7, <1>8, <1>9, <1>10 DEF SerinInv

LEMMA InvStep == SerinInv /\ [Next]_vars => SerinInv'
<1> SUFFICES ASSUME SerinInv, [Next]_vars PROVE SerinInv'
  OBVIOUS
<1>1. TypeOK /\ DialTypes /\ BondsKept /\ CandidateHolds /\ Origins /\ Queued
  BY DEF SerinInv, Origins
<1>2. CASE Handle
  BY <1>1, <1>2, HandleTypes, HandleKeeps, HandleOrigins DEF SerinInv
<1>3. CASE Manage
  BY <1>1, <1>3, ManageTypes, ManageKeeps, ManageOrigins DEF SerinInv
<1>4. CASE Outside
  <2>1. UNCHANGED <<link, torn>>
    BY <1>4 DEF Outside, Arrive, DialProves, DialPaired, DialAsks, DialCommands, DialReset, history
  <2>2. BondsKept' /\ CandidateHolds'
    BY <1>1, <2>1
       DEF link, BondsKept, PeersMatch, Durable, CandidateHolds, IsCandidate, Bonded
  <2> QED BY <1>1, <1>4, <2>2, OutsideTypes, OutsideOrigins DEF SerinInv
<1>5. CASE UNCHANGED vars
  <2> USE <1>1, <1>5 DEF vars, link, world, history
  <2>1. TypeOK' /\ DialTypes'
    BY DEF TypeOK, DialTypes
  <2>2. BondsKept' /\ CandidateHolds'
    BY DEF BondsKept, PeersMatch, Durable, CandidateHolds, IsCandidate, Bonded
  <2>3. Requests' /\ Proofs' /\ BondsProved' /\ Latched' /\ Commands' /\ Queued'
    BY DEF Origins, Requests, Proofs, BondsProved, Latched, Commands, Queued, Asked, Table, Bonded
  <2> QED BY <2>1, <2>2, <2>3 DEF SerinInv, Origins
<1> QED BY <1>2, <1>3, <1>4, <1>5 DEF Next

LEMMA SerinInvHolds == Spec => []SerinInv
BY InvInit, InvStep, PTL DEF Spec

\* The radio's keys and the flash follow the bonds, whatever fails or repeats: a
\* handshake that ends in any way leaves a bonded dial its key, and a power loss
\* changes no bond (pair_cleanup_candidate(), persist_bonds()).
THEOREM BondsAreKept == Spec => []BondsKept
<1>1. SerinInv => BondsKept
  BY DEF SerinInv
<1> QED BY <1>1, SerinInvHolds, PTL

\* A key becomes a bond only after the dial of the pinned identity proved it, for
\* any frames queued under older keys (sl2_link_on_recv(), pair_commit()).
THEOREM BondsAreProved == Spec => []BondsProved
<1>1. SerinInv => BondsProved
  BY DEF SerinInv, Origins
<1> QED BY <1>1, SerinInvHolds, PTL

\* A command that is applied for a dial known to echo epochs was sent in this boot.
LEMMA AppliedIsFresh ==
  ASSUME SerinInv, [Next]_vars, ran' # ran, ran' # None, ran'.from \in latched
  PROVE  ran'.sent = epoch
<1> DEFINE f == Head(rxq)
<1>1. TypeOK /\ Latched /\ Commands /\ Queued
  BY DEF SerinInv, Origins
<1>2. ApplyCommand \/ LatchAndApply
  BY DEF Next, Handle, Manage, Outside, RepeatAnswer, StartHandshake, HandshakeRefused, IgnoreRequest,
         CommitBond, CommitFails, AcknowledgeAgain, IgnoreProof, LatchFails, IgnoreCommand,
         ForgetAll, Forget, StartPairing, CancelPairing, PairingTimeout, Restart,
         Arrive, DialProves, DialPaired, DialAsks, DialCommands, DialReset, history, vars
<1>3. f \in Frames /\ f \in air /\ f.type = "cmd" /\ ran' = f /\ Bonded(f.from)
  BY <1>1, <1>2, HeadIs DEF ApplyCommand, LatchAndApply, Handling, Apply, Heard
<1>4. f.echo = epoch
  <2>1. CASE LatchAndApply
    BY <2>1 DEF LatchAndApply, Latches
  <2>2. CASE ApplyCommand
    <3>1. bonds[f.from].latch
      BY <1>1, <1>3, FrameIs DEF Latched, Table
    <3> QED BY <2>2, <3>1 DEF ApplyCommand, Fresh, Guarded
  <2> QED BY <1>2, <2>1, <2>2
<1>5. f.echo <= f.sent /\ f.sent <= epoch /\ f.sent \in Nat /\ epoch \in Nat
  BY <1>1, <1>3, FrameIs, TypesNamed, SerinAssumption DEF Commands
<1> HIDE DEF f
<1> QED BY <1>3, <1>4, <1>5

\* Once the echo of a dial was accepted, or it paired, no command sent before a
\* restart is applied again, for any number of restarts (epoch_ok()).
THEOREM NothingIsReplayed == Spec => NoReplay
<1>1. SerinInv /\ [Next]_vars =>
        [ran' # ran /\ ran' # None /\ ran'.from \in latched => ran'.sent = epoch]_vars
  BY AppliedIsFresh
<1> QED BY <1>1, SerinInvHolds, PTL DEF Spec, NoReplay

---------------------------------------------------------------------------
(***************************************************************************)
(* DialSetup: the inductive invariant                                      *)
(***************************************************************************)
Over == {"closed", "recovery"}
Going == {Unset, "waiting"}
Opened(s) == net.window /\ opener = s

\* A session is not asked for once it was cancelled, so the epochs of its
\* requests are not after those of its cancels.
SetupFrames ==
  /\ \A f \in sky : f.epoch <= bootEpoch /\ (f.kind = "cancel" => HasNumber(f.session))
  /\ \A f, g \in sky :
       f.session = g.session /\ f.kind = "setup" /\ g.kind = "cancel" => f.epoch <= g.epoch

\* A numbered session came to own the setup by a request of this boot, and
\* what became of it is what the ring remembers.
OwnerIsCurrent ==
  owner # Unset =>
    /\ Dial(owner) \in bonded
    /\ HasNumber(owner) =>
         /\ retired[owner] = cancelled
         /\ \E f \in sky : f.kind = "setup" /\ f.session = owner /\ f.epoch = bootEpoch

\* Only the owner's dial has a request, and none that has been cancelled.
AskedByOwner ==
  asked # {} => owner # Unset /\ asked = {Dial(owner)} /\ cancelled = Unset

Unnumbered == \A s \in Sessions : ~HasNumber(s) => retired[s] = Unset

WindowHasAp == net.window => net.ap

\* The owner has started what it opened, and nothing else has.
StartedIsOpener ==
  owner # Unset =>
    /\ started => opener = owner
    /\ HasNumber(owner) /\ ~started /\ cancelled \in Going => opener # owner

\* A session that is over has no window open; one that has, and is not, owns
\* the setup.
OverIsClosed == \A s \in Sessions : retired[s] \in Over => ~Opened(s)
OpenerOwns ==
  opener # Unset /\ HasNumber(opener) /\ Dial(opener) \in bonded /\ retired[opener] \in Going
    => owner = opener

\* An answer that ended a session was given to a cancel of that boot, and the
\* session does not come back while its dial is bonded.
AnswersHold ==
  \A s \in Sessions, e \in 1 .. MaxEpochs :
    <<s, e, "ended">> \in answers =>
      /\ \E f \in sky : f.kind = "cancel" /\ f.session = s /\ f.epoch = e
      /\ e = bootEpoch /\ Dial(s) \in bonded => retired[s] \notin Going
      /\ ~Opened(s)

SetupInv ==
  /\ SetupTypeOK /\ SetupFrames /\ OwnerIsCurrent /\ AskedByOwner /\ Unnumbered /\ WindowHasAp
  /\ StartedIsOpener /\ OverIsClosed /\ OpenerOwns /\ AnswersHold

-----------------------------------------------------------------------------
(* Types *)

Nets == [ap: BOOLEAN, window: BOOLEAN, reprovisioned: BOOLEAN, trial: BOOLEAN, online: BOOLEAN]
SkyFrames == [kind: {"setup", "cancel"}, session: Sessions, epoch: 1..MaxEpochs]
Finals == Sessions \X (1..MaxEpochs) \X {"ended", "stale"}
Ring == [Sessions -> Statuses \union {Unset}]

\* The types of SetupTypeOK by name.
LEMMA SetupTypesNamed ==
  SetupTypeOK <=>
    /\ owner \in Sessions \union {Unset} /\ started \in BOOLEAN
    /\ cancelled \in Statuses \union {Unset}
    /\ bonded \subseteq Heads /\ asked \subseteq bonded
    /\ retired \in Ring /\ net \in Nets /\ bootEpoch \in 1..MaxEpochs
    /\ sky \subseteq SkyFrames /\ opener \in Sessions \union {Unset} /\ answers \subseteq Finals
BY DEF SetupTypeOK, Ring, Nets, SkyFrames, Finals

\* The entry of one session changes, unless it has no number.
LEMMA RetireIs ==
  ASSUME NEW ret \in Ring, NEW s \in Sessions, NEW status \in Statuses
  PROVE  /\ Retire(ret, s, status) \in Ring
         /\ \A t \in Sessions :
              Retire(ret, s, status)[t] = IF t = s /\ HasNumber(s) THEN status ELSE ret[t]
BY DEF Retire, Ring

\* Beginning a change window opens the access point.
LEMMA BeginIs ==
  ASSUME NEW n \in Nets
  PROVE  Begin(n) \in Nets /\ Begin(n).ap /\ Begin(n).window
<1>1. n.reprovisioned \in BOOLEAN /\ n.window \in BOOLEAN
  BY DEF Nets
<1>2. (n.reprovisioned /\ n.window) \in BOOLEAN
  BY <1>1
<1>3. Begin(n) = [n EXCEPT !.ap = TRUE, !.window = TRUE,
                           !.reprovisioned = n.reprovisioned /\ n.window]
  BY DEF Begin
<1> QED BY <1>2, <1>3 DEF Nets

\* Cancelling the window closes it unless a trial is running.
LEMMA CancelledIs ==
  ASSUME NEW n \in Nets
  PROVE  /\ CancelledWindow(n).net \in Nets /\ CancelledWindow(n).status \in Over \cup {"waiting"}
         /\ CancelledWindow(n).net.window => n.window /\ CancelledWindow(n).net = n
         /\ CancelledWindow(n).status # "waiting" => ~CancelledWindow(n).net.window
         /\ CancelledWindow(n).net # n => n.window
<1> DEFINE open == [n EXCEPT !.window = FALSE, !.reprovisioned = FALSE]
<1>1. ApClosed(n) \in Nets /\ ~ApClosed(n).window
  BY DEF Nets, ApClosed
<1>2. open \in Nets /\ ~open.window
  BY DEF Nets
<1>3. CASE ~n.window
  BY <1>3 DEF CancelledWindow, Over
<1>4. CASE n.window /\ n.trial
  BY <1>4 DEF CancelledWindow, Over
<1>5. CASE n.window /\ ~n.trial /\ n.online
  BY <1>1, <1>5 DEF CancelledWindow, Over
<1>6. CASE n.window /\ ~n.trial /\ ~n.online
  <2>1. CancelledWindow(n) = [net |-> open, status |-> "recovery"]
    BY <1>6 DEF CancelledWindow
  <2> HIDE DEF open
  <2> QED BY <2>1, <1>2, <1>6 DEF Over
<1> QED BY <1>3, <1>4, <1>5, <1>6

\* The statuses are four, and none is the absence of one.
LEMMA StatusesAre ==
  /\ Statuses = Over \cup {"waiting", "stale"} /\ Going \subseteq Statuses \cup {Unset}
  /\ Unset \notin Statuses /\ Unset \notin Sessions
  /\ "stale" \notin Going /\ "closed" \notin Going /\ "recovery" \notin Going
  /\ Over \cap Going = {}
BY SetupAssumption DEF Statuses, Over, Going

-----------------------------------------------------------------------------
(* The steps *)

\* The network's own course opens no window.
LEMMA NetworkKeeps ==
  ASSUME SetupInv, net' \in Nets, net'.window => net.window /\ net'.ap,
         UNCHANGED <<linkVars, bootEpoch, sky, opener, answers>>
  PROVE  SetupInv'
<1>1. SetupTypeOK'
  BY SetupTypesNamed DEF SetupInv, SetupTypeOK, linkVars, Nets
<1>2. SetupFrames' /\ OwnerIsCurrent' /\ AskedByOwner' /\ Unnumbered' /\ StartedIsOpener' /\ OpenerOwns'
  BY DEF SetupInv, SetupFrames, OwnerIsCurrent, AskedByOwner, Unnumbered, StartedIsOpener, OpenerOwns,
         linkVars
<1>3. WindowHasAp' /\ \A s : Opened(s)' => Opened(s)
  BY DEF WindowHasAp, Opened
<1>4. OverIsClosed' /\ AnswersHold'
  BY <1>3 DEF SetupInv, OverIsClosed, AnswersHold, linkVars
<1> QED BY <1>1, <1>2, <1>3, <1>4 DEF SetupInv

LEMMA NetworkStepKeeps ==
  ASSUME SetupInv, Recover \/ Submit \/ TrialEnds \/ Weather \/ WindowExpires \/ Completes
  PROVE  SetupInv'
<1>0. net \in Nets /\ (net.window => net.ap)
  BY SetupTypesNamed DEF SetupInv, WindowHasAp
<1>1. CASE Recover
  <2>1. net' \in Nets /\ (net'.window => net.window /\ net'.ap)
    BY <1>0, <1>1 DEF Recover, NetworkOnly, Nets
  <2> QED BY <2>1, <1>1, NetworkKeeps DEF Recover, NetworkOnly
<1>2. CASE Submit
  <2>1. net' \in Nets /\ (net'.window => net.window /\ net'.ap)
    BY <1>0, <1>2 DEF Submit, NetworkOnly, Nets
  <2> QED BY <2>1, <1>2, NetworkKeeps DEF Submit, NetworkOnly
<1>3. CASE TrialEnds
  <2>1. net' \in Nets /\ (net'.window => net.window /\ net'.ap)
    BY <1>0, <1>3 DEF TrialEnds, NetworkOnly, Nets
  <2> QED BY <2>1, <1>3, NetworkKeeps DEF TrialEnds, NetworkOnly
<1>4. CASE Weather
  <2>1. (~net.online) \in BOOLEAN /\ net' = [net EXCEPT !.online = ~net.online]
    BY <1>4 DEF Weather, NetworkOnly
  <2>2. net' \in Nets /\ (net'.window => net.window /\ net'.ap)
    BY <1>0, <2>1 DEF Nets
  <2> QED BY <2>2, <1>4, NetworkKeeps DEF Weather, NetworkOnly
<1>5. CASE WindowExpires
  <2>1. net' \in Nets /\ (net'.window => net.window /\ net'.ap)
    BY <1>0, <1>5, CancelledIs DEF WindowExpires, NetworkOnly
  <2> QED BY <2>1, <1>5, NetworkKeeps DEF WindowExpires, NetworkOnly
<1>6. CASE Completes
  <2>1. net' \in Nets /\ ~net'.window
    BY <1>0, <1>6 DEF Completes, NetworkOnly, ApClosed, Nets
  <2> QED BY <2>1, <1>6, NetworkKeeps DEF Completes, NetworkOnly
<1> QED BY <1>1, <1>2, <1>3, <1>4, <1>5, <1>6

\* A frame of this boot: a request only of a session that was not cancelled.
LEMMA SendKeeps ==
  ASSUME SetupInv, NEW s \in Sessions, AskSetup(s) \/ AskCancel(s)
  PROVE  SetupInv'
<1> DEFINE frame(kind) == [kind |-> kind, session |-> s, epoch |-> bootEpoch]
<1>0. /\ SetupTypeOK /\ bootEpoch \in 1 .. MaxEpochs /\ sky \subseteq SkyFrames
      /\ UNCHANGED <<linkVars, net, bootEpoch, opener, answers>>
  BY SetupTypesNamed DEF SetupInv, AskSetup, AskCancel, SendFrame
<1>1. PICK kind \in {"setup", "cancel"} :
        /\ sky' = sky \union {frame(kind)}
        /\ kind = "setup" => ~Sent("cancel", s)
        /\ kind = "cancel" => HasNumber(s)
  BY DEF AskSetup, AskCancel, SendFrame
<1>2. frame(kind) \in SkyFrames
  BY <1>0 DEF SkyFrames
<1>3. SetupTypeOK'
  BY <1>0, <1>1, <1>2 DEF SetupTypeOK, SkyFrames, linkVars
<1>4. SetupFrames'
  <2> HIDE DEF frame
  <2>1. /\ frame(kind).kind = kind /\ frame(kind).session = s /\ frame(kind).epoch = bootEpoch
    BY DEF frame
  <2>2. \A f \in sky : f.epoch <= bootEpoch /\ (f.kind = "cancel" => HasNumber(f.session))
    BY DEF SetupInv, SetupFrames
  <2>3. \A f \in sky' : f.epoch <= bootEpoch' /\ (f.kind = "cancel" => HasNumber(f.session))
    BY <2>1, <2>2, <1>0, <1>1
  <2>4. ASSUME NEW f \in sky', NEW g \in sky',
               f.session = g.session, f.kind = "setup", g.kind = "cancel"
        PROVE  f.epoch <= g.epoch
    <3>1. CASE g = frame(kind)
      BY <3>1, <2>1, <2>3, <1>0
    <3>2. CASE g \in sky /\ f = frame(kind)
      BY <3>2, <2>1, <2>4, <1>1 DEF Sent
    <3>3. CASE g \in sky /\ f \in sky
      BY <3>3, <2>4 DEF SetupInv, SetupFrames
    <3> QED BY <3>1, <3>2, <3>3, <1>1
  <2> QED BY <2>3, <2>4 DEF SetupFrames
<1>5. OwnerIsCurrent'
  BY <1>0, <1>1 DEF SetupInv, OwnerIsCurrent, linkVars
<1>6. AskedByOwner' /\ Unnumbered' /\ WindowHasAp' /\ StartedIsOpener' /\ OverIsClosed' /\ OpenerOwns'
  BY <1>0 DEF SetupInv, AskedByOwner, Unnumbered, WindowHasAp, StartedIsOpener, OverIsClosed,
              OpenerOwns, Opened, linkVars
<1>7. AnswersHold'
  BY <1>0, <1>1 DEF SetupInv, AnswersHold, Opened, linkVars
<1> QED BY <1>3, <1>4, <1>5, <1>6, <1>7 DEF SetupInv

\* A request changes nothing but who is in charge: a session that is over is
\* refused, and whoever else was in charge is retired.
LEMMA ReceiveSetupKeeps ==
  ASSUME SetupInv, NEW f \in sky, ReceiveSetup(f)
  PROVE  SetupInv'
<1> DEFINE s == f.session
<1>0. /\ SetupTypeOK /\ f \in SkyFrames /\ s \in Sessions /\ Dial(s) \in bonded
      /\ f.kind = "setup" /\ f.session = s /\ (HasNumber(s) => f.epoch = bootEpoch)
      /\ QueueSetup(s) /\ UNCHANGED <<bonded, net, bootEpoch, sky, opener, answers>>
      /\ owner \in Sessions \cup {Unset} /\ retired \in Ring /\ s # Unset
  BY SetupTypesNamed, StatusesAre DEF SetupInv, ReceiveSetup, EpochOk, SkyFrames
<1> HIDE DEF s
<1>a. SetupFrames' /\ WindowHasAp'
  BY <1>0 DEF SetupInv, SetupFrames, WindowHasAp
<1>1. CASE HasNumber(s) /\ (retired[s] # Unset \/ (owner = s /\ cancelled # Unset))
  <2>1. UNCHANGED setupVars
    BY <1>0, <1>1 DEF QueueSetup, setupVars, linkVars
  <2> QED BY <2>1 DEF SetupInv, SetupTypeOK, SetupFrames, OwnerIsCurrent, AskedByOwner, Unnumbered,
                      WindowHasAp, StartedIsOpener, OverIsClosed, OpenerOwns, AnswersHold, Opened,
                      setupVars, linkVars
<1>2. CASE /\ ~(HasNumber(s) /\ (retired[s] # Unset \/ (owner = s /\ cancelled # Unset)))
           /\ owner = s /\ ~(~HasNumber(s) /\ cancelled # Unset)
  <2>1. /\ cancelled = Unset /\ asked' = asked \union {Dial(s)}
        /\ UNCHANGED <<owner, started, cancelled, retired>>
    BY <1>0, <1>2 DEF QueueSetup
  <2>2. SetupTypeOK'
    BY <1>0, <2>1 DEF SetupTypeOK
  <2>3. AskedByOwner'
    BY <1>0, <1>2, <2>1 DEF SetupInv, AskedByOwner
  <2>4. OwnerIsCurrent' /\ Unnumbered' /\ StartedIsOpener' /\ OverIsClosed' /\ OpenerOwns' /\ AnswersHold'
    BY <1>0, <2>1 DEF SetupInv, OwnerIsCurrent, Unnumbered, StartedIsOpener, OverIsClosed, OpenerOwns,
                      AnswersHold, Opened
  <2> QED BY <1>a, <2>2, <2>3, <2>4 DEF SetupInv
<1>3. CASE /\ ~(HasNumber(s) /\ (retired[s] # Unset \/ (owner = s /\ cancelled # Unset)))
           /\ ~(owner = s /\ ~(~HasNumber(s) /\ cancelled # Unset))
  <2>1. /\ retired' = IF owner = Unset THEN retired ELSE Retire(retired, owner, "stale")
        /\ owner' = s /\ started' = FALSE /\ cancelled' = Unset /\ asked' = {Dial(s)}
    BY <1>0, <1>3 DEF QueueSetup
  <2>2. HasNumber(s) => retired[s] = Unset /\ owner # s
    BY <1>3
  <2>3. /\ retired' \in Ring
        /\ \A t \in Sessions :
             retired'[t] = IF t = owner /\ HasNumber(t) THEN "stale" ELSE retired[t]
    <3>1. CASE owner = Unset
      BY <3>1, <2>1, <1>0, StatusesAre
    <3>2. CASE owner # Unset
      BY <3>2, <2>1, <1>0, StatusesAre, RetireIs
    <3> QED BY <3>1, <3>2
  <2>4. SetupTypeOK'
    BY <1>0, <2>1, <2>3 DEF SetupTypeOK, Ring
  <2>5. OwnerIsCurrent' /\ AskedByOwner'
    <3>1. HasNumber(s) => retired'[s] = cancelled'
      BY <1>0, <2>1, <2>2, <2>3
    <3>2. HasNumber(s) => \E g \in sky' : g.kind = "setup" /\ g.session = s /\ g.epoch = bootEpoch'
      BY <1>0
    <3> QED BY <1>0, <2>1, <3>1, <3>2 DEF OwnerIsCurrent, AskedByOwner
  <2>6. Unnumbered' /\ OverIsClosed'
    BY <1>0, <2>3, StatusesAre DEF SetupInv, Unnumbered, OverIsClosed, Opened, Over
  <2>7. HasNumber(s) => opener # s
    BY <1>0, <2>2 DEF SetupInv, OpenerOwns, Going
  <2>8. StartedIsOpener'
    BY <1>0, <2>1, <2>7 DEF StartedIsOpener
  <2>9. OpenerOwns'
    <3>1. opener \in Sessions \cup {Unset}
      BY <1>0 DEF SetupTypeOK
    <3>2. ASSUME opener # Unset, HasNumber(opener), Dial(opener) \in bonded, retired'[opener] \in Going
          PROVE  FALSE
      BY <3>1, <3>2, <1>0, <2>3, StatusesAre DEF SetupInv, OpenerOwns
    <3> QED BY <3>2, <1>0 DEF OpenerOwns
  <2>10. AnswersHold'
    BY <1>0, <2>3, StatusesAre DEF SetupInv, AnswersHold, Opened
  <2> QED BY <1>a, <2>4, <2>5, <2>6, <2>8, <2>9, <2>10 DEF SetupInv
<1> QED BY <1>1, <1>2, <1>3

\* Serving the owner's request opens the window for it; a session that has no
\* window left is over.
LEMMA LoopKeeps ==
  ASSUME SetupInv, NEW live, Loop(live)
  PROVE  SetupInv'
<1> DEFINE heard  == ~net.ap /\ Observes
           serves == asked \intersect live
<1>0. /\ SetupTypeOK /\ UNCHANGED <<bonded, owner, bootEpoch, sky, answers>>
      /\ started' = ((started /\ ~heard) \/ serves # {})
      /\ cancelled' = IF heard THEN "closed" ELSE cancelled
      /\ retired' = IF heard THEN Retire(retired, owner, "closed") ELSE retired
      /\ asked' = asked \ serves
      /\ net' = IF serves = {} THEN net ELSE Begin(net)
      /\ opener' = IF serves = {} THEN opener ELSE owner
  BY DEF SetupInv, Loop
<1>1. /\ owner \in Sessions \cup {Unset} /\ retired \in Ring /\ net \in Nets /\ asked \subseteq bonded
      /\ opener \in Sessions \cup {Unset} /\ started \in BOOLEAN
      /\ bootEpoch \in 1 .. MaxEpochs /\ sky \subseteq SkyFrames
  BY <1>0, SetupTypesNamed
<1>2. /\ heard => owner # Unset /\ serves = {} /\ started /\ cancelled = Unset
                 /\ ~net.window /\ asked = {}
      /\ serves # {} => ~heard /\ owner # Unset /\ cancelled = Unset
  BY DEF SetupInv, AskedByOwner, Observes, WindowHasAp
<1> HIDE DEF heard, serves
<1>3. /\ retired' \in Ring
      /\ \A t \in Sessions :
           retired'[t] = IF heard /\ t = owner /\ HasNumber(t) THEN "closed" ELSE retired[t]
  <2>1. CASE heard
    <3>1. retired' = Retire(retired, owner, "closed") /\ owner \in Sessions
      BY <2>1, <1>0, <1>1, <1>2
    <3>2. "closed" \in Statuses
      BY DEF Statuses
    <3> QED BY <2>1, <3>1, <3>2, <1>1, RetireIs
  <2>2. CASE ~heard
    BY <2>2, <1>0, <1>1
  <2> QED BY <2>1, <2>2
<1>4. net' \in Nets /\ (net'.window => net'.ap) /\ (serves = {} => net' = net)
  BY <1>0, <1>1, BeginIs DEF SetupInv, WindowHasAp
<1>5. SetupTypeOK'
  <2>1. started' \in BOOLEAN /\ asked' \subseteq bonded /\ opener' \in Sessions \cup {Unset}
    BY <1>0, <1>1
  <2>2. cancelled' \in Statuses \cup {Unset}
    BY <1>0, StatusesAre DEF SetupTypeOK, Over
  <2> QED BY <1>0, <1>3, <1>4, <2>1, <2>2 DEF SetupTypeOK, Ring, Nets
<1>6. SetupFrames' /\ WindowHasAp'
  BY <1>0, <1>4 DEF SetupInv, SetupFrames, WindowHasAp
<1>7. OwnerIsCurrent'
  BY <1>0, <1>1, <1>3 DEF SetupInv, OwnerIsCurrent
<1>8. AskedByOwner'
  BY <1>0, <1>2 DEF SetupInv, AskedByOwner
<1>9. Unnumbered'
  BY <1>3 DEF SetupInv, Unnumbered
<1>10. StartedIsOpener'
  BY <1>0, <1>2, StatusesAre DEF SetupInv, StartedIsOpener
\* What the owner is served for is not over.
<1>11. serves # {} =>
         /\ retired[owner] = Unset
         /\ \A e \in 1 .. MaxEpochs : <<owner, e, "ended">> \notin answers
  <2> SUFFICES ASSUME serves # {}
               PROVE  /\ retired[owner] = Unset
                      /\ \A e \in 1 .. MaxEpochs : <<owner, e, "ended">> \notin answers
    OBVIOUS
  <2>1. owner \in Sessions /\ cancelled = Unset /\ retired[owner] = Unset
    BY <1>1, <1>2 DEF SetupInv, OwnerIsCurrent, Unnumbered
  <2>2. ASSUME NEW e \in 1 .. MaxEpochs, <<owner, e, "ended">> \in answers
        PROVE  FALSE
    <3>1. PICK c \in sky : c.kind = "cancel" /\ c.session = owner /\ c.epoch = e
      BY <2>1, <2>2 DEF SetupInv, AnswersHold
    <3>2. HasNumber(owner)
      BY <3>1 DEF SetupInv, SetupFrames
    <3>3. PICK r \in sky : r.kind = "setup" /\ r.session = owner /\ r.epoch = bootEpoch
      BY <2>1, <1>2, <3>2 DEF SetupInv, OwnerIsCurrent
    <3>4. bootEpoch <= e /\ e <= bootEpoch
      BY <3>1, <3>3 DEF SetupInv, SetupFrames
    <3>5. e = bootEpoch
      BY <3>4, <1>1, <2>2, SetupAssumption
    <3>6. retired[owner] \notin Going
      BY <2>1, <2>2, <3>5, <1>2 DEF SetupInv, AnswersHold, OwnerIsCurrent
    <3> QED BY <3>6, <2>1 DEF Going
  <2> QED BY <2>1, <2>2
<1>12. \A s \in Sessions : Opened(s)' => (serves = {} /\ Opened(s)) \/ (serves # {} /\ s = owner)
  BY <1>0, <1>4 DEF Opened
<1>13. OverIsClosed'
  <2>1. ASSUME NEW s \in Sessions, retired'[s] \in Over, Opened(s)'
        PROVE  FALSE
    <3>1. CASE serves # {}
      BY <3>1, <2>1, <1>2, <1>3, <1>11, <1>12, StatusesAre DEF Going
    <3>2. CASE serves = {}
      <4>1. Opened(s) /\ ~heard
        BY <3>2, <2>1, <1>12, <1>2 DEF Opened
      <4> QED BY <4>1, <2>1, <1>3 DEF SetupInv, OverIsClosed
    <3> QED BY <3>1, <3>2
  <2> QED BY <2>1 DEF OverIsClosed
<1>14. OpenerOwns'
  <2>1. CASE serves # {}
    BY <2>1, <1>0 DEF OpenerOwns
  <2>2. CASE serves = {}
    BY <2>2, <1>0, <1>1, <1>3, StatusesAre DEF SetupInv, OpenerOwns
  <2> QED BY <2>1, <2>2
<1>15. AnswersHold'
  <2>1. ASSUME NEW s \in Sessions, NEW e \in 1 .. MaxEpochs, <<s, e, "ended">> \in answers'
        PROVE  /\ \E f \in sky' : f.kind = "cancel" /\ f.session = s /\ f.epoch = e
               /\ e = bootEpoch' /\ Dial(s) \in bonded' => retired'[s] \notin Going
               /\ ~Opened(s)'
    <3>1. /\ \E f \in sky : f.kind = "cancel" /\ f.session = s /\ f.epoch = e
          /\ e = bootEpoch /\ Dial(s) \in bonded => retired[s] \notin Going
          /\ ~Opened(s)
      BY <2>1, <1>0 DEF SetupInv, AnswersHold
    <3>2. ~Opened(s)'
      BY <3>1, <2>1, <1>0, <1>11, <1>12
    <3> QED BY <3>1, <3>2, <1>0, <1>3, StatusesAre
  <2> QED BY <2>1 DEF AnswersHold
<1> QED BY <1>5, <1>6, <1>7, <1>8, <1>9, <1>10, <1>13, <1>14, <1>15 DEF SetupInv

\* What a cancel finds: a session of this boot whose network may be gone, the
\* ring brought up to date, and what becomes of the network.
LEMMA CancelIs ==
  ASSUME SetupInv, NEW s \in Sessions, HasNumber(s), Dial(s) \in bonded, CancelSession(s)
  PROVE  \E over \in Statuses \cup {Unset}, runs \in BOOLEAN, was \in Ring, status \in Statuses :
           /\ runs => started
           /\ over # cancelled => over = "closed" /\ ~net.window /\ owner # Unset /\ asked = {}
           /\ ~runs /\ started => over = "closed" /\ ~net.window /\ owner # Unset
           /\ \A t \in Sessions : was[t] # retired[t] =>
                t = owner /\ HasNumber(t) /\ was[t] = "closed" /\ ~net.window
           /\ owner # Unset /\ HasNumber(owner) => was[owner] = over
           /\ \A t \in Sessions : retired'[t] = IF t = s THEN status ELSE was[t]
           /\ retired' \in Ring
           /\ started' = runs /\ cancelled' = IF owner = s THEN status ELSE over
           /\ asked' = IF owner = s THEN asked \ {Dial(s)} ELSE asked
           /\ answers' = Answered(s, status)
           /\ net' # net => /\ owner = s /\ runs /\ net.window /\ net' \in Nets /\ ~net'.window
           /\ status = "waiting" => owner = s /\ runs /\ over \in Going
           /\ status \in Over => ~(net'.window /\ opener = s)
<1> DEFINE ap    == IF net.ap THEN "recovery" ELSE "closed"
           heard == ~net.ap /\ Observes
           over  == IF heard THEN "closed" ELSE cancelled
           runs  == started /\ ~heard
           was   == IF heard THEN Retire(retired, owner, "closed") ELSE retired
           mine  == owner = s
           foreign == owner # Unset /\ ~mine /\ over \in {Unset, "waiting"}
           ended == mine /\ over \notin {Unset, "waiting"}
           past  == ~foreign /\ ~ended /\ was[s] \notin {Unset, "waiting"}
           call  == ~past /\ ~ended /\ mine /\ runs
           status == CASE foreign -> "stale"
                       [] ended -> Terminal(over, ap)
                       [] past -> Terminal(was[s], ap)
                       [] call -> CancelledWindow(net).status
                       [] OTHER -> ap
<1>1. /\ net' = IF call THEN CancelledWindow(net).net ELSE net
      /\ started' = runs
      /\ cancelled' = IF mine THEN status ELSE over
      /\ asked' = IF mine THEN asked \ {Dial(s)} ELSE asked
      /\ retired' = Retire(was, s, status)
      /\ answers' = Answered(s, status)
  BY DEF CancelSession
<1>2. /\ owner \in Sessions \cup {Unset} /\ retired \in Ring /\ net \in Nets /\ asked \subseteq bonded
      /\ opener \in Sessions \cup {Unset} /\ started \in BOOLEAN
      /\ cancelled \in Statuses \cup {Unset}
      /\ net.window => net.ap
  BY SetupTypesNamed DEF SetupInv, WindowHasAp
<1>3. heard => owner # Unset /\ started /\ cancelled = Unset /\ ~net.window /\ asked = {}
  BY <1>2 DEF SetupInv, AskedByOwner, Observes
<1>4. ap \in Over
  BY DEF Over
<1> HIDE DEF heard, ap
<1>5. /\ was \in Ring
      /\ \A t \in Sessions :
           was[t] = IF heard /\ t = owner /\ HasNumber(t) THEN "closed" ELSE retired[t]
  <2>1. CASE heard
    <3>0. owner \in Sessions /\ retired \in Ring
      BY <2>1, <1>2, <1>3
    <3>1. was = Retire(retired, owner, "closed")
      BY <2>1
    <3>2. "closed" \in Statuses
      BY DEF Statuses
    <3>3. /\ Retire(retired, owner, "closed") \in Ring
          /\ \A t \in Sessions :
               Retire(retired, owner, "closed")[t] =
                 IF t = owner /\ HasNumber(t) THEN "closed" ELSE retired[t]
      BY <3>0, <3>2, RetireIs
    <3> HIDE DEF was
    <3> QED BY <2>1, <3>1, <3>3
  <2>2. CASE ~heard
    BY <2>2, <1>2
  <2> QED BY <2>1, <2>2
<1>6. over \in Statuses \cup {Unset} /\ runs \in BOOLEAN
  <2>1. runs \in BOOLEAN
    OBVIOUS
  <2>2. over \in Statuses \cup {Unset}
    <3>1. "closed" \in Statuses
      BY DEF Statuses
    <3>2. over = "closed" \/ over = cancelled
      OBVIOUS
    <3>3. cancelled \in Statuses \cup {Unset}
      BY <1>2
    <3> HIDE DEF over
    <3> QED BY <3>1, <3>2, <3>3
  <2> QED BY <2>1, <2>2
<1>7. owner # Unset /\ HasNumber(owner) => was[owner] = over
  BY <1>2, <1>5 DEF SetupInv, OwnerIsCurrent
<1>8. was[s] \in Statuses \cup {Unset}
  BY <1>5 DEF Ring
<1> HIDE DEF over, was, runs
<1>9. /\ foreign => status = "stale"
      /\ ended => status = Terminal(over, ap)
      /\ past => status = Terminal(was[s], ap)
      /\ call => status = CancelledWindow(net).status
      /\ ~foreign /\ ~ended /\ ~past /\ ~call => status = ap
  BY StatusesAre
<1> HIDE DEF status
<1>10. status \in Statuses /\ (status = "waiting" => call)
  <2>1. ASSUME NEW old \in Statuses \cup {Unset}, old \notin {Unset, "waiting"}
        PROVE  /\ Terminal(old, ap) \in Statuses \ {"waiting"}
               /\ Terminal(old, ap) \in Over => old \in Over
    BY <2>1, <1>4, StatusesAre DEF Terminal, Over
  <2> QED BY <2>1, <1>2, <1>4, <1>6, <1>8, <1>9, CancelledIs, StatusesAre DEF Over
<1>11. call => over \in Going /\ runs /\ mine
  BY DEF Going
<1>12. net' # net => mine /\ runs /\ net.window /\ net' \in Nets /\ ~net'.window
  <2>1. ASSUME net' # net PROVE call /\ net' = CancelledWindow(net).net
    BY <2>1, <1>1
  <2> QED BY <2>1, <1>2, <1>11, CancelledIs
<1>13. net'.window => net.window /\ net' = net
  BY <1>12
\* An answer that is final is given to a session whose window is not open.
<1>14. ASSUME status \in Over, net'.window, opener = s
       PROVE  FALSE
  <2>0. net.window /\ net' = net /\ ~heard /\ over = cancelled /\ was[s] = retired[s]
    BY <1>13, <1>14, <1>3, <1>5 DEF over
  <2>1. CASE ended
    <3>1. retired[s] = cancelled /\ cancelled \in Over
      BY <2>1, <2>0, <1>7, <1>9, <1>14, <1>2, StatusesAre DEF Terminal, Over
    <3> QED BY <3>1, <2>0, <1>14 DEF SetupInv, OverIsClosed, Opened
  <2>2. CASE past
    <3>1. retired[s] \in Over
      BY <2>2, <2>0, <1>8, <1>9, <1>14, StatusesAre DEF Terminal, Over
    <3> QED BY <3>1, <2>0, <1>14 DEF SetupInv, OverIsClosed, Opened
  <2>3. CASE call
    <3>1. status # "waiting"
      BY <1>14, StatusesAre DEF Over
    <3> QED BY <3>1, <2>3, <1>1, <1>2, <1>9, <1>14, CancelledIs
  <2>4. CASE foreign
    BY <2>4, <1>9, <1>14 DEF Over
  <2>5. CASE ~foreign /\ ~ended /\ ~past /\ ~call
    <3>1. retired[s] \in Going
      BY <2>5, <2>0 DEF Going
    <3>2. mine
      BY <3>1, <1>14, StatusesAre DEF SetupInv, OpenerOwns
    <3>3. ~started /\ cancelled \in Going
      BY <2>5, <2>0, <3>2 DEF runs, Going
    <3> QED BY <3>2, <3>3, <1>14, StatusesAre DEF SetupInv, StartedIsOpener
  <2> QED BY <2>1, <2>2, <2>3, <2>4, <2>5
<1>15. \A t \in Sessions : retired'[t] = IF t = s THEN status ELSE was[t]
  BY <1>1, <1>5, <1>10, RetireIs
<1>16. retired' \in Ring
  BY <1>1, <1>5, <1>10, RetireIs
<1>17. /\ runs => started
       /\ over # cancelled => over = "closed" /\ ~net.window /\ owner # Unset /\ asked = {}
       /\ ~runs /\ started => over = "closed" /\ ~net.window /\ owner # Unset
       /\ \A t \in Sessions : was[t] # retired[t] =>
            t = owner /\ HasNumber(t) /\ was[t] = "closed" /\ ~net.window
  BY <1>3, <1>5 DEF runs, over
<1> HIDE DEF foreign, ended, past, call
<1>18. /\ owner # Unset /\ HasNumber(owner) => was[owner] = over
       /\ started' = runs /\ cancelled' = IF owner = s THEN status ELSE over
       /\ asked' = IF owner = s THEN asked \ {Dial(s)} ELSE asked
       /\ answers' = Answered(s, status)
       /\ net' # net => /\ owner = s /\ runs /\ net.window /\ net' \in Nets /\ ~net'.window
       /\ status = "waiting" => owner = s /\ runs /\ over \in Going
       /\ status \in Over => ~(net'.window /\ opener = s)
  BY <1>1, <1>7, <1>10, <1>11, <1>12, <1>14
<1> QED BY <1>5, <1>6, <1>10, <1>15, <1>16, <1>17, <1>18


\* A cancel: what it answers for good has no window open, and stays retired.
LEMMA ReceiveCancelKeeps ==
  ASSUME SetupInv, NEW f \in sky, ReceiveCancel(f)
  PROVE  SetupInv'
<1> DEFINE s == f.session
<1>0. /\ SetupTypeOK /\ s \in Sessions /\ HasNumber(s) /\ Dial(s) \in bonded
      /\ f.kind = "cancel" /\ f.session = s /\ f.epoch = bootEpoch
      /\ CancelSession(s) /\ UNCHANGED <<bonded, owner, bootEpoch, sky, opener>>
      /\ owner \in Sessions \cup {Unset} /\ opener \in Sessions \cup {Unset}
      /\ retired \in Ring /\ net \in Nets /\ asked \subseteq bonded
      /\ bootEpoch \in 1 .. MaxEpochs /\ answers \subseteq Finals
  BY SetupTypesNamed DEF SetupInv, SetupFrames, ReceiveCancel, EpochOk, SkyFrames
<1> HIDE DEF s
<1>1. PICK over \in Statuses \cup {Unset}, runs \in BOOLEAN, was \in Ring, status \in Statuses :
           /\ runs => started
           /\ over # cancelled => over = "closed" /\ ~net.window /\ owner # Unset /\ asked = {}
           /\ ~runs /\ started => over = "closed" /\ ~net.window /\ owner # Unset
           /\ \A t \in Sessions : was[t] # retired[t] =>
                t = owner /\ HasNumber(t) /\ was[t] = "closed" /\ ~net.window
           /\ owner # Unset /\ HasNumber(owner) => was[owner] = over
           /\ \A t \in Sessions : retired'[t] = IF t = s THEN status ELSE was[t]
           /\ retired' \in Ring
           /\ started' = runs /\ cancelled' = IF owner = s THEN status ELSE over
           /\ asked' = IF owner = s THEN asked \ {Dial(s)} ELSE asked
           /\ answers' = Answered(s, status)
           /\ net' # net => /\ owner = s /\ runs /\ net.window /\ net' \in Nets /\ ~net'.window
           /\ status = "waiting" => owner = s /\ runs /\ over \in Going
           /\ status \in Over => ~(net'.window /\ opener = s)
  BY <1>0, CancelIs
<1>2. /\ net' \in Nets /\ (net'.window => net.window /\ net' = net)
      /\ \A t \in Sessions : Opened(t)' => Opened(t)
  BY <1>0, <1>1 DEF Opened
<1>3. answers' \subseteq Finals /\ answers \subseteq answers'
      /\ \A t \in Sessions, e \in 1 .. MaxEpochs :
           <<t, e, "ended">> \in answers' \ answers =>
             t = s /\ e = bootEpoch /\ status \in Over
  <2>1. CASE status = "waiting"
    BY <2>1, <1>0, <1>1 DEF Answered
  <2>2. CASE status = "stale"
    BY <2>2, <1>0, <1>1 DEF Answered, Finals
  <2>3. CASE status \in Over
    BY <2>3, <1>0, <1>1 DEF Answered, Finals, Over
  <2> QED BY <2>1, <2>2, <2>3, <1>1, StatusesAre
<1>4. SetupTypeOK'
  <2>1. started' \in BOOLEAN /\ cancelled' \in Statuses \cup {Unset} /\ asked' \subseteq bonded
    BY <1>0, <1>1
  <2> QED BY <2>1, <1>0, <1>1, <1>2, <1>3 DEF SetupTypeOK, Ring, Nets, Finals
<1>5. SetupFrames' /\ WindowHasAp'
  BY <1>0, <1>2 DEF SetupInv, SetupFrames, WindowHasAp
<1>6. OwnerIsCurrent'
  <2>1. owner # Unset /\ HasNumber(owner) => retired'[owner] = cancelled'
    BY <1>0, <1>1
  <2> QED BY <2>1, <1>0 DEF SetupInv, OwnerIsCurrent
<1>7. AskedByOwner'
  BY <1>0, <1>1 DEF SetupInv, AskedByOwner
<1>8. Unnumbered'
  BY <1>0, <1>1 DEF SetupInv, Unnumbered
<1>9. StartedIsOpener'
  <2>1. ASSUME owner # Unset, started' PROVE opener = owner
    BY <2>1, <1>1 DEF SetupInv, StartedIsOpener
  <2>2. ASSUME owner # Unset, HasNumber(owner), ~started', cancelled' \in Going
        PROVE  opener # owner
    <3>1. CASE owner = s
      <4>1. status \in Going /\ status \notin {"stale", "closed", "recovery"} /\ ~runs
        BY <3>1, <2>2, <1>1, StatusesAre
      <4>2. status = "waiting"
        BY <4>1, <1>1, StatusesAre DEF Over
      <4> QED BY <4>1, <4>2, <1>1
    <3>2. CASE owner # s
      <4>1. over \in Going /\ ~runs /\ over # "closed"
        BY <3>2, <2>2, <1>1, StatusesAre
      <4>2. ~started /\ over = cancelled
        BY <4>1, <1>1
      <4> QED BY <4>1, <4>2, <2>2 DEF SetupInv, StartedIsOpener
    <3> QED BY <3>1, <3>2
  <2> QED BY <2>1, <2>2, <1>0 DEF StartedIsOpener
<1>10. OverIsClosed'
  <2>1. ASSUME NEW t \in Sessions, retired'[t] \in Over, Opened(t)'
        PROVE  FALSE
    <3>1. CASE t = s
      BY <3>1, <2>1, <1>0, <1>1 DEF Opened
    <3>2. CASE t # s
      BY <3>2, <2>1, <1>1, <1>2 DEF SetupInv, OverIsClosed, Opened
    <3> QED BY <3>1, <3>2
  <2> QED BY <2>1 DEF OverIsClosed
<1>11. OpenerOwns'
  <2>1. ASSUME opener # Unset, HasNumber(opener), Dial(opener) \in bonded, retired'[opener] \in Going
        PROVE  owner = opener
    <3>1. CASE opener = s
      <4>1. status = "waiting"
        BY <3>1, <2>1, <1>0, <1>1, StatusesAre DEF Over
      <4> QED BY <4>1, <3>1, <1>1
    <3>2. CASE opener # s
      <4>1. opener \in Sessions /\ retired'[opener] = was[opener] /\ was[opener] # "closed"
        BY <3>2, <2>1, <1>0, <1>1, StatusesAre
      <4>2. retired[opener] \in Going
        BY <4>1, <2>1, <1>1
      <4> QED BY <4>2, <2>1 DEF SetupInv, OpenerOwns
    <3> QED BY <3>1, <3>2
  <2> QED BY <2>1, <1>0 DEF OpenerOwns
<1>12. AnswersHold'
  <2>1. ASSUME NEW t \in Sessions, NEW e \in 1 .. MaxEpochs, <<t, e, "ended">> \in answers'
        PROVE  /\ \E g \in sky' : g.kind = "cancel" /\ g.session = t /\ g.epoch = e
               /\ e = bootEpoch' /\ Dial(t) \in bonded' => retired'[t] \notin Going
               /\ ~Opened(t)'
    <3>1. CASE <<t, e, "ended">> \in answers
      <4>1. /\ \E g \in sky : g.kind = "cancel" /\ g.session = t /\ g.epoch = e
            /\ e = bootEpoch /\ Dial(t) \in bonded => retired[t] \notin Going
            /\ ~Opened(t)
        BY <3>1 DEF SetupInv, AnswersHold
      <4>2. ASSUME e = bootEpoch, Dial(t) \in bonded PROVE retired'[t] \notin Going
        <5>1. CASE t # s
          <6>1. retired'[t] = was[t] /\ (was[t] = retired[t] \/ was[t] = "closed")
            BY <5>1, <1>1
          <6> QED BY <6>1, <4>1, <4>2, StatusesAre
        <5>2. CASE t = s /\ status # "waiting"
          BY <5>2, <1>1, StatusesAre DEF Over
        <5>3. CASE t = s /\ status = "waiting"
          <6>1. owner = s /\ over \in Going /\ over # "closed"
            BY <5>3, <1>1, StatusesAre
          <6>2. retired[s] = over
            <7>1. owner # Unset /\ HasNumber(owner) /\ over = cancelled
              BY <6>1, <1>0, <1>1, StatusesAre
            <7> QED BY <7>1, <6>1 DEF SetupInv, OwnerIsCurrent
          <6> QED BY <6>1, <6>2, <5>3, <4>1, <4>2
        <5> QED BY <5>1, <5>2, <5>3
      <4> QED BY <4>1, <4>2, <1>0, <1>2
    <3>2. CASE <<t, e, "ended">> \notin answers
      <4>1. t = s /\ e = bootEpoch /\ status \in Over
        BY <3>2, <2>1, <1>3
      <4>2. retired'[s] = status /\ status \notin Going /\ ~(net'.window /\ opener = s)
        BY <4>1, <1>0, <1>1, StatusesAre
      <4> QED BY <4>1, <4>2, <1>0 DEF Opened
    <3> QED BY <3>1, <3>2
  <2> QED BY <2>1 DEF AnswersHold
<1> QED BY <1>4, <1>5, <1>6, <1>7, <1>8, <1>9, <1>10, <1>11, <1>12 DEF SetupInv

\* A dial that is forgotten is not heard again, so what the ring forgets with
\* it cannot come back.
LEMMA ForgetKeeps ==
  ASSUME SetupInv, NEW d \in Heads, ForgetDial(d)
  PROVE  SetupInv'
<1>0. /\ SetupTypeOK /\ d \in bonded /\ bonded' = bonded \ {d} /\ asked' = asked \ {d}
      /\ owner' = IF owner # Unset /\ Dial(owner) = d THEN Unset ELSE owner
      /\ retired' = [s \in Sessions |-> IF Dial(s) = d THEN Unset ELSE retired[s]]
      /\ UNCHANGED <<started, cancelled, net, bootEpoch, sky, opener, answers>>
      /\ owner \in Sessions \cup {Unset} /\ opener \in Sessions \cup {Unset}
      /\ retired \in Ring /\ asked \subseteq bonded
  BY SetupTypesNamed DEF SetupInv, ForgetDial
<1>1. /\ \A t \in Sessions : retired'[t] = IF Dial(t) = d THEN Unset ELSE retired[t]
      /\ retired' \in [Sessions -> Statuses \cup {Unset}]
  BY <1>0 DEF Ring
<1>2. SetupTypeOK'
  BY <1>0, <1>1 DEF SetupTypeOK
<1>3. SetupFrames' /\ WindowHasAp'
  BY <1>0 DEF SetupInv, SetupFrames, WindowHasAp
<1>4. OwnerIsCurrent'
  BY <1>0, <1>1 DEF SetupInv, OwnerIsCurrent
<1>5. AskedByOwner'
  BY <1>0 DEF SetupInv, AskedByOwner
<1>6. Unnumbered' /\ StartedIsOpener'
  BY <1>0, <1>1 DEF SetupInv, Unnumbered, StartedIsOpener
<1>7. OverIsClosed'
  BY <1>0, <1>1, StatusesAre DEF SetupInv, OverIsClosed, Opened, Over, Going
<1>8. OpenerOwns'
  <2>1. ASSUME opener # Unset, HasNumber(opener), Dial(opener) \in bonded', retired'[opener] \in Going
        PROVE  owner' = opener
    BY <2>1, <1>0, <1>1 DEF SetupInv, OpenerOwns
  <2> QED BY <2>1, <1>0 DEF OpenerOwns
<1>9. AnswersHold'
  BY <1>0, <1>1 DEF SetupInv, AnswersHold, Opened
<1> QED BY <1>2, <1>3, <1>4, <1>5, <1>6, <1>7, <1>8, <1>9 DEF SetupInv

\* A restart forgets the sessions: their requests carry an epoch that is past.
LEMMA RebootKeeps ==
  ASSUME SetupInv, Reboot
  PROVE  SetupInv'
<1>0. /\ SetupTypeOK /\ bootEpoch \in 1 .. MaxEpochs /\ bootEpoch' = bootEpoch + 1
      /\ bootEpoch' \in 1 .. MaxEpochs /\ sky \subseteq SkyFrames /\ answers \subseteq Finals
      /\ owner' = Unset /\ started' = FALSE /\ cancelled' = Unset /\ asked' = {} /\ opener' = Unset
      /\ retired' = [s \in Sessions |-> Unset]
      /\ UNCHANGED <<bonded, sky, answers>>
  BY SetupTypesNamed, SetupAssumption DEF SetupInv, Reboot
<1>1. net' \in Nets /\ ~net'.window
  <2>1. PICK online \in BOOLEAN :
          net' = [ap |-> ~online, window |-> FALSE, reprovisioned |-> FALSE, trial |-> FALSE,
                  online |-> online]
    BY DEF Reboot
  <2>2. (~online) \in BOOLEAN
    OBVIOUS
  <2> QED BY <2>1, <2>2 DEF Nets
<1>2. SetupTypeOK'
  BY <1>0, <1>1 DEF SetupTypeOK, Nets
<1>3. SetupFrames'
  <2>1. \A f \in sky : f.epoch <= bootEpoch'
    BY <1>0 DEF SetupInv, SetupFrames, SkyFrames
  <2> QED BY <2>1, <1>0 DEF SetupInv, SetupFrames
<1>4. OwnerIsCurrent' /\ AskedByOwner' /\ StartedIsOpener' /\ OpenerOwns'
  BY <1>0 DEF OwnerIsCurrent, AskedByOwner, StartedIsOpener, OpenerOwns
<1>5. Unnumbered' /\ WindowHasAp' /\ OverIsClosed'
  BY <1>0, <1>1 DEF Unnumbered, WindowHasAp, OverIsClosed, Opened
<1>6. AnswersHold'
  <2>1. ASSUME NEW s \in Sessions, NEW e \in 1 .. MaxEpochs, <<s, e, "ended">> \in answers
        PROVE  /\ \E f \in sky : f.kind = "cancel" /\ f.session = s /\ f.epoch = e
               /\ e # bootEpoch'
    <3>1. PICK f \in sky : f.kind = "cancel" /\ f.session = s /\ f.epoch = e
      BY <2>1 DEF SetupInv, AnswersHold
    <3>2. e <= bootEpoch
      BY <3>1 DEF SetupInv, SetupFrames
    <3> QED BY <3>1, <3>2, <1>0
  <2> QED BY <2>1, <1>0, <1>1 DEF AnswersHold, Opened
<1> QED BY <1>1, <1>2, <1>3, <1>4, <1>5, <1>6 DEF SetupInv

-----------------------------------------------------------------------------
(* The theorems *)

LEMMA SetupStart == SetupInit => SetupInv
<1> SUFFICES ASSUME SetupInit PROVE SetupInv
  OBVIOUS
<1>0. /\ owner = Unset /\ started = FALSE /\ cancelled = Unset /\ asked = {} /\ opener = Unset
      /\ retired = [s \in Sessions |-> Unset] /\ sky = {} /\ answers = {}
      /\ bonded = Heads /\ bootEpoch = 1 /\ bootEpoch \in 1 .. MaxEpochs
  BY SetupAssumption DEF SetupInit
<1>1. net \in Nets /\ ~net.window
  <2>1. PICK online \in BOOLEAN :
          net = [ap |-> ~online, window |-> FALSE, reprovisioned |-> FALSE, trial |-> FALSE,
                 online |-> online]
    BY DEF SetupInit
  <2>2. (~online) \in BOOLEAN
    OBVIOUS
  <2> QED BY <2>1, <2>2 DEF Nets
<1>2. SetupTypeOK
  BY <1>0, <1>1 DEF SetupTypeOK, Nets
<1>3. /\ SetupFrames /\ OwnerIsCurrent /\ AskedByOwner /\ Unnumbered /\ WindowHasAp
      /\ StartedIsOpener /\ OverIsClosed /\ OpenerOwns /\ AnswersHold
  BY <1>0, <1>1 DEF SetupFrames, OwnerIsCurrent, AskedByOwner, Unnumbered, WindowHasAp, StartedIsOpener,
                    OverIsClosed, OpenerOwns, AnswersHold, Opened
<1> QED BY <1>2, <1>3 DEF SetupInv

LEMMA SetupStep == SetupInv /\ [SetupNext]_setupVars => SetupInv'
<1> SUFFICES ASSUME SetupInv, [SetupNext]_setupVars PROVE SetupInv'
  OBVIOUS
<1>1. CASE \E f \in sky : ReceiveSetup(f) \/ ReceiveCancel(f)
  BY <1>1, ReceiveSetupKeeps, ReceiveCancelKeeps
<1>2. CASE \E d \in Heads : ForgetDial(d)
  BY <1>2, ForgetKeeps
<1>3. CASE \E s \in Sessions : AskSetup(s) \/ AskCancel(s)
  BY <1>3, SendKeeps
<1>4. CASE \E live \in (SUBSET bonded) \ {{}} : Loop(live)
  BY <1>4, LoopKeeps
<1>5. CASE Recover \/ Submit \/ TrialEnds \/ Weather \/ WindowExpires \/ Completes
  BY <1>5, NetworkStepKeeps
<1>6. CASE Reboot
  BY <1>6, RebootKeeps
<1>7. CASE UNCHANGED setupVars
  BY <1>7 DEF SetupInv, SetupTypeOK, SetupFrames, OwnerIsCurrent, AskedByOwner, Unnumbered,
              WindowHasAp, StartedIsOpener, OverIsClosed, OpenerOwns, AnswersHold, Opened,
              setupVars, linkVars
<1> QED BY <1>1, <1>2, <1>3, <1>4, <1>5, <1>6, <1>7 DEF SetupNext

LEMMA SetupInvHolds == SetupSpec => []SetupInv
<1> QED BY SetupStart, SetupStep, PTL DEF SetupSpec

\* sl2_link.c: a session whose cancel was answered for good holds the setup
\* window no more, whichever of its frames arrive late or again, whoever takes
\* the setup over, and however often the device restarts.
THEOREM CancelStays == SetupSpec => []CancelIsFinal
<1>1. SetupInv => CancelIsFinal
  BY DEF SetupInv, AnswersHold, CancelIsFinal, Opened
<1> QED BY <1>1, SetupInvHolds, PTL

\* sl2_link.c wifi_cancel(): a cancel ends the window its own session has
\* opened, and leaves every other, and an access point for recovery, alone.
THEOREM CancelIsForItsOwn == SetupSpec => CancelsItsOwn
<1>1. ASSUME SetupInv, NEW f \in sky, ReceiveCancel(f), net' # net
      PROVE  net.window /\ opener = f.session
  <2>1. /\ f.session \in Sessions /\ HasNumber(f.session) /\ Dial(f.session) \in bonded
        /\ CancelSession(f.session)
    BY <1>1, SetupTypesNamed DEF SetupInv, SetupFrames, ReceiveCancel, EpochOk, SkyFrames
  <2>2. net.window /\ owner = f.session /\ started
    BY <2>1, <1>1, CancelIs
  <2>3. owner # Unset
    BY <2>1, <2>2, StatusesAre
  <2>4. opener = owner
    BY <1>1, <2>2, <2>3 DEF SetupInv, StartedIsOpener
  <2> QED BY <2>2, <2>4
<1>2. SetupInv =>
        \A f \in sky : ReceiveCancel(f) => (net' # net => net.window /\ opener = f.session)
  BY <1>1
<1>3. SetupInv /\ [SetupNext]_setupVars =>
        [\A f \in sky : ReceiveCancel(f) => (net' # net => net.window /\ opener = f.session)]_setupVars
  BY <1>2
<1> QED BY <1>3, SetupInvHolds, PTL DEF SetupSpec, CancelsItsOwn

---------------------------------------------------------------------------
(***************************************************************************)
(* Console                                                                 *)
(***************************************************************************)

\* The REPL never gives the driver back; Improv's task owns it at most while
\* it lives, and reads from the console exactly as long.
DriverUsers ==
  /\ driver = "repl" <=> repl \in {"probing", "up"}
  /\ driver = "improv" => improv.alive
  /\ improv.alive => driver # "nobody"
  /\ improv.hears = improv.alive

ConInv == ConTypeOK /\ DriverUsers /\ NeverLockedOut

\* At boot neither user runs (espnow_link.cpp 1366-1368, improv_serial.cpp 387-388).
LEMMA ConInitInv == ConInit => ConInv
BY DEF ConInit, ConInv, ConTypeOK, DriverUsers, NeverLockedOut, Users

\* improv_serial_start(): with no task and no handle, the driver is free or the REPL's.
LEMMA StartedKeeps ==
  ASSUME ConInv, NEW created \in BOOLEAN, ImprovStarted(created), UNCHANGED repl,
         consoleNet' \in [wifi: BOOLEAN, ap: BOOLEAN, host: BOOLEAN]
  PROVE  ConInv'
<1>1. CASE Refused \/ ~created
  BY <1>1 DEF ImprovStarted, ConInv, ConTypeOK, DriverUsers, NeverLockedOut, Users
<1>2. CASE ~(Refused \/ ~created)
  <2>1. /\ driver' = IF driver = "nobody" THEN "improv" ELSE driver
        /\ improv' = [handle |-> TRUE, alive |-> TRUE, stop |-> FALSE, busy |-> FALSE, hears |-> TRUE]
        /\ ~improv.alive
    BY <1>2 DEF ImprovStarted, Refused
  <2> QED BY <2>1 DEF ConInv, ConTypeOK, DriverUsers, NeverLockedOut, Users
<1> QED BY <1>1, <1>2

\* Each step of the two users and of what is around them keeps the driver's
\* user alive (improv_serial.cpp 345-489, espnow_link.cpp 1370-1392).
LEMMA ConStep == ConInv /\ [ConNext]_conVars => ConInv'
<1> SUFFICES ASSUME ConInv, [ConNext]_conVars PROVE ConInv'
  OBVIOUS
<1> USE DEF ConInv
<1>1. CASE ReplGate
  BY <1>1 DEF ReplGate, ConTypeOK, DriverUsers, NeverLockedOut
<1>2. CASE ReplInstall
  BY <1>2 DEF ReplInstall, ConTypeOK, DriverUsers, NeverLockedOut, Users
<1>3. CASE ReplUp
  BY <1>3 DEF ReplUp, ConTypeOK, DriverUsers, NeverLockedOut
<1>4. CASE ApUp
  <2>1. PICK created \in BOOLEAN : ImprovStarted(created)
    BY <1>4 DEF ApUp
  <2> QED BY <1>4, <2>1, StartedKeeps DEF ApUp, ConTypeOK
<1>5. CASE ApDown
  BY <1>5 DEF ApDown, Stopping, LeftToTask, ConTypeOK, DriverUsers, NeverLockedOut
<1>6. CASE CommandTaken
  BY <1>6 DEF CommandTaken, ConTypeOK, DriverUsers, NeverLockedOut
<1>7. CASE CommandDone
  BY <1>7 DEF CommandDone, ConTypeOK, DriverUsers, NeverLockedOut
<1>8. CASE ImprovExit
  BY <1>8 DEF ImprovExit, ConTypeOK, DriverUsers, NeverLockedOut, Users
<1>9. CASE Surroundings
  BY <1>9 DEF Surroundings, ConTypeOK, DriverUsers, NeverLockedOut
<1>10. CASE UNCHANGED conVars
  BY <1>10 DEF conVars, ConTypeOK, DriverUsers, NeverLockedOut
<1> QED
  BY <1>1, <1>2, <1>3, <1>4, <1>5, <1>6, <1>7, <1>8, <1>9, <1>10 DEF ConNext

\* However often the recovery AP comes and goes, whatever outlives the wait of
\* improv_serial_stop(), and whenever the REPL starts: no task reads from a
\* driver that was removed, and no stale handle refuses the next start.
THEOREM ConsoleIsShared == ConSpec => []ConsoleShared
<1>1. ConInv => ConsoleShared
  BY DEF ConInv, ConsoleShared, DriverHeld, DriverUsers
<1> QED BY <1>1, ConInitInv, ConStep, PTL DEF ConSpec
=============================================================================
