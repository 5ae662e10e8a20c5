------------------------------ MODULE MCSerin ------------------------------
(***************************************************************************)
(* The Serin Link in four instances that one run takes in turn.  "pairing" *)
(* is SerinPairing under the constants of the cfg, "ring" the same with    *)
(* fewer commands and two frames in the receive ring.  "setup" is          *)
(* DialSetup with two dials, one of which starts with and without a        *)
(* session number.  "console" is Console, whose REPL runs the link's       *)
(* commands.  The variables of the others stay as they are.                *)
(***************************************************************************)
EXTENDS SerinPairing, DialSetup, Console, TLC

VARIABLE part

Ring == INSTANCE SerinPairing WITH Slots <- 2, MaxDrawn <- 2

MCHeads == {"head1", "head2"}
MCSessions == {<<"head1", 1>>, <<"head2", 1>>, <<"head2", 0>>}

PartsInit ==
  /\ part \in {"pairing", "ring", "setup", "console"}
  /\ Init /\ SetupInit /\ ConInit
  /\ part \notin {"pairing", "ring"} => Table = {}
  /\ part # "setup" => net.online

PartsNext ==
  \/ part = "pairing" /\ Next /\ UNCHANGED <<part, setupVars, conVars>>
  \/ part = "ring" /\ Ring!Next /\ UNCHANGED <<part, setupVars, conVars>>
  \/ part = "setup" /\ SetupNext /\ UNCHANGED <<part, vars, conVars>>
  \/ part = "console" /\ ConNext /\ UNCHANGED <<part, vars, setupVars>>

PartsSpec == PartsInit /\ [][PartsNext]_<<part, vars, setupVars, conVars>>

MCSymmetry == Permutations(Dials) \union Permutations(Identities)
=============================================================================
