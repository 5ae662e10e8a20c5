------------------------------- MODULE MCHome -------------------------------
(***************************************************************************)
(* What a home sees, in two instances that one run takes in turn: "tiles"  *)
(* is HomeKitTiles, the services while they are used, and "db" is          *)
(* HomeKitDb, the database they are built into.  The variables of the      *)
(* other stay as they are.                                                 *)
(***************************************************************************)
EXTENDS HomeKitTiles, HomeKitDb

VARIABLE part

MCUnit == [power |-> TRUE, mode |-> "heat", target |-> "22.0", speed |-> "auto", vane |-> "3"]
MCRemotes == {[MCUnit EXCEPT !.power = FALSE],
              [MCUnit EXCEPT !.mode = "dry", !.speed = "2", !.vane = "swing"]}
MCBoots == {{"thermostat", "fan"}, {"thermostat", "fanAuto", "vane"},
            {"thermostat", "fanMode", "dryMode"}}

MCEverything ==
  [mask |-> {"fan", "dry"}, hidden |-> {}, vane |-> FALSE, single |-> FALSE, sensor |-> FALSE]
MCSettings ==
  {MCEverything,
   [MCEverything EXCEPT !.hidden = {"fan"}],
   [MCEverything EXCEPT !.hidden = {"fanAuto", "fanMode"}, !.vane = TRUE],
   [MCEverything EXCEPT !.mask = {"dry"}, !.single = TRUE],
   [MCEverything EXCEPT !.sensor = TRUE]}

PartsInit ==
  /\ part \in {"tiles", "db"}
  /\ TilesInit /\ DbInit
  /\ part = "tiles" => cfg = MCEverything
  /\ part = "db" => Tiles = {"thermostat", "fan"}

\* A step of either part, which leaves the other as it is.
OfTiles(step) == part = "tiles" /\ step /\ UNCHANGED <<part, dbVars>>
OfDb(step) == part = "db" /\ step /\ UNCHANGED <<part, tileVars>>

PartsNext == OfTiles(TilesNext) \/ OfDb(DbNext)

allVars == <<part, tileVars, dbVars>>

\* The fairness of each part.
PartsSpec ==
  /\ PartsInit /\ [][PartsNext]_allVars
  /\ WF_allVars(\/ OfTiles(\E service \in Visited : SyncReads(service))
                \/ OfDb(\E temperature \in Temperatures : InitAttempt(temperature)))
  /\ WF_allVars(OfTiles(SyncSets) \/ OfDb(Reconcile))
  /\ WF_allVars(OfTiles(Enqueue) \/ OfDb(SensorAdded))
  /\ WF_allVars(OfTiles(PublishQueued) \/ OfDb(Fetch))
  /\ WF_allVars(OfTiles(WriteShown))

\* The tiles come to show a unit that rests.
TilesFollow == part = "tiles" => TilesSettle

\* A home comes to use the database that is served.
HomeFollows == part = "db" => DbFollowed
=============================================================================
