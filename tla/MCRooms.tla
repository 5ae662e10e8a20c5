------------------------------- MODULE MCRooms -------------------------------
(* Instances of RoomSources for TLC. *)
EXTENDS RoomSources, TLC

MCSymmetry == Permutations(Sensors) \cup Permutations(Dials)
===========================================================================
