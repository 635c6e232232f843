------------------------------- MODULE MCRoom -------------------------------
(* The room of Room.tla with two seats and three users, for TLC.           *)
EXTENDS Room, TLC

MCSymmetry == Permutations(Users) \cup Permutations(Ais)
=============================================================================
