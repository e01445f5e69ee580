------------------------------- MODULE MC_Aoi -------------------------------
(* Instances of the AOI service for TLC, with the radii of the source.     *)
EXTENDS Aoi, TLC

(* Within 800 of each other, between 800 and 1600, and further apart. *)
MCPos == {<<0, 0, 0>>, <<900, 0, 0>>, <<1700, 0, 0>>}

(* Players are alike, and so are the agents of a player. *)
Symmetry == Permutations(Player) \cup Permutations(Agent)
=============================================================================
