------------------------------ MODULE MC_Scene ------------------------------
(* An instance of the AOI service with its engine for TLC. *)
EXTENDS Scene

(* Exactly on the engine's radius of each other, where pairs stay hot. *)
MCEdge == {<<0, 0, 0>>, <<400, 0, 0>>}
=============================================================================
