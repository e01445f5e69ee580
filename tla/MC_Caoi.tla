------------------------------ MODULE MC_Caoi ------------------------------
(* Instances of the AOI engine for TLC, with the radius of the source.     *)
EXTENDS CaoiHistory, TLC

(* Relative to a radius of 40: nearer than half of it, exactly on it (both *)
(* along an axis and across two), and beyond it.                           *)
MCPos == {<<0, 0, 0>>, <<15, 0, 0>>, <<40, 0, 0>>, <<-24, 0, 32>>}

(* Every mode string: none, "w", "m" and "wm". *)
AllModes == SUBSET {"watcher", "marker"}

MCSymmetry == Permutations(Id)
=============================================================================
