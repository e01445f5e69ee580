---------------------------- MODULE MC_Dispatch ----------------------------
(* An instance of the kernel for TLC: one service is there when the        *)
(* workers start, the other one is launched by its callbacks.              *)
EXTENDS Dispatch, TLC
CONSTANTS w1, w2, io, h1, h2

(* One worker of weight -1 (one message a turn), one of weight 0. *)
MCWeight == (w1 :> -1) @@ (w2 :> 0)
MCBoot == <<h1>>
=============================================================================
