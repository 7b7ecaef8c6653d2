----------------------------- MODULE MCTriggers -----------------------------
(***************************************************************************)
(* Values of Triggers' constants for TLC: an idle rule of the realestate   *)
(* persona (time-dependent) and an error rule of the rs_self persona       *)
(* (evaluated by the pipeline alone), as in the seeded configurations.     *)
(***************************************************************************)
EXTENDS Triggers, TLC

CONSTANTS idle, errored

MCPersonas == <<"realestate", "rs_self">>

MCScope    == (idle :> {"realestate"}) @@ (errored :> {"rs_self"})

MCCooldown == (idle :> 1) @@ (errored :> 2)

\* A rule without a cooldown, as loader.go allows.
MCNoCooldown == (idle :> 1) @@ (errored :> 0)

MCSymmetry == Permutations(Workers)
=============================================================================
