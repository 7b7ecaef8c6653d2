--------------------------- MODULE MCWindowStore ---------------------------
(***************************************************************************)
(* Values of WindowStore's constants for TLC: two shards, two users on the *)
(* first and one on the second.                                            *)
(***************************************************************************)
EXTENDS WindowStore, TLC

CONSTANTS a, b, c

MCShardOf == (a :> 1) @@ (b :> 1) @@ (c :> 2)
=============================================================================
