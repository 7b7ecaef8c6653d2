------------------------------ MODULE MCIngest ------------------------------
(***************************************************************************)
(* Values of Ingest's constants for TLC: a message that does not parse, an *)
(* event of another workspace, and two good events, enough for an order.   *)
(***************************************************************************)
EXTENDS Ingest, TLC

MCWriteKeyOf == [m \in Msgs |-> IF m = 2 THEN "other" ELSE "ours"]

MCDeniedConsents == [m \in Msgs |-> {}]
=============================================================================
