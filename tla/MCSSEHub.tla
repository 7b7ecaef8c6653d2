------------------------------ MODULE MCSSEHub ------------------------------
(***************************************************************************)
(* Values of SSEHub's constants for TLC: one stream, so that the           *)
(* subscribers and the publishers meet on it.                              *)
(***************************************************************************)
EXTENDS SSEHub, TLC

MCStreamOf == [s \in Subs |-> "triggers"]
=============================================================================
