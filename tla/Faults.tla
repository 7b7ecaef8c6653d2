------------------------------- MODULE Faults -------------------------------
(***************************************************************************)
(* The budget of faults the environment may cause in one behaviour: calls  *)
(* that fail, answers that are lost, deadlines that pass.                  *)
(***************************************************************************)
EXTENDS Naturals

CONSTANT MaxFaults

VARIABLE faults

Fault   == faults < MaxFaults /\ faults' = faults + 1
NoFault == UNCHANGED faults
=============================================================================
