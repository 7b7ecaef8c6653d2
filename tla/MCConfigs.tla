------------------------------ MODULE MCConfigs ------------------------------
(* Two requests at a time are enough for every pair of operations to meet.  *)
EXTENDS Configs

CONSTANTS h1, h2

MCRequests == {h1, h2}

=============================================================================
