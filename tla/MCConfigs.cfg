SPECIFICATION Spec
CONSTANTS
  h1 = h1
  h2 = h2
  Requests <- MCRequests
  MaxOps = 3
  MaxFires = 1
  MaxFaults = 1
INVARIANTS
  TypeOK
  ConfigHasItsRules
  TwoActiveOnlyAfterOverlap
PROPERTIES
  ActivationIsExclusive
  EngineConverges
