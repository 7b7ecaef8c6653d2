SPECIFICATION Spec
CONSTANTS
  h1 = h1
  h2 = h2
  Requests <- MCRequests
  MaxOps = 2
  MaxFires = 1
  MaxFaults = 0
INVARIANTS
  SomeConfigActive
