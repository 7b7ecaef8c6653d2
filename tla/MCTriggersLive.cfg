SPECIFICATION Spec
CONSTANTS
  idle = idle
  errored = errored
  Anons = {u1}
  Rules = {idle, errored}
  TimeRules = {idle}
  Personas <- MCPersonas
  Scope <- MCScope
  Cooldown <- MCNoCooldown
  Workers = {w1, w2}
  MatchChCap = 1
  MaxTime = 1
  MaxEvals = 2
  MaxMatches = 2
  MaxFaults = 1
  MaxResets = 0
  MaxRestarts = 1
PROPERTIES
  FiresAtMostOnce
  QueuedMatchResolved
