SPECIFICATION Spec
CONSTANTS
  idle = idle
  errored = errored
  Anons = {u1}
  Rules = {idle, errored}
  TimeRules = {idle}
  Personas <- MCPersonas
  Scope <- MCScope
  Cooldown <- MCCooldown
  Workers = {w1, w2}
  MatchChCap = 1
  MaxTime = 2
  MaxEvals = 2
  MaxMatches = 2
  MaxFaults = 0
  MaxResets = 1
  MaxRestarts = 1
INVARIANTS
  TypeOK
  MatchSpacing
  EachMatchOnce
  CooldownSurvivesRestart
  QuiescentResetIsClean
SYMMETRY MCSymmetry
