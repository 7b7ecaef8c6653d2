SPECIFICATION Spec
CONSTANTS
  renderValue <- renderNested
  Personas = {"realestate", "rs-self", "other"}
  Counts = {0, 1, 3, 4}
  MaxSessions = 3
  MaxFaults = 1
  Configurations <- MCConfigurations
  Users = {"u1", "u2"}
  EmailOf <- MCEmailOf
  CannedOf <- MCCannedOf
  UserOf <- MCUserOf
  CustomRules <- MCCustomRules
INVARIANTS
  TypeOK
  ReportedIsSent
  StatusIsTrue
  
  PlaceholderFree
PROPERTY RunEnds
CHECK_DEADLOCK FALSE
