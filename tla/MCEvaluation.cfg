SPECIFICATION Spec
CONSTANTS
  RegexMatches <- MCRegexMatches
  BadPatterns <- MCBadPatterns
  Events <- MCEvents
  Rules <- MCRules
  Holds <- Eval
  DependsOnTime <- UsesTime
  NameChoices <- MCNames
  AllowedWriteKeys = {"wk"}
  DropOnConsentDeny = {}
  IdleChoices = {1, 2}
  MaxEvents = 3
  MaxTime = 3
INVARIANTS
  TypeOK
  DominantSuburbIsMode
  TraitsPreferIdentify
  PersonalDataRedacted
  TimelessIsTimeless
  TickMissesNoMatch
  RoundTripPreservesRule
  AnswersTakeEffect
CHECK_DEADLOCK FALSE
