SPECIFICATION Spec
CONSTANTS
  NMsgs = 1
  Malformed = {}
  NoAnon = {}
  WriteKeyOf <- MCWriteKeyOf
  DeniedConsents <- MCDeniedConsents
  AllowedWriteKeys = {"ours"}
  DropOnConsentDeny = {}
  Workers = {w1}
  OutCap = 1
  ArchiveCap = 1
  BatchSize = 2
  MatchChCap = 1
  MaxMatches = 1
  MaxFaults = 0
  MaxStarts = 1
PROPERTY DrainedBeforeExit
