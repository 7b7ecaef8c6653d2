SPECIFICATION Spec
CONSTANTS
  NMsgs = 4
  Malformed = {1}
  NoAnon = {}
  WriteKeyOf <- MCWriteKeyOf
  DeniedConsents <- MCDeniedConsents
  AllowedWriteKeys = {"ours"}
  DropOnConsentDeny = {}
  Workers = {w1}
  OutCap = 2
  ArchiveCap = 1
  BatchSize = 2
  MatchChCap = 1
  MaxMatches = 1
  MaxFaults = 1
  MaxStarts = 2
INVARIANTS
  TypeOK
  ArchiveFollowsWindows
  AckedIsHandedOver
PROPERTIES
  ArchiveCatchesUp
  ShutdownEnds
