SPECIFICATION Spec
CHECK_DEADLOCK FALSE
CONSTANTS
  Strings8 <- MCStrings8
  Strings16 <- MCStrings16
  Strings32 <- MCStrings32
  Word = 4096
  Second = 10
  Times <- MCTimes
  Tick = 4
INVARIANTS
  TypeOK
  DecodeIsExact
  ConversionKeepsTheText
  ValidityIsExact
  SentinelIsNeverATime
  ConversionsKeepTheInstant
PROPERTY
  CopyKeepsTheTime
