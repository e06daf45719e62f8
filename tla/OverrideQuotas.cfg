SPECIFICATION SequenceSpec
CONSTANTS
  IntMax = 1023
  Fields <- MCFields
  LongMax = 127
  Sequences <- MCSequences
INVARIANTS
  TypeOK
  NullShareIsExact
  DefaultShareIsKept
  QuotasFitTheRowsLeft
  SequenceFollowsTheRows
