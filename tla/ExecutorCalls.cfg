SPECIFICATION FairSpec
CONSTANTS
  MaxThreads = 3
  Configs <- MCCalls
  Faults = {"generator", "refuse", "consumer_throws"}
INVARIANTS
  TypeOK
  EachRowOnce
  NoGaps
  ReturnTellsTheTruth
  NoExceptionLost
PROPERTIES
  CancelEndsTheLoops
  Termination
