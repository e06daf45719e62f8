SPECIFICATION FairSpec
CONSTANTS
  Rows = 3
  BatchSize = 2
  RequestedThreads = 2
  Configs <- MCEnds
INVARIANTS
  BatchErrorsDoNotStop
PROPERTIES
  Termination
  StopEndsTheLoop
