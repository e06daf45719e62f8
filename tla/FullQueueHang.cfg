SPECIFICATION FairSpec
CONSTANTS
  Rows = 3
  BatchSize = 1
  RequestedThreads = 1
  Configs <- MCStop
PROPERTIES
  Termination
