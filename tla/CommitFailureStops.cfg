SPECIFICATION Spec
CONSTANTS
  Rows = 3
  BatchSize = 1
  RequestedThreads = 1
  Configs <- MCContinue
INVARIANTS
  BatchErrorsDoNotStop
