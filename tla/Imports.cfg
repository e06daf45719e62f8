SPECIFICATION Spec
CONSTANTS
  Rows = 4
  BatchSize = 2
  RequestedThreads = 2
  Configs <- MCImports
INVARIANTS
  TypeOK
  NoRowTwice
  ReportedRowsAreInTable
  NormalReturnIsComplete
  PerRunAtomic
  CountersAgree
  ChecksComeBeforeClearing
  TempFilesRemoved
PROPERTIES
  ImplementsContract
