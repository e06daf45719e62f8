SPECIFICATION Spec
CONSTANTS
  IntMax = 32767
  IntDigits = 4
  LongDigits = 8
  MalformedPatterns = {"["}
  LowerCase <- MCLowerCase
  WordsIn <- MCWordsIn
  Tables <- MCTables
  Connection = "odbc://here"
  Example = "odbc://example"
  RowOptions <- MCRowOptions
  RootEdits <- MCRootEdits
  FieldEdits <- MCFieldEdits
  FieldSwaps <- MCFieldSwaps
  LoadSupported = FALSE
  MaxEdits = 1
  MaxRows = 2
  MaxErrors = 2
INVARIANTS
  TypeOK
  InitIsUsable
  InferredFieldsFit
  SchemaImpliesCheck
  CheckForetellsRun
  SettingsAsWritten
  FinishedFileIsComplete
  FailureIsTold
PROPERTIES
  RefusedRunKeepsData
CHECK_DEADLOCK FALSE
