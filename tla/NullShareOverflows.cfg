SPECIFICATION Spec
CONSTANTS
  IntMax = 1023
  Fields <- MCManyRows
INVARIANTS
  NullShareIsExact
