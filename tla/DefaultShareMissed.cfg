SPECIFICATION Spec
CONSTANTS
  IntMax = 1023
  Fields <- MCHalfAndHalf
INVARIANTS
  DefaultShareIsExact
