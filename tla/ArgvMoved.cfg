CONSTANTS
  Texts <- SomeTexts
  BufCap = 3
  ArgvCap = 4
  PtrSize = 2
  MaxCalls = 6
CHECK_DEADLOCK FALSE
SPECIFICATION Spec
INVARIANT BuiltArgvIsValid
