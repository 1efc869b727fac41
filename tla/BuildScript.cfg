CONSTANTS
  Path = {a, b, c}
  EmptyPath = EmptyPath
  MaxCalls = 5
SPECIFICATION ScriptSpec
INVARIANT GraphExact
INVARIANT WaitsForInputs
CHECK_DEADLOCK FALSE
