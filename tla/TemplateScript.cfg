CONSTANTS
  Path <- SomePaths
  EmptyPath = EmptyPath
  Source = {"s1", "s2"}
  TestSource = {"s2"}
  Header = {"h1", "h2"}
  Forms <- SomeForms
  Removable = {"s1", "h1"}
  Args = {"f1", "f2"}
  LibArgs = {"f2"}
  MaxClock = 5
  MaxFaults = 2
SPECIFICATION Spec
INVARIANTS
  NoEditMissed
  SuccessIsComplete
  PlansAreTopDown
CHECK_DEADLOCK FALSE
CONSTRAINT MayMatter
