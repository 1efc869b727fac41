CONSTANTS
  Path <- SomePaths
  EmptyPath = EmptyPath
  Source = {"s1", "s2"}
  TestSource = {"s2"}
  Header = {"h1", "h2"}
  Forms <- SomeForms
  Removable = {}
  Args = {"f1", "f2"}
  LibArgs = {"f2"}
  MaxClock = 4
  MaxFaults = 0
SPECIFICATION Spec
INVARIANT FlagChangesHandled
CHECK_DEADLOCK FALSE
