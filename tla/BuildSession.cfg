SPECIFICATION Spec
CONSTANTS
  prog = prog
  lib = lib
  obj = obj
  src = src
  Path = {prog, lib, obj, src}
  EmptyPath = EmptyPath
  Starts <- AllStarts
  Targets <- AllTargets
  MaxNodes = 4
  MaxTime = 5
INVARIANTS
  NothingMissed
  SecondBuildIsEmpty
  SearchesExact
  PreparedIsPlan
  SomethingIsReady
CHECK_DEADLOCK FALSE
