SPECIFICATION MCSpec
CONSTANTS
  Thread = {t1, t2}
  t1 = t1
  t2 = t2
  FlushCap = 3
  LineCap = 2
  Messages <- SomeMessages
  Char = {"a", "b", "c"}
  Texts <- SomeTexts
  BufCap = 3
  ArgvCap = 2
  PtrSize = 2
  Name = {"a", "b"}
  Target <- LinkTarget
  Source = {"s1", "s2"}
  Exe = {"x", "y"}
  Command = {"c", "d"}
  MaxPrints = 2
  MaxAppends = 2
  MaxArgvCalls = 6
  MaxDepth = 2
  MaxClock = 3
INVARIANTS
  OutputWhole
  EntriesWhole
  TextsKept
  SafeWithinCapacity
  StatusHonest
  TreesHonest
  RunsCurrent
  PathsAsWritten
  PrintedAsAsked
  DepsReadBack
  JsonReadBack
  ArgumentsReachProgram
  DirectoryTellsArgs
  FindsEachOnce
SYMMETRY ThreadSymmetry
