CONSTANTS
  Caller = {c1, c2}
  PipeSize = 2
  ReadSize = 2
  MaxOutput = 1
SPECIFICATION Spec
INVARIANT NotStartedIsError
