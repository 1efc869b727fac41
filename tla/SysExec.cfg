CONSTANTS
  Caller = {c1, c2}
  PipeSize = 2
  ReadSize = 2
  MaxOutput = 3
SPECIFICATION EitherSpec
INVARIANT ResultHonest
INVARIANT OutputComplete
INVARIANT HoldsOneWay
PROPERTY EveryCallReturns
