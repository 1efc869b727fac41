CONSTANTS
  N = 4
  Node = {0, 1, 2, 3}
  Worker = {w1, w2, w3}
  NoNode = NoNode
  WordMax = 6
  Plans <- SafetyPlans
SPECIFICATION Spec
INVARIANT AtMostOnce
INVARIANT DepsFirst
INVARIANT NeverOverflows
INVARIANT CountersExact
INVARIANT RemainingExact
INVARIANT ReturnIsHonest
SYMMETRY WorkerSymmetry
