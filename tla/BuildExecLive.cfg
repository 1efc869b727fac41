CONSTANTS
  N = 3
  Node = {0, 1, 2}
  Worker = {w1, w2}
  NoNode = NoNode
  WordMax = 6
  Plans <- RepeatedPlans
SPECIFICATION Spec
PROPERTY Termination
PROPERTY ImplementsOrder
