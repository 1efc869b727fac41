CONSTANTS
  Node = {n1, n2}
  Worker = {w1, w2, w3}
  NoNode = NoNode
  Capacity = 2
  MaxPush = 5
SPECIFICATION Spec
INVARIANT NoTaskOversleeps
PROPERTY ImplementsFifo
PROPERTY WorkersLeave
PROPERTY TasksAreTaken
