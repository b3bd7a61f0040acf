SPECIFICATION Spec
CHECK_DEADLOCK FALSE
CONSTANTS
  NumParts = 3
  Bulk <- QuadWithLines
  Boundary <- TwoEdges
  NumComponents = 2
INVARIANTS
  BaseNodesComeFirst
