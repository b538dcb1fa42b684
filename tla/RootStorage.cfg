SPECIFICATION Spec
CONSTANT LirFunctions <- ScalarEdges
INVARIANTS
  ReadsAreRight
  RootsAreNeeded
CHECK_DEADLOCK FALSE
