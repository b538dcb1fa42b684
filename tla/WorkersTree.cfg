SPECIFICATION Spec
CONSTANTS
  w1 = w1
  w2 = w2
  Root = Root
  None = None
  Workers <- TwoWorkers
  MaxPosts = 2
  MaxReloads = 1
  Orderly = FALSE
INVARIANTS
  TypeOK
  Delivers
  CodeStays
  NoOrphan
  FailureIsLoud
SYMMETRY Symmetry
CHECK_DEADLOCK FALSE
