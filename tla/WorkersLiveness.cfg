SPECIFICATION FairSpec
CONSTANTS
  w1 = w1
  w2 = w2
  Root = Root
  None = None
  Workers <- TwoWorkers
  MaxPosts = 1
  MaxReloads = 0
  Orderly = TRUE
PROPERTIES
  PostWakes
  ReleaseEnds
  JoinReturns
CHECK_DEADLOCK FALSE
