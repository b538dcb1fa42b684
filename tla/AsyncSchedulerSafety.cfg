SPECIFICATION Spec
CONSTANTS
  f1 = f1
  f2 = f2
  f3 = f3
  None = None
  Frames <- ThreeFrames
  Groups <- NoGroups
  Limits <- StepLimits
  MaxHeld = 2
INVARIANTS
  TypeOK
  OnePlace
  CountMatchesHolders
  AwaitsAreServed
  NoPendingAtBoundary
PROPERTIES
  FollowsLifecycle
  ExceptionKept
  UnobservedReported
SYMMETRY Symmetry
