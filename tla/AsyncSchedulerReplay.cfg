SPECIFICATION Spec
CONSTANTS
  f1 = f1
  f2 = f2
  f3 = f3
  None = None
  Frames <- TwoFrames
  Groups <- NoGroups
  Limits <- StepLimits
  MaxHeld = 2
INVARIANT NoReplay
