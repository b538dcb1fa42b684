SPECIFICATION FairSysSpec
CONSTANTS
  f1 = f1
  f2 = f2
  f3 = f3
  g1 = g1
  None = None
  Frames <- TwoFrames
  Groups <- OneGroup
  Limits <- StepLimits
  Programs <- FairPrograms
  MaxHeld = 1
  MaxInputs = 1
  MaxOperations = 2
PROPERTIES
  
  EventuallyResumed
