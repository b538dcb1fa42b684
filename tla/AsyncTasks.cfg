SPECIFICATION SysSpec
CONSTANTS
  f1 = f1
  f2 = f2
  f3 = f3
  g1 = g1
  None = None
  Frames <- ThreeFrames
  Groups <- OneGroup
  Limits <- FullSteps
  Programs <- TaskPrograms
  MaxHeld = 2
  MaxInputs = 2
  MaxOperations = 2
INVARIANTS
  SysTypeOK
  SysCountMatchesHolders
  CompletesOnce
  ReactsOnce
  JoinNamesGroup
  SettlesWithLast
PROPERTIES
  FailureReported
SYMMETRY Symmetry
