SPECIFICATION Spec
CONSTANTS
  a = a
  b = b
  c = c
  v1 = v1
  v2 = v2
  Keys = {a, b, c}
  Values = {v1, v2}
  NoValue = NoValue
  Operands <- SmallOperands
  Hash <- Colliding
  InitialOrderCap = 2
  InitialBucketCap = 4
  MaxEntries = 4
  MaxLoops = 2
SYMMETRY SameValues
INVARIANT LookupIsExact
 
