SPECIFICATION Spec
CONSTANTS
  r1 = r1
  r2 = r2
  d1 = d1
  d2 = d2
  Null = Null
  Records <- TwoRecords
  Payloads <- TwoPayloads
  MaxStack = 5
INVARIANTS
  TypeOK
  OneHostEntry
  DepthCountsEntries
  CallsAreCounted
  NoExceptionInHost
PROPERTIES
  UserdataIsKept
  ClearsOutsideEntries
SYMMETRY Symmetry
