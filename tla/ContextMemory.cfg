SPECIFICATION Spec
CONSTANTS
  s1 = s1
  s2 = s2
  s3 = s3
  Null = Null
  System = {s1, s2, s3}
  Chunks = {1, 2}
  Configs <- SmallConfigs
  Blocks <- TwoClasses
  Noise <- ZeroBytes
  MaxLive = 3
  MaxTabled = 1
  MaxRoots = 2
SYMMETRY Alike
INVARIANTS TypeOK BooksBalance TablesFollowStorage
PROPERTY IsHeap
