SPECIFICATION Spec
CONSTANTS
  Threads = {t1, t2}
  Snapshots = {1, 2, 3}
  Blocks = {1, 2, 3, 4}
  ChunkCount = 1
  Values = {v1, v2}
  NULL = NULL
SYMMETRY Alike
INVARIANTS
  ReferencesCounted
  WrittenAlone
PROPERTY
  ImplementsShared
