CONSTANTS
  NULL = NULL
  s1 = s1
  s2 = s2
  s3 = s3
  s4 = s4
  s5 = s5
  Clients = {c1, c2}
  Entries = {e1, e2, e3, e4}
  Snapshots = {s1, s2, s3, s4, s5}
  Keys <- ThreeKeys
  Bytes <- Sizes
  MaximumBytes = 3
SPECIFICATION Spec
SYMMETRY Symmetry
INVARIANTS
  StructureSound
  ReferencesCounted
  LeastRecentlyUsed
PROPERTY
  ImplementsKeyed
