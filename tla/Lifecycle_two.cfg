SPECIFICATION Spec
CONSTANTS
  Clients = {c1, c2}
  Cells = {k}
  Values = {x, y}
  PrepareOptions <- TwoOptions
  MaxGen = 2
  MaxEpoch = 2
  MaxTokens = 2
  MaxUpsets = 1
  MaxCalls = 2
INVARIANTS
  StateSound
  CacheSound
  TokenNamesSnapshot
PROPERTY
  ImplementsPrepared
SYMMETRY Alike
CHECK_DEADLOCK FALSE
