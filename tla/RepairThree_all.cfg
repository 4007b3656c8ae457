SPECIFICATION Spec
CONSTANTS
  s1 = s1
  s2 = s2
  s3 = s3
  States = {s1, s2, s3}
  ActionCount = 2
  Outputs = {0, 1}
  InitAutomata <- AllAutomata
  Budgets = {0, 6}
  MaxBatch = 1
  MaxChanges = 1
INVARIANTS
  NothingStale
  NeverRaised
PROPERTY
  ImplementsMaintenance
CHECK_DEADLOCK FALSE
