SPECIFICATION Spec
CONSTANTS
  s1 = s1
  s2 = s2
  s3 = s3
  s4 = s4
  States = {s1, s2, s3, s4}
  ActionCount = 2
  Outputs = {0, 1}
  InitAutomata <- Detour
  Budgets = {10}
  MaxBatch = 1
  MaxChanges = 1
INVARIANT
  PublishedExact
CHECK_DEADLOCK FALSE
