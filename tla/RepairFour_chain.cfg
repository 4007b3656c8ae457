SPECIFICATION Spec
CONSTANTS
  s1 = s1
  s2 = s2
  s3 = s3
  s4 = s4
  States = {s1, s2, s3, s4}
  ActionCount = 2
  Outputs = {0, 1}
  InitAutomata <- Detour
  Budgets <- SomeBudgets
  MaxBatch = 2
  MaxChanges = 2
INVARIANTS
  TypeOK
  PublishedUsable
  ExactUnlessSkipped
  BudgetBoundsChanges
CHECK_DEADLOCK FALSE
