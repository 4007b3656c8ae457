SPECIFICATION Spec
CONSTANTS
  States = {0, 1, 2, 3}
  ActionCount = 2
  Outputs = {0, 1}
  Queries <- FourQueries
INVARIANTS
  PhasesSound
  PlanResolves
  NoPlanCertified
  LowerBoundSettled
  SearchPlanShortest
