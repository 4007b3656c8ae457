SPECIFICATION Spec
CONSTANTS
  States = {0, 1, 2}
  ActionCount = 2
  Outputs = {0}
  Queries <- ThreeQueries
INVARIANTS
  PhasesSound
  WitnessesAgree
  BudgetSuffices
  BudgetShared
  NoPlanCertified
  SearchPlanShortest
