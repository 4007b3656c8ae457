SPECIFICATION Spec
CONSTANTS
  States = {0, 1, 2}
  ActionCount = 2
  Outputs = {0, 1}
  Models <- ThreeModels
  Words <- ThreeWords
  MaxGen = 3
  MaxPlans = 2
CHECK_DEADLOCK FALSE
PROPERTY
  JudgedOnItsModel
INVARIANTS
  NoFalseAlarm
  PromiseKept
  AnswersExplained
