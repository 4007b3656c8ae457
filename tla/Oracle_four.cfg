SPECIFICATION OracleSpec
CONSTANTS
  States = {0, 1, 2, 3}
  ActionCount = 2
  Outputs = {0, 1}
  Calls <- FourCalls
INVARIANTS
  QueueSound
  BuildExact
  RestoreSound
