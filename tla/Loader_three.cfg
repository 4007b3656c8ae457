SPECIFICATION LoaderSpec
CONSTANTS
  Graphs <- SomeGraphs
  Empty = ""
  NotString = "not a string"
  MaxChanges = 2
INVARIANTS
  VerdictSound
  BuildsWhatIsNamed
  IncomingExact
