SPECIFICATION Spec
CONSTANTS
  Threads = {w1, w2}
  NTasks = 2
  MaxFaults = 2
  Nobody = Nobody
  NULL = NULL
  Lines <- MCLines
INVARIANTS
  LocksPaired
  LinesIntact
  RunAtMostOnce
  NobodyQuitsEarly
  LogTellsTheTruth
  NothingLeaked
PROPERTIES
  ResultsAreFinal
  Termination
  BoardSpec
