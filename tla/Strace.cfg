SPECIFICATION Spec
CONSTANTS
  Tools = {"strace_0", "strace_1", "strace_2", "main"}
  MaxCalls = 4
  MaxSignals = 2
  CanBeKilled = TRUE
INVARIANTS
  NoReturnedCallMissed
  OneLinePerCall
  ReturnsPaired
  MainReportsExit
PROPERTY
  TracerEnds
