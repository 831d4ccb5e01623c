SPECIFICATION Spec
CONSTANTS
  Tools = {"strace_0"}
  MaxCalls = 4
  MaxSignals = 0
  CanBeKilled = FALSE
INVARIANT EveryCallPrinted
