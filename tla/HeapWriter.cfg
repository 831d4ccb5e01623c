SPECIFICATION Spec
CONSTANTS
  Senders = {p1, p2}
  None = None
  Search <- MCSearch
  Contents <- MCContents
  Replacements <- MCReplacements
  NUL = 0
INVARIANTS
  DiesUnguarded
  LeftRunning
PROPERTIES
  HeapEdited
  
  SignalEndsSuspend
