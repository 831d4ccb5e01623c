CONSTANTS
  WIDTH = 8
  SHIFT = 3
  BASE = 8
  WORD = 2
  DUMP_MAX = 4
  MEMORY = 17
  Cuts = {0, 3}
  Calls <- MCCalls
SPECIFICATION Spec
INVARIANTS FactorsRight Shown Released
PROPERTY Ends
