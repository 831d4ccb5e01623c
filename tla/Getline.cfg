SPECIFICATION Spec
CONSTANTS
  Fds = {0, 1, 2}
  MAX_FDS = 2
  READ_SIZE = 2
  MaxLength = 3
  MaxOpens = 2
  MaxFaults = 1
  NULL = NULL
  NONE = NONE
INVARIANTS
  WholeLines
  NothingLost
  InOrderOnce
PROPERTY CallEnds
