SPECIFICATION Spec
CONSTANTS
  NFiles = 2
  MaxSymbols = 4
  UINT16_MAX = 3
  Symbols <- MCSymbols
INVARIANTS
  NothingHeld
  ExitStatus
  Listing
PROPERTY Ends
