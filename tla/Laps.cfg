SPECIFICATION RaceSpec
CONSTANTS
  Ids = {1, 2, 3, 4}
  Addresses = {a1, a2, a3, a4}
  MaxArray = 2
  MaxEntries = 5
  NoCar = NoCar
SYMMETRY Symmetry
INVARIANTS
  Leaderboard
  LapsCounted
