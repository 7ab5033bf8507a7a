CONSTANTS
  c1 = c1
  c2 = c2
  c3 = c3
  c4 = c4
  Conns = {c1, c2, c3, c4}
  LogLevels = {0, 1, 2, 4}
SPECIFICATION FairSpec
INVARIANT TypeOK
INVARIANT DrainIsComplete
PROPERTY RepeatedSignalStops
PROPERTY ServerDrains
CHECK_DEADLOCK FALSE
