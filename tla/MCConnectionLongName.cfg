CONSTANTS
  Base = 11
  Letters = {9}
  MaxDbNameLen = 2
  MaxKeySize = 1
  MaxValueSize = 1
  DbNames <- MCLongNames
  Keys <- MCKeys
  Values <- MCValues
  InitialDbs <- MCDefault
  StatsPacket <- MCStats
  InfoPacket <- MCInfo
  MaxRequests = 3
SPECIFICATION Spec
INVARIANT OperatesOnNamed
CHECK_DEADLOCK FALSE
