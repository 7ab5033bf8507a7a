CONSTANTS
  Base = 11
  Letters = {9}
  MaxDbNameLen = 2
  MaxKeySize = 1
  MaxValueSize = 1
  DbNames <- MCNames
  Keys <- MCKeys
  Values <- MCValues
  InitialDbs <- MCDefault
  StatsPacket <- MCStats
  InfoPacket <- MCInfo
  MaxRequests = 3
SPECIFICATION FairSpec
INVARIANT TypeOK
INVARIANT ExecutedAsAsked
INVARIANT AnswersMatch
INVARIANT BoundedReads
PROPERTY ExecutedAnswersArrive
PROPERTY RequestsEnd
PROPERTY TasksEnd
CHECK_DEADLOCK FALSE
