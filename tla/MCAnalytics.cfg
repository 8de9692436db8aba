SPECIFICATION AnalyticsSpec
CONSTANTS
  Clicks = {"c1", "c2", "c3"}
  MayFail = {"c2", "c3"}
  Workers = {w1}
  BufferSize = 1
  UrlIds = {1, 2}
  Target <- MCTarget
  Agent <- MCAgent
  Readers = {q}
  StatsDays = 0
  StatsAgents = 1
  RetentionDays = 0
  DeleteLimit = 1
  MaxDay = 2
INVARIANT AnalyticsTypeOK
INVARIANT StatsAreOfTheUrl
INVARIANT LaterReadsSeeMore
INVARIANT RetentionHolds
INVARIANT AnalyticsInv
CHECK_DEADLOCK FALSE
