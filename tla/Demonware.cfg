CONSTANTS
  s1 = s1
  s2 = s2
  Talks <- MCTalks
  Sockets = {s1, s2}
  Kinds <- MCKinds
  ReplyBytes = 2
  ReadSizes = {3}
  NoServer = NoServer
  NoMessage = NoMessage
  MaxSends <- MCMaxSends
SPECIFICATION FairSpec
INVARIANTS TypeOK DataStays
PROPERTIES StreamsKept
CHECK_DEADLOCK FALSE
