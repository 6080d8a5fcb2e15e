SPECIFICATION FairSpec
CONSTANTS
  Connections = {c1, c2}
  SessionIds = {s1}
  NoSession = NoSession
  NoHome = NoHome
  MaxSessions = 1
  MaxChannels = 0
  MaxRequests = 1
PROPERTY ClosedLeaves
CHECK_DEADLOCK FALSE
