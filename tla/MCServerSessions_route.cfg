SPECIFICATION Spec
CONSTANTS
  Connections = {c1, c2}
  SessionIds = {s1, s2}
  NoSession = NoSession
  NoHome = NoHome
  MaxSessions = 1
  MaxChannels = 0
  MaxRequests = 1
SYMMETRY Symmetry
INVARIANTS AnsweredOnItsConnection
CHECK_DEADLOCK FALSE
