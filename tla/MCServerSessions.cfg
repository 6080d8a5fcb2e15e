SPECIFICATION Spec
CONSTANTS
  Connections = {c1, c2}
  SessionIds = {s1, s2}
  NoSession = NoSession
  NoHome = NoHome
  MaxSessions = 1
  MaxChannels = 1
  MaxRequests = 0
SYMMETRY Symmetry
CONSTRAINT KeepsRunning
INVARIANTS SessionsAreBounded LeftMeansTold TokenlessIsClosing
CHECK_DEADLOCK FALSE
