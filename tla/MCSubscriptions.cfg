CONSTANTS
  MaxU32 = 5
  SubIds <- TwoIds
  Priorities <- TwoPriorities
  MaxRequests = 5
SPECIFICATION FairSpec
CONSTRAINTS FirstKeepsPriority AheadSendsTwo
INVARIANTS
  QueueIsBounded
  NoNumberIsLost
PROPERTIES
  ImplementsService
  NoRequestIsDropped
  RetransmissionIsBounded
  RequestIsAnswered
CHECK_DEADLOCK FALSE
