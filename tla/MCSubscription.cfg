CONSTANTS
  MaxU32 = 3
  MaxKeepAliveCount = 2
  DefaultKeepAliveCount = 1
  MaxLifetimeCount = 6
  RequestedKeepAlive <- MCRequestedKeepAlive
  RequestedLifetime <- MCRequestedLifetime
SPECIFICATION FairSpec
INVARIANTS
  SequenceIsContiguous
  LateMeansStarved
  OnlyFarewellWaits
  CountersWithinLimits
  TicksAreOutcomes
PROPERTIES
  ServableDataIsSent
  AbandonedIsClosed
