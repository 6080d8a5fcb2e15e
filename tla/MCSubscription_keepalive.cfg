CONSTANTS
  MaxU32 = 2
  MaxKeepAliveCount = 2
  DefaultKeepAliveCount = 1
  MaxLifetimeCount = 6
  RequestedKeepAlive = {2}
  RequestedLifetime = {6}
SPECIFICATION PublishingSpec
PROPERTY KeepAliveIsSent
