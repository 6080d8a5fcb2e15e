SPECIFICATION FairSpec
CONSTANTS
    MaxCall = 3
    MaxHandle = 5
    MaxAnswers = 1
    MaxRenewals = 1
    MaxConnections = 2
    RetryLimit = 2
CONSTRAINTS OneAtATime FirstRequests
INVARIANTS
    TypeOK
    KeysInStep
    AcksAreKept
    InflightIsAwaited
PROPERTIES
    DisconnectReturns
    CloseIsTold
    PublishingGoesOn
CHECK_DEADLOCK FALSE
