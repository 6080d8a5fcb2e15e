SPECIFICATION Spec
CONSTANTS
    MaxCall = 3
    MaxHandle = 5
    MaxAnswers = 1
    MaxRenewals = 1
    MaxConnections = 2
    RetryLimit = 2
CHECK_DEADLOCK FALSE
INVARIANT SentAfterChannel
