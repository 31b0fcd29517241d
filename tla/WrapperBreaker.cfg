SPECIFICATION FairSpec
CONSTANTS
    c1 = c1
    c2 = c2
    w1 = w1
    w2 = w2
    Chat <- TwoChats
    Task <- TwoTasks
    FailureThreshold = 1
    RecoveryTimeout = 2
    HalfOpenMaxCalls = 1
INVARIANTS TypeOK OneProbePerTrip
PROPERTIES BlockedUntilReset ResetRestores
