SPECIFICATION FairSpec
CONSTANTS
    c1 = c1
    c2 = c2
    w1 = w1
    w2 = w2
    Chat <- OneChat
    Task <- OneTask
    FailureThreshold = 1
    RecoveryTimeout = 1
    HalfOpenMaxCalls = 1
PROPERTY RecoveryTestEnds
