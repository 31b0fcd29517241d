SPECIFICATION FairSpec
CONSTANTS
    t1 = t1
    t2 = t2
    t3 = t3
    Caller <- ThreeCallers
    Outcomes <- AllOutcomes
    FailureThreshold = 3
    RecoveryTimeout = 2
    HalfOpenMaxCalls = 2
INVARIANTS TypeOK ProbesBounded OpensInTime
PROPERTIES FailFast KeepsContract HalfOpenResolves ServiceHeals
