SPECIFICATION FairSpec
CONSTANTS
    u1 = u1
    u2 = u2
    User <- TwoUsers
    Plans <- OneLongOrTwoShort
    Severe <- SevereProbes
    Workers = 2
    MaxRetries = 1
INVARIANTS TypeOK HealthIsShown NothingForgotten
PROPERTIES BatteriesEnd
