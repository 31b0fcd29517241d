SPECIFICATION Spec
CONSTANTS
    t1 = t1
    t2 = t2
    w1 = w1
    harm = harm
    tone = tone
    Chat <- OneChat
    Worker <- OneWorker
    Background = TRUE
    Commitment <- OneCommitment
    Cooldowns <- Short
    MaxRules = 1
    MaxQueued = 1
INVARIANT CriticalStaysOut
