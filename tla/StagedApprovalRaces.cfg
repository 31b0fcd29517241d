SPECIFICATION Spec
CONSTANTS
    t1 = t1
    t2 = t2
    w1 = w1
    harm = harm
    tone = tone
    Chat <- TwoChats
    Worker <- OneWorker
    Background = TRUE
    Commitment <- OneCommitment
    Cooldowns <- ShortOrLong
    MaxRules = 3
    MaxQueued = 1
SYMMETRY Symmetry
INVARIANT TypeOK
PROPERTY KeepsContract
