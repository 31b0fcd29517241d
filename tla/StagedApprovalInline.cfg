SPECIFICATION FairSpec
CONSTANTS
    t1 = t1
    t2 = t2
    w1 = w1
    harm = harm
    tone = tone
    Chat <- OneChat
    Worker <- NoWorker
    Background = FALSE
    Commitment <- TwoCommitments
    Cooldowns <- ShortOrLong
    MaxRules = 3
    MaxQueued = 0
INVARIANTS CriticalStaysOut NothingLost
PROPERTY StagedIsDecided
