SPECIFICATION FairSpec
CONSTANTS
    c1 = c1
    c2 = c2
    Chat <- TwoChats
    MaxRetries <- OneCorrects
    Modes <- SomeModes
    Scores <- SomeScores
    Judgements <- SomeJudgements
    Reports <- SomeReports
    Base <- StrictBase
    Maxima <- DefaultMaxima
    Profiles <- TwoProfiles
    MaxCount = 1
    Growth <- Saturating
INVARIANTS TypeOK TierJustified HighScoreBlocks FindingIsProbed ProbedAtMostOnce
PROPERTIES ChatEnds
