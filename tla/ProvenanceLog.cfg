SPECIFICATION Spec
CONSTANTS
    agentA = agentA
    agentB = agentB
    log1 = log1
    log2 = log2
    Agent <- TwoAgents
    Instance <- OneLog
    ClockSteps <- StrictClock
    BatchSize = 2
    MaxEntries = 4
    MaxClock = 5
INVARIANTS TypeOK ChainIntact NoAlarmWhileGrowing CoversEverything NoFork
